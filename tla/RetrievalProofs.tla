--------------------------- MODULE RetrievalProofs ---------------------------
(***************************************************************************)
(* Theorems about the stores, the searches and the edit context.           *)
(*                                                                         *)
(* StoresStaySound: whichever native calls fail, an id is bound to the     *)
(* chunk it was last given out for, and is smaller than the next one       *)
(* (IdsBound); so a vector that went in under an id not yet given out      *)
(* stays unbound until add meets it and spends the id.  What is bound is   *)
(* what was last given (VectorsGiven).  A store that passes save's check   *)
(* has as many ids as keys, and then every key has its own.                *)
(*                                                                         *)
(* KeywordsStayExact: the index is one of Words, the exact ones, in memory *)
(* and on disk.  add and remove keep it there if what is added is not      *)
(* there yet, which remove before add sees to; a sum over the chunks grows *)
(* by what is added in whatever order the library adds it up (SumStep).    *)
(*                                                                         *)
(* EditAnswersHonest: the invariant has a clause for each thing that a     *)
(* step of a request hands on to the next (SymbolResolved, CallersRead,    *)
(* DefinitionRead, CalleesRead): what it is in any case, and what it is    *)
(* if the index is still the same.                                         *)
(*                                                                         *)
(* SearchIsHonest: what is collected before the reranker is awaited is of  *)
(* the branch it was collected for (CollectedWell), and what is added      *)
(* after it is filtered by what was kept of that branch.  A repeated       *)
(* search ends at some limit at which it may stop (PrefilteredIs); the     *)
(* answers for all limits are beginnings of one order, so what is kept of  *)
(* one is a beginning of what is kept of the order (AmongCut).             *)
(*                                                                         *)
(* ContextAnswersHonest: what was made found nothing, and with what is     *)
(* pending it is the plan (Waiting).  The pack: sorting gives its results  *)
(* back in another order (Rearranges), and what is dropped overlaps what   *)
(* is kept and ranked before it (AcceptedIs).                              *)
(***************************************************************************)
EXTENDS ChunkStores, ContextSearch, EditContext, Search,
        FiniteSetTheorems, SequenceTheorems, WellFoundedInduction, TLAPS

-----------------------------------------------------------------------------
(* The stores.                                                              *)

\* The types of a store, as far as the steps need them.
StoreFields == {"index", "idToKey", "keyToId", "metadata", "nextId"}
Shaped(S) ==
  /\ DOMAIN S = StoreFields /\ S.nextId \in Nat
  /\ IsFiniteSet(DOMAIN S.keyToId) /\ IsFiniteSet(S.metadata)

\* An id that is bound was given out, to the key that has it.
IdsBound(S) ==
  \A id \in DOMAIN S.idToKey :
    /\ id \in Nat /\ id < S.nextId
    /\ S.idToKey[id] \in DOMAIN S.keyToId
    /\ S.keyToId[S.idToKey[id]] = id

\* A bound vector is what was last given for its key.
VectorsGiven(S, g) ==
  \A id \in DOMAIN S.idToKey \cap DOMAIN S.index :
    S.idToKey[id] \in DOMAIN g /\ S.index[id] = g[S.idToKey[id]]

StoreInv(S, g) == Shaped(S) /\ IdsBound(S) /\ VectorsGiven(S, g)

StoresInv ==
  /\ StoreInv(store, given)
  /\ vectorFile # Absent => StoreInv(vectorFile.store, vectorFile.given)
  /\ SavedSound

-----------------------------------------------------------------------------

\* A store that has lost bindings, and gained vectors under ids that are not given out.
LEMMA Shrinks ==
  ASSUME NEW S, NEW g, StoreInv(S, g), NEW T, Shaped(T), T.nextId >= S.nextId,
         \A id \in DOMAIN T.idToKey :
           /\ id \in DOMAIN S.idToKey /\ T.idToKey[id] = S.idToKey[id]
           /\ T.idToKey[id] \in DOMAIN T.keyToId
           /\ T.keyToId[T.idToKey[id]] = S.keyToId[T.idToKey[id]]
           /\ id \in DOMAIN T.index => id \in DOMAIN S.index /\ T.index[id] = S.index[id]
  PROVE  StoreInv(T, g)
BY DEF StoreInv, Shaped, IdsBound, VectorsGiven

\* The steps of add, add_batch and remove before a binding.
LEMMA VacatedKeeps ==
  ASSUME NEW S, NEW g, StoreInv(S, g), NEW key
  PROVE  /\ StoreInv(Vacated(S, key), g)
         /\ Vacated(S, key).nextId = S.nextId + 1
         /\ \A id \in DOMAIN Vacated(S, key).idToKey :
              id \in DOMAIN S.idToKey /\ Vacated(S, key).idToKey[id] # key
<1> DEFINE T == Vacated(S, key)
<1>1. /\ DOMAIN T = StoreFields /\ T.nextId = S.nextId + 1 /\ T.keyToId = S.keyToId
      /\ T.metadata = S.metadata
      /\ T.index = Without(S.index, OldIds(S, {key}))
      /\ T.idToKey = Without(S.idToKey, OldIds(S, {key}))
  BY DEF Vacated, StoreInv, Shaped, StoreFields
<1> HIDE DEF T
<1>2. \A id \in DOMAIN T.idToKey :
        /\ id \in DOMAIN S.idToKey /\ T.idToKey[id] = S.idToKey[id]
        /\ id \in DOMAIN T.index => id \in DOMAIN S.index /\ T.index[id] = S.index[id]
        /\ id \notin OldIds(S, {key})
  BY <1>1 DEF Without, Restrict
<1>3. \A id \in DOMAIN T.idToKey : T.idToKey[id] # key
  BY <1>2 DEF OldIds, Keys, StoreInv, IdsBound
<1>4. StoreInv(T, g)
  <2>1. Shaped(T) /\ T.nextId >= S.nextId
    BY <1>1 DEF StoreInv, Shaped
  <2>2. \A id \in DOMAIN T.idToKey :
          T.idToKey[id] \in DOMAIN T.keyToId /\ T.keyToId[T.idToKey[id]] = S.keyToId[T.idToKey[id]]
    BY <1>1, <1>2 DEF StoreInv, IdsBound
  <2> QED BY <1>2, <2>1, <2>2, Shrinks
<1> QED BY <1>1, <1>2, <1>3, <1>4 DEF T

\* Ids that are taken out, with the keys they are bound to.
LEMMA ClearedKeeps ==
  ASSUME NEW S, NEW g, StoreInv(S, g), NEW gone
  PROVE  /\ StoreInv(Cleared(S, gone), g)
         /\ Cleared(S, gone).nextId = S.nextId
         /\ \A id \in DOMAIN Cleared(S, gone).idToKey :
              /\ id \in DOMAIN S.idToKey \ gone
              /\ Cleared(S, gone).idToKey[id] = S.idToKey[id]
<1> DEFINE T == Cleared(S, gone)
           keys == {S.idToKey[id] : id \in gone \cap DOMAIN S.idToKey}
<1>1. /\ DOMAIN T = StoreFields /\ T.nextId = S.nextId /\ T.keyToId = Without(S.keyToId, keys)
      /\ T.metadata \subseteq S.metadata
      /\ T.index = Without(S.index, gone) /\ T.idToKey = Without(S.idToKey, gone)
  BY DEF Cleared, StoreInv, Shaped, StoreFields
<1>2. \A id \in DOMAIN S.idToKey \ gone : S.idToKey[id] \notin keys
  BY DEF StoreInv, IdsBound
<1> HIDE DEF T, keys
<1>3. \A id \in DOMAIN T.idToKey :
        /\ id \in DOMAIN S.idToKey \ gone /\ T.idToKey[id] = S.idToKey[id]
        /\ id \in DOMAIN T.index => id \in DOMAIN S.index /\ T.index[id] = S.index[id]
  BY <1>1 DEF Without, Restrict
<1>4. \A id \in DOMAIN T.idToKey :
        T.idToKey[id] \in DOMAIN T.keyToId /\ T.keyToId[T.idToKey[id]] = S.keyToId[T.idToKey[id]]
  BY <1>1, <1>2, <1>3 DEF Without, Restrict, StoreInv, IdsBound
<1>5. IsFiniteSet(DOMAIN T.keyToId) /\ IsFiniteSet(T.metadata)
  BY <1>1, FS_Subset DEF StoreInv, Shaped, Without, Restrict
<1>6. StoreInv(T, g)
  BY <1>1, <1>3, <1>4, <1>5, Shrinks DEF StoreInv, Shaped
<1> QED BY <1>1, <1>3, <1>6 DEF T

\* Keys that are removed.
LEMMA RemovedKeeps ==
  ASSUME NEW S, NEW g, StoreInv(S, g), NEW keys
  PROVE  StoreInv(Removed(S, keys), g)
<1> DEFINE T == Removed(S, keys)
<1>1. /\ DOMAIN T = StoreFields /\ T.nextId = S.nextId /\ T.keyToId = Without(S.keyToId, keys)
      /\ T.metadata \subseteq S.metadata
      /\ T.index = Without(S.index, OldIds(S, keys)) /\ T.idToKey = Without(S.idToKey, OldIds(S, keys))
  BY DEF Removed, StoreInv, Shaped, StoreFields
<1>2. \A id \in DOMAIN S.idToKey \ OldIds(S, keys) : S.idToKey[id] \notin keys
  BY DEF StoreInv, IdsBound, OldIds, Keys
<1> HIDE DEF T
<1>3. \A id \in DOMAIN T.idToKey :
        /\ id \in DOMAIN S.idToKey \ OldIds(S, keys) /\ T.idToKey[id] = S.idToKey[id]
        /\ id \in DOMAIN T.index => id \in DOMAIN S.index /\ T.index[id] = S.index[id]
  BY <1>1 DEF Without, Restrict
<1>4. \A id \in DOMAIN T.idToKey :
        T.idToKey[id] \in DOMAIN T.keyToId /\ T.keyToId[T.idToKey[id]] = S.keyToId[T.idToKey[id]]
  BY <1>1, <1>2, <1>3 DEF Without, Restrict, StoreInv, IdsBound
<1>5. IsFiniteSet(DOMAIN T.keyToId) /\ IsFiniteSet(T.metadata)
  BY <1>1, FS_Subset DEF StoreInv, Shaped, Without, Restrict
<1>6. StoreInv(T, g)
  BY <1>1, <1>3, <1>4, <1>5, Shrinks DEF StoreInv, Shaped
<1> QED BY <1>6 DEF T

\* Vectors that go in under ids that are not given out.
LEMMA FilledKeeps ==
  ASSUME NEW S, NEW g, StoreInv(S, g), NEW batch, NEW places, places \subseteq Nat \ {0}
  PROVE  StoreInv(Filled(S, batch, places), g)
<1> DEFINE T == Filled(S, batch, places)
           new == [id \in {S.nextId + i - 1 : i \in places} |-> batch[id - S.nextId + 1].vector]
<1>1. /\ DOMAIN T = StoreFields /\ T.nextId = S.nextId /\ T.keyToId = S.keyToId
      /\ T.idToKey = S.idToKey /\ T.index = Under(S.index, new) /\ T.metadata = S.metadata
  BY DEF Filled, StoreInv, Shaped, StoreFields
<1>2. \A id \in DOMAIN new : id >= S.nextId
  BY DEF StoreInv, Shaped
<1> HIDE DEF T, new
<1>3. \A id \in DOMAIN T.idToKey : id \notin DOMAIN new
  BY <1>1, <1>2 DEF StoreInv, Shaped, IdsBound
<1>4. \A id \in DOMAIN T.idToKey :
        /\ id \in DOMAIN S.idToKey /\ T.idToKey[id] = S.idToKey[id]
        /\ id \in DOMAIN T.index => id \in DOMAIN S.index /\ T.index[id] = S.index[id]
  BY <1>1, <1>3 DEF Under
<1>5. StoreInv(T, g)
  BY <1>1, <1>4, Shrinks DEF StoreInv, Shaped, IdsBound
<1> QED BY <1>5 DEF T

\* A binding of a key that has none, to the last id that was given out.
LEMMA BoundKeeps ==
  ASSUME NEW S, NEW g, StoreInv(S, g), NEW key, NEW vector, NEW id \in Nat, id < S.nextId,
         \A i \in DOMAIN S.idToKey : S.idToKey[i] # key
  PROVE  StoreInv(Bound(S, key, id, vector), With(g, key, vector))
<1> DEFINE T == Bound(S, key, id, vector)
           h == With(g, key, vector)
<1>1. /\ DOMAIN T = StoreFields /\ T.nextId = S.nextId /\ T.keyToId = With(S.keyToId, key, id)
      /\ T.index = With(S.index, id, vector) /\ T.idToKey = With(S.idToKey, id, key)
      /\ T.metadata = S.metadata \cup {key}
  BY DEF Bound, StoreInv, Shaped, StoreFields
<1> HIDE DEF T
<1>2. Shaped(T)
  <2>1. DOMAIN T.keyToId = DOMAIN S.keyToId \cup {key}
    BY <1>1 DEF With
  <2> QED BY <1>1, <2>1, FS_AddElement DEF StoreInv, Shaped
<1>3. IdsBound(T)
  BY <1>1 DEF StoreInv, IdsBound, With
<1>4. VectorsGiven(T, h)
  BY <1>1 DEF StoreInv, VectorsGiven, With
<1> QED BY <1>2, <1>3, <1>4 DEF StoreInv, T

\* A batch of distinct keys.
Distinct(batch) ==
  /\ DOMAIN batch = 1 .. Len(batch) /\ Len(batch) \in Nat
  /\ \A i, j \in DOMAIN batch : batch[i].key = batch[j].key => i = j

\* What was given before a batch, and with it.
GivenWith(g, batch, h) ==
  /\ \A i \in DOMAIN batch :
       batch[i].key \in DOMAIN h /\ h[batch[i].key] = batch[i].vector
  /\ \A key \in DOMAIN g \ KeysOf(batch) : key \in DOMAIN h /\ h[key] = g[key]

\* A batch of keys that have no binding goes in.
LEMMA BatchKeeps ==
  ASSUME NEW S, NEW g, StoreInv(S, g), NEW batch, Distinct(batch), NEW h, GivenWith(g, batch, h),
         \A id \in DOMAIN S.idToKey : S.idToKey[id] \notin KeysOf(batch)
  PROVE  StoreInv(BoundBatch(Filled(S, batch, DOMAIN batch), batch), h)
<1> DEFINE F == Filled(S, batch, DOMAIN batch)
           T == BoundBatch(F, batch)
           start == S.nextId
           new == [id \in {start + i - 1 : i \in DOMAIN batch} |-> batch[id - start + 1].vector]
           keyAt == [id \in start .. start + Len(batch) - 1 |-> batch[id - start + 1].key]
           idOf == [key \in KeysOf(batch) |-> CHOOSE id \in DOMAIN keyAt : keyAt[id] = key]
<1>1. start \in Nat /\ Len(batch) \in Nat
  BY DEF StoreInv, Shaped, Distinct
<1>2. /\ DOMAIN F = StoreFields /\ F.nextId = start /\ F.keyToId = S.keyToId
      /\ F.idToKey = S.idToKey /\ F.index = Under(S.index, new) /\ F.metadata = S.metadata
  BY DEF Filled, StoreInv, Shaped, StoreFields
<1> HIDE DEF F
<1>3. /\ DOMAIN T = StoreFields /\ T.nextId = start + Len(batch)
      /\ T.keyToId = Under(S.keyToId, idOf)
      /\ T.index = Under(S.index, new) /\ T.idToKey = Under(S.idToKey, keyAt)
      /\ T.metadata = S.metadata \cup KeysOf(batch)
  BY <1>2 DEF BoundBatch, StoreFields
<1>4. \A id \in DOMAIN keyAt :
        /\ id \in Nat /\ id < start + Len(batch) /\ id - start + 1 \in DOMAIN batch
        /\ keyAt[id] = batch[id - start + 1].key /\ keyAt[id] \in KeysOf(batch)
        /\ id \in DOMAIN new /\ new[id] = batch[id - start + 1].vector
  <2>1. SUFFICES ASSUME NEW id \in start .. start + Len(batch) - 1
                 PROVE  /\ id \in Nat /\ id < start + Len(batch) /\ id - start + 1 \in DOMAIN batch
                        /\ batch[id - start + 1].key \in KeysOf(batch)
                        /\ id \in DOMAIN new /\ new[id] = batch[id - start + 1].vector
    BY <2>1
  <2>2. id \in Nat /\ id < start + Len(batch) /\ id - start + 1 \in 1 .. Len(batch)
    BY <1>1
  <2>3. id - start + 1 \in DOMAIN batch
    BY <2>2 DEF Distinct
  <2>4. id = start + (id - start + 1) - 1
    BY <1>1
  <2>5. id \in {start + i - 1 : i \in DOMAIN batch}
    BY <2>3, <2>4
  <2> QED BY <2>2, <2>3, <2>5 DEF KeysOf
<1>5. DOMAIN keyAt = start .. start + Len(batch) - 1
  OBVIOUS
<1>6. \A id \in DOMAIN keyAt : keyAt[id] \in DOMAIN idOf /\ idOf[keyAt[id]] = id
  <2>1. SUFFICES ASSUME NEW id \in DOMAIN keyAt PROVE idOf[keyAt[id]] = id
    BY <1>4
  <2>2. \A other \in DOMAIN keyAt : keyAt[other] = keyAt[id] => other = id
    <3>1. SUFFICES ASSUME NEW other \in DOMAIN keyAt, keyAt[other] = keyAt[id] PROVE other = id
      OBVIOUS
    <3>2. other - start + 1 = id - start + 1
      BY <1>4, <3>1 DEF Distinct
    <3> QED BY <1>1, <1>4, <3>2
  <2>3. idOf[keyAt[id]] = CHOOSE other \in DOMAIN keyAt : keyAt[other] = keyAt[id]
    BY <1>4
  <2> HIDE DEF keyAt, idOf
  <2> QED BY <2>2, <2>3
<1> HIDE DEF T, new, keyAt, idOf
<1>7. DOMAIN idOf = KeysOf(batch)
  BY DEF idOf
<1>8. Shaped(T)
  <2>1. DOMAIN T.keyToId = DOMAIN S.keyToId \cup KeysOf(batch)
    BY <1>3, <1>7 DEF Under
  <2>2. [i \in DOMAIN batch |-> batch[i].key] \in Surjection(DOMAIN batch, KeysOf(batch))
    BY DEF Surjection, KeysOf
  <2>3. IsFiniteSet(KeysOf(batch))
    BY <1>1, <2>2, FS_Interval, FS_Surjection DEF Distinct
  <2>4. IsFiniteSet(DOMAIN S.keyToId \cup KeysOf(batch)) /\ IsFiniteSet(S.metadata \cup KeysOf(batch))
    BY <2>3, FS_Union DEF StoreInv, Shaped
  <2> QED BY <1>1, <1>3, <2>1, <2>4 DEF Shaped
<1>9. IdsBound(T)
  <2>1. SUFFICES ASSUME NEW id \in DOMAIN T.idToKey
                 PROVE  /\ id \in Nat /\ id < T.nextId
                        /\ T.idToKey[id] \in DOMAIN T.keyToId
                        /\ T.keyToId[T.idToKey[id]] = id
    BY DEF IdsBound
  <2>2. CASE id \in DOMAIN keyAt
    BY <1>3, <1>4, <1>6, <2>2 DEF Under
  <2>3. CASE id \notin DOMAIN keyAt
    <3>1. id \in DOMAIN S.idToKey /\ T.idToKey[id] = S.idToKey[id]
      BY <1>3, <2>3 DEF Under
    <3>2. T.idToKey[id] \notin DOMAIN idOf
      BY <1>7, <3>1
    <3> QED BY <1>1, <1>3, <3>1, <3>2 DEF Under, StoreInv, IdsBound
  <2> QED BY <2>2, <2>3
<1>10. VectorsGiven(T, h)
  <2>1. SUFFICES ASSUME NEW id \in DOMAIN T.idToKey \cap DOMAIN T.index
                 PROVE  T.idToKey[id] \in DOMAIN h /\ T.index[id] = h[T.idToKey[id]]
    BY DEF VectorsGiven
  <2>2. CASE id \in DOMAIN keyAt
    BY <1>3, <1>4, <2>2 DEF Under, GivenWith
  <2>3. CASE id \notin DOMAIN keyAt
    <3>1. id \in DOMAIN S.idToKey /\ T.idToKey[id] = S.idToKey[id]
      BY <1>3, <2>3 DEF Under
    <3>2. id \notin DOMAIN new
      BY <1>1, <3>1 DEF StoreInv, IdsBound, new, Distinct
    <3>3. id \in DOMAIN S.index /\ T.index[id] = S.index[id]
      BY <1>3, <2>1, <3>2 DEF Under
    <3> QED BY <3>1, <3>3 DEF StoreInv, VectorsGiven, GivenWith
  <2> QED BY <2>2, <2>3
<1> QED BY <1>8, <1>9, <1>10 DEF StoreInv, T, F

\* A store that passes the check of save binds every key.
LEMMA SoundBinds ==
  ASSUME NEW S, NEW g, StoreInv(S, g), Sound(S)
  PROVE  \A key \in Keys(S) : S.index[S.keyToId[key]] = g[key]
<1> DEFINE ids == DOMAIN S.idToKey
           f == [id \in ids |-> S.idToKey[id]]
<1>1. IsFiniteSet(Keys(S)) /\ Cardinality(ids) = Cardinality(Keys(S))
  BY DEF StoreInv, Shaped, Sound, Count, Keys
<1>2. f \in Injection(ids, Keys(S))
  <2>1. f \in [ids -> Keys(S)]
    BY DEF StoreInv, IdsBound, Keys
  <2>2. \A a, b \in ids : f[a] = f[b] => a = b
    BY DEF StoreInv, IdsBound
  <2> QED BY <2>1, <2>2 DEF Injection, IsInjective
<1>3. f \in Surjection(ids, Keys(S))
  BY <1>1, <1>2, FS_Injection
<1>4. SUFFICES ASSUME NEW key \in Keys(S) PROVE S.index[S.keyToId[key]] = g[key]
  OBVIOUS
<1>5. PICK id \in ids : S.idToKey[id] = key
  BY <1>3 DEF Surjection
<1>6. id \in DOMAIN S.index
  BY DEF Sound
<1> QED BY <1>5, <1>6 DEF StoreInv, IdsBound, VectorsGiven

-----------------------------------------------------------------------------

\* What is on disk and what is loaded of it.
LEMMA LoadedIs ==
  ASSUME StoresInv
  PROVE  StoreInv(LoadedPair, LoadedGiven)
<1>1. StoreInv(EmptyStore, <<>>)
  BY FS_EmptySet DEF EmptyStore, StoreInv, Shaped, IdsBound, VectorsGiven, StoreFields
<1> QED BY <1>1 DEF StoresInv, LoadedPair, LoadedGiven

\* A step that writes no file, or writes what memory holds.
LEMMA FileKeeps ==
  ASSUME StoresInv, NEW S, NEW g, StoreInv(S, g),
         \/ vectorFile' = vectorFile
         \/ vectorFile' = [store |-> S, given |-> g] /\ Sound(S)
  PROVE  /\ vectorFile' # Absent => StoreInv(vectorFile'.store, vectorFile'.given)
         /\ SavedSound'
<1>1. CASE vectorFile' = vectorFile
  BY <1>1 DEF StoresInv, SavedSound, Sound, Keys, Count
<1>2. CASE vectorFile' = [store |-> S, given |-> g] /\ Sound(S)
  <2>1. vectorFile'.store = S /\ vectorFile'.given = g
    BY <1>2
  <2>2. SavedSound'
    BY <1>2, <2>1, SoundBinds DEF SavedSound, Sound, Keys, Count
  <2> QED BY <2>1, <2>2
<1> QED BY <1>1, <1>2

\* One chunk is added.
LEMMA AddKeeps ==
  ASSUME StoresInv, NEW c \in Chunk, AddCached(c)
  PROVE  StoreInv(store', given') /\ vectorFile' = vectorFile
<1> DEFINE v == embeddings[c]
           V == Vacated(store, c)
           B == Bound(V, c, store.nextId, v)
<1>1. PICK out \in AddOutcomes(store, c, v, MayFail) :
        store' = out.store /\ given' = IF out.ok THEN With(given, c, v) ELSE given
  <2>1. PICK out \in AddOutcomes(store, c, v, MayFail) :
          /\ store' = out.store
          /\ IF out.ok THEN /\ given' = With(given, c, v)
                            /\ words' = Reworded(words, Restrict(embeddings, {c}))
                            /\ UNCHANGED <<run, embeddings>>
                       ELSE RunFails /\ UNCHANGED <<given, words>>
    BY Zenon DEF AddCached
  <2> QED BY <2>1
<1>2. \/ out.ok = TRUE /\ out.store = B
      \/ out.ok = FALSE /\ out.store \in {store, V}
  BY <1>1 DEF AddOutcomes
<1>3. /\ StoreInv(V, given) /\ V.nextId = store.nextId + 1
      /\ \A id \in DOMAIN V.idToKey : V.idToKey[id] # c
  BY VacatedKeeps DEF StoresInv
<1>4. StoreInv(B, With(given, c, v))
  <2>1. store.nextId \in Nat /\ store.nextId < V.nextId
    BY <1>3 DEF StoresInv, StoreInv, Shaped
  <2> HIDE DEF V, v
  <2> QED BY <1>3, <2>1, BoundKeeps
<1>5. vectorFile' = vectorFile
  BY DEF AddCached
<1> HIDE DEF V, B, v
<1>6. StoreInv(store', given')
  BY <1>1, <1>2, <1>3, <1>4 DEF StoresInv
<1> QED BY <1>5, <1>6

\* A function on an interval is a sequence.
LEMMA SequenceOf ==
  ASSUME NEW n \in Nat, NEW X, NEW f \in [1 .. n -> X]
  PROVE  f \in Seq(X) /\ DOMAIN f = 1 .. n
<1>1. [1 .. n -> X] \in {[1 .. m -> X] : m \in Nat}
  OBVIOUS
<1> QED BY <1>1, SeqDef

\* A batch of the model is one of distinct keys, and its texts are given.
LEMMA BatchIs ==
  ASSUME NEW batch \in DistinctBatch
  PROVE  Distinct(batch) /\ GivenWith(given, batch, Under(given, TextsOf(batch)))
<1>1. PICK n \in 1 .. Cardinality(Chunk) : batch \in [1 .. n -> [key : Chunk, vector : Text]]
  BY DEF DistinctBatch
<1>2. n \in Nat /\ batch \in Seq([key : Chunk, vector : Text]) /\ DOMAIN batch = 1 .. n
  <2>1. n \in Nat
    BY StoresAssumption, FS_CardinalityType
  <2> QED BY <1>1, <2>1, SequenceOf
<1>3. Distinct(batch)
  BY <1>2 DEF Distinct, DistinctBatch
<1>4. DOMAIN TextsOf(batch) = KeysOf(batch)
  BY DEF TextsOf
<1>5. \A i \in DOMAIN batch : TextsOf(batch)[batch[i].key] = batch[i].vector
  <2>1. SUFFICES ASSUME NEW i \in DOMAIN batch
                 PROVE  TextsOf(batch)[batch[i].key] = batch[i].vector
    OBVIOUS
  <2>2. batch[i].key \in KeysOf(batch)
    BY DEF KeysOf
  <2>3. (CHOOSE j \in DOMAIN batch : batch[j].key = batch[i].key) = i
    BY <1>3 DEF Distinct
  <2> QED BY <2>2, <2>3 DEF TextsOf
<1>6. GivenWith(given, batch, Under(given, TextsOf(batch)))
  <2>1. \A i \in DOMAIN batch : batch[i].key \in KeysOf(batch)
    BY DEF KeysOf
  <2> HIDE DEF KeysOf
  <2> QED BY <1>4, <1>5, <2>1 DEF GivenWith, Under
<1> QED BY <1>3, <1>6

\* Chunks that were embedded are added, or taken out again.
LEMMA EmbeddedKeeps ==
  ASSUME StoresInv, NEW batch \in DistinctBatch, AddEmbedded(batch)
  PROVE  StoreInv(store', given') /\ vectorFile' = vectorFile
<1> DEFINE old == OldIds(store, KeysOf(batch))
           C == Cleared(store, old)
           free == FreePlaces(C, batch)
           texts == TextsOf(batch)
<1>1. PICK out \in AddBatchOutcomes(store, batch, MayFail) :
        IF out.ok THEN store' = out.store /\ given' = Under(given, texts)
                  ELSE store' = Compensated(out.store, batch) /\ given' = given
  <2>1. PICK out \in AddBatchOutcomes(store, batch, MayFail) :
          IF out.ok THEN /\ store' = out.store
                         /\ given' = Under(given, texts)
                         /\ words' = Reworded(words, texts)
                    ELSE /\ store' = Compensated(out.store, batch)
                         /\ words' = Unworded(words, DOMAIN texts)
                         /\ UNCHANGED given
    BY Zenon DEF AddEmbedded
  <2> QED BY <2>1
<1>2. Distinct(batch) /\ GivenWith(given, batch, Under(given, texts))
  BY BatchIs
<1>3. \/ out.ok = TRUE /\ out.store = BoundBatch(Filled(C, batch, DOMAIN batch), batch)
      \/ out.ok = FALSE /\ \E gone : out.store = Cleared(store, gone)
      \/ out.ok = FALSE /\ \E places \in SUBSET DOMAIN batch : out.store = Filled(C, batch, places)
  <2>1. free \subseteq DOMAIN batch
    BY DEF FreePlaces
  <2> HIDE DEF free, C, old
  <2>2. \/ \E gone \in SUBSET old : out = [ok |-> FALSE, store |-> Cleared(store, gone)]
        \/ \E places \in SUBSET free : out = [ok |-> FALSE, store |-> Filled(C, batch, places)]
        \/ /\ free = DOMAIN batch
           /\ out = [ok |-> TRUE, store |-> BoundBatch(Filled(C, batch, free), batch)]
        \/ out = [ok |-> FALSE, store |-> Filled(C, batch, free)]
    BY <1>1 DEF AddBatchOutcomes, free, C, old
  <2> QED BY <2>1, <2>2
<1>4. /\ StoreInv(C, given)
      /\ \A id \in DOMAIN C.idToKey :
           id \in DOMAIN store.idToKey \ old /\ C.idToKey[id] = store.idToKey[id]
  BY ClearedKeeps DEF StoresInv
<1>5. \A id \in DOMAIN C.idToKey : C.idToKey[id] \notin KeysOf(batch)
  BY <1>4 DEF StoresInv, StoreInv, IdsBound, OldIds, Keys
<1>6. vectorFile' = vectorFile
  BY DEF AddEmbedded
<1> HIDE DEF C, free, old, texts
<1>7. CASE out.ok = TRUE /\ out.store = BoundBatch(Filled(C, batch, DOMAIN batch), batch)
  BY <1>1, <1>2, <1>4, <1>5, <1>6, <1>7, BatchKeeps
<1>8. CASE out.ok = FALSE
  <2>1. StoreInv(out.store, given)
    <3>1. DOMAIN batch \subseteq Nat \ {0}
      BY <1>2 DEF Distinct
    <3>2. \A places \in SUBSET DOMAIN batch : StoreInv(Filled(C, batch, places), given)
      BY <1>4, <3>1, FilledKeeps
    <3>3. \A gone : StoreInv(Cleared(store, gone), given)
      BY ClearedKeeps DEF StoresInv
    <3> QED BY <1>3, <1>8, <3>2, <3>3
  <2>2. StoreInv(Compensated(out.store, batch), given)
    BY <2>1, RemovedKeeps DEF Compensated
  <2> QED BY <1>1, <1>6, <1>8, <2>2
<1> QED BY <1>3, <1>7, <1>8

\* A store that is built anew.
LEMMA RebuiltIs ==
  ASSUME NEW S, NEW order \in SetToSeqs(S), IsFiniteSet(S), S \subseteq DOMAIN embeddings
  PROVE  StoreInv(Rebuilt(order), Restrict(embeddings, Keys(Rebuilt(order))))
<1> DEFINE n == Cardinality(S)
           batch == [i \in DOMAIN order |-> [key |-> order[i], vector |-> embeddings[order[i]]]]
           T == Rebuilt(order)
           h == Restrict(embeddings, Keys(T))
<1>1. n \in Nat
  BY FS_CardinalityType
<1>2. order \in [1 .. n -> S] /\ \A i, j \in 1 .. n : order[i] = order[j] => i = j
  BY DEF SetToSeqs
<1>3. DOMAIN batch = 1 .. n /\ \A i \in 1 .. n : batch[i].key = order[i] /\ batch[i].vector = embeddings[order[i]]
  BY <1>2
<1>4. batch \in Seq([key : S, vector : {embeddings[c] : c \in S}])
  <2>1. batch \in [1 .. n -> [key : S, vector : {embeddings[c] : c \in S}]]
    BY <1>2
  <2> QED BY <1>1, <2>1, SequenceOf
<1>5. Distinct(batch)
  BY <1>1, <1>2, <1>3, <1>4 DEF Distinct
<1>6. T = BoundBatch(Filled(EmptyStore, batch, DOMAIN batch), batch)
  BY DEF Rebuilt
<1> HIDE DEF batch, T
<1>7. Keys(T) = KeysOf(batch)
  BY <1>6 DEF BoundBatch, Filled, EmptyStore, Under, Keys, KeysOf
<1>8. GivenWith(<<>>, batch, h)
  BY <1>3, <1>7 DEF GivenWith, Restrict, KeysOf
<1>9. StoreInv(EmptyStore, <<>>)
  BY FS_EmptySet DEF EmptyStore, StoreInv, Shaped, IdsBound, VectorsGiven, StoreFields
<1> HIDE DEF h
<1>10. \A id \in DOMAIN EmptyStore.idToKey : EmptyStore.idToKey[id] \notin KeysOf(batch)
  BY DEF EmptyStore
<1>11. StoreInv(T, h)
  BY <1>5, <1>6, <1>8, <1>9, <1>10, BatchKeeps
<1> QED BY <1>11 DEF T, h

\* Chunks are taken out.
LEMMA RemoveKeeps ==
  ASSUME StoresInv, NEW removed, RemoveChunks(removed)
  PROVE  /\ StoreInv(store', given')
         /\ \/ vectorFile' = vectorFile
            \/ vectorFile' = [store |-> store', given |-> given'] /\ Sound(store')
<1>1. CASE store' = LoadedPair /\ given' = LoadedGiven /\ vectorFile' = vectorFile
  BY <1>1, LoadedIs
<1>2. ASSUME NEW order \in SetToSeqs(Retained(removed)), store' = Rebuilt(order),
             given' = Restrict(embeddings, Keys(store'))
      PROVE  StoreInv(store', given')
  <2>1. Retained(removed) \subseteq DOMAIN embeddings /\ Retained(removed) \subseteq store.metadata
    BY DEF Retained
  <2>2. IsFiniteSet(Retained(removed))
    BY <2>1, FS_Subset DEF StoresInv, StoreInv, Shaped
  <2> QED BY <1>2, <2>1, <2>2, RebuiltIs
<1> QED BY <1>1, <1>2 DEF RemoveChunks

\* The stores stay as StoresInv says.
LEMMA StoresStep == StoresInv /\ [StoresNext]_storesVars => StoresInv'
<1> SUFFICES ASSUME StoresInv, [StoresNext]_storesVars
             PROVE  /\ StoreInv(store', given')
                    /\ \/ vectorFile' = vectorFile
                       \/ vectorFile' = [store |-> store', given |-> given'] /\ Sound(store')
  BY FileKeeps DEF StoresInv
<1>1. CASE RunBegins
  BY <1>1, LoadedIs DEF RunBegins
<1>2. CASE RunSaves
  BY <1>2 DEF RunSaves, StoresInv, Saves
<1>3. CASE RunEnds
  BY <1>3 DEF RunEnds, StoresInv
<1>4. StoreInv(EmptyStore, <<>>) /\ Sound(EmptyStore)
  <2>1. Sound(EmptyStore)
    BY FS_EmptySet DEF EmptyStore, Sound, Count, Keys
  <2> QED BY <2>1, FS_EmptySet DEF EmptyStore, StoreInv, Shaped, IdsBound, VectorsGiven, StoreFields
<1>5. CASE ClearIndex
  BY <1>4, <1>5 DEF ClearIndex
<1>6. CASE Closes
  BY <1>4, <1>6 DEF Closes
<1>7. CASE \E c \in Chunk : AddCached(c)
  BY <1>7, AddKeeps
<1>8. CASE \E batch \in DistinctBatch : AddEmbedded(batch)
  BY <1>8, EmbeddedKeeps
<1>9. CASE \E removed \in SUBSET Chunk : RemoveChunks(removed)
  BY <1>9, RemoveKeeps
<1>10. CASE UNCHANGED storesVars
  BY <1>10 DEF storesVars, StoresInv
<1> QED BY <1>1, <1>2, <1>3, <1>5, <1>6, <1>7, <1>8, <1>9, <1>10 DEF StoresNext

\* A bound id is never that of another chunk's vector, or of an older one, whichever native
\* calls have failed, and a pair of files that was saved agrees (store.rs:137-240,
\* index.ts:2444-2467): for any chunks and texts, any ids and any number of failures.
THEOREM StoresStaySound == StoresSpec => []StoresSound
<1>1. StoresInit => StoresInv
  BY FS_EmptySet DEF StoresInit, EmptyStore, StoresInv, StoreInv, Shaped, IdsBound, VectorsGiven,
     StoreFields, SavedSound
<1>2. StoresInv => StoresSound
  BY DEF StoresInv, StoreInv, VectorsGiven, StoresSound, NeverAliased
<1> QED BY <1>1, <1>2, StoresStep, PTL DEF StoresSpec

-----------------------------------------------------------------------------
(* Folds over finite sets: the library's operators choose a table of what   *)
(* folding gives for each part of a set.  By induction on the set there is  *)
(* such a table (FoldExists) and all agree (FoldAgree).                     *)

\* The element that the library takes first.
Pick(s) == CHOOSE x \in s : TRUE

\* A set of natural numbers has a least one.
LEMMA LeastNumber ==
  ASSUME NEW S, S \subseteq Nat, S # {}
  PROVE  \E i \in S : \A j \in S : i <= j
<1>1. PICK i \in S : \A j \in S : ~(<<j, i>> \in OpToRel(<, Nat))
  BY NatLessThanWellFounded, WFMin
<1>2. \A j \in S : ~(j < i)
  BY <1>1 DEF OpToRel
<1> QED BY <1>2

\* Of sets of subsets of a finite set that are not empty, there is a smallest.
LEMMA SmallestSubset ==
  ASSUME NEW D, IsFiniteSet(D), NEW C, C \subseteq SUBSET D, C # {}
  PROVE  \E s \in C : \A r : r \subseteq s /\ r # s => r \notin C
<1> DEFINE N == {Cardinality(s) : s \in C}
<1>1. \A s \in C : IsFiniteSet(s) /\ Cardinality(s) \in Nat
  BY FS_Subset, FS_CardinalityType
<1>2. N \subseteq Nat /\ N # {}
  BY <1>1
<1>3. PICK n \in N : \A m \in N : n <= m
  BY <1>2, LeastNumber
<1>4. PICK s \in C : n = Cardinality(s)
  BY <1>3
<1>5. ASSUME NEW r, r \subseteq s, r # s, r \in C PROVE FALSE
  <2>1. Cardinality(r) <= Cardinality(s) /\ Cardinality(r) # Cardinality(s)
    BY <1>1, <1>5, FS_Subset
  <2>2. Cardinality(s) <= Cardinality(r)
    BY <1>3, <1>4, <1>5
  <2>3. Cardinality(r) \in Nat /\ Cardinality(s) \in Nat
    BY <1>1, <1>5
  <2> QED BY <2>1, <2>2, <2>3
<1> QED BY <1>5

\* t is what folding gives for each part of D.
IsFold(t, D, W, base, F) ==
  /\ t \in [SUBSET D -> W]
  /\ \A r \in SUBSET D : t[r] = IF r = {} THEN base ELSE F[<<Pick(r), t[r \ {Pick(r)}]>>]

\* Folds of two sets are the same for a part of both.
LEMMA FoldAgree ==
  ASSUME NEW D, IsFiniteSet(D), NEW E, NEW W, NEW base, NEW F, NEW G, NEW t, NEW u,
         IsFold(t, D, W, base, F), IsFold(u, E, W, base, G),
         NEW s, s \subseteq D, s \subseteq E, \A x \in s, w \in W : F[<<x, w>>] = G[<<x, w>>]
  PROVE  t[s] = u[s]
<1> DEFINE C == {r \in SUBSET D : r \subseteq s /\ t[r] # u[r]}
<1>1. SUFFICES ASSUME C # {} PROVE FALSE
  OBVIOUS
<1>2. C \subseteq SUBSET D
  OBVIOUS
<1> HIDE DEF C
<1>3. PICK r \in C : \A q : q \subseteq r /\ q # r => q \notin C
  BY <1>1, <1>2, SmallestSubset
<1>4. r \subseteq D /\ r \subseteq E /\ r \subseteq s /\ t[r] # u[r]
  BY <1>3 DEF C
<1>5. r # {}
  BY <1>4 DEF IsFold
<1>6. Pick(r) \in r
  BY <1>5 DEF Pick
<1> DEFINE q == r \ {Pick(r)}
<1>7. q \subseteq r /\ q # r
  BY <1>6
<1>8. q \subseteq D /\ q \subseteq E /\ q \subseteq s
  BY <1>4
<1>9. t[q] = u[q]
  BY <1>3, <1>7, <1>8 DEF C
<1>10. t[r] = F[<<Pick(r), t[q]>>] /\ u[r] = G[<<Pick(r), u[q]>>] /\ t[q] \in W
  BY <1>4, <1>5, <1>8 DEF IsFold
<1> QED BY <1>4, <1>6, <1>9, <1>10

\* There is a fold.
LEMMA FoldExists ==
  ASSUME NEW D, IsFiniteSet(D), NEW W, NEW base \in W, NEW F,
         \A x \in D, w \in W : F[<<x, w>>] \in W
  PROVE  \E t : IsFold(t, D, W, base, F)
<1> DEFINE C == {s \in SUBSET D : ~\E t : IsFold(t, s, W, base, F)}
<1>1. SUFFICES ASSUME C # {} PROVE FALSE
  OBVIOUS
<1>2. C \subseteq SUBSET D
  OBVIOUS
<1> HIDE DEF C
<1>3. PICK s \in C : \A q : q \subseteq s /\ q # s => q \notin C
  BY <1>1, <1>2, SmallestSubset
<1>4. s \subseteq D /\ ~\E t : IsFold(t, s, W, base, F)
  BY <1>3 DEF C
<1> DEFINE Of(q) == CHOOSE t : IsFold(t, q, W, base, F)
           Less(r) == r \ {Pick(r)}
           t == [r \in SUBSET s |-> IF r = {} THEN base ELSE F[<<Pick(r), Of(Less(r))[Less(r)]>>]]
<1>5. ASSUME NEW q, q \subseteq s, q # s PROVE IsFold(Of(q), q, W, base, F) /\ IsFiniteSet(q)
  <2>1. q \in SUBSET D /\ q \notin C
    BY <1>3, <1>4, <1>5
  <2>2. \E u : IsFold(u, q, W, base, F)
    BY <2>1 DEF C
  <2> QED BY <2>1, <2>2, FS_Subset
<1>6. ASSUME NEW r, r \subseteq s, r # {}
      PROVE  /\ Less(r) \subseteq s /\ Less(r) # s /\ Less(r) \subseteq r /\ Pick(r) \in r /\ Pick(r) \in D
  BY <1>4, <1>6 DEF Pick
<1>7. ASSUME NEW r, r \subseteq s, r # {} PROVE Of(Less(r))[Less(r)] \in W
  <2>1. IsFold(Of(Less(r)), Less(r), W, base, F)
    BY <1>5, <1>6, <1>7
  <2> HIDE DEF Of, Less
  <2> QED BY <2>1 DEF IsFold
<1> HIDE DEF Of
<1>8. t \in [SUBSET s -> W]
  BY <1>6, <1>7
<1>9. ASSUME NEW r, r \subseteq s, r # {} PROVE t[Less(r)] = Of(Less(r))[Less(r)]
  <2> DEFINE q == Less(r)
  <2>1. IsFold(Of(q), q, W, base, F) /\ IsFiniteSet(q) /\ q \subseteq s
    BY <1>5, <1>6, <1>9
  <2> HIDE DEF q
  <2>2. CASE q = {}
    <3>1. t[q] = base
      BY <2>1, <2>2
    <3>2. Of(q)[q] = base
      BY <2>1, <2>2 DEF IsFold
    <3> QED BY <3>1, <3>2 DEF q
  <2>3. CASE q # {}
    <3>1. t[q] = F[<<Pick(q), Of(Less(q))[Less(q)]>>]
      BY <2>1, <2>3
    <3>2. Of(q)[q] = F[<<Pick(q), Of(q)[Less(q)]>>]
      BY <2>1, <2>3 DEF IsFold
    <3>3. /\ Less(q) \subseteq q /\ Less(q) \subseteq s /\ Less(q) # s
      BY <1>6, <2>1, <2>3
    <3>4. IsFold(Of(Less(q)), Less(q), W, base, F)
      BY <1>5, <3>3
    <3> HIDE DEF Less
    <3>5. Of(q)[Less(q)] = Of(Less(q))[Less(q)]
      BY <2>1, <3>3, <3>4, FoldAgree
    <3> QED BY <3>1, <3>2, <3>5 DEF q
  <2> QED BY <2>2, <2>3
<1>10. ASSUME NEW r \in SUBSET s
       PROVE  t[r] = IF r = {} THEN base ELSE F[<<Pick(r), t[r \ {Pick(r)}]>>]
  <2>1. t[r] = IF r = {} THEN base ELSE F[<<Pick(r), Of(Less(r))[Less(r)]>>]
    OBVIOUS
  <2>2. r # {} => t[Less(r)] = Of(Less(r))[Less(r)]
    BY <1>9
  <2> HIDE DEF t
  <2> QED BY <2>1, <2>2
<1> HIDE DEF t
<1>11. IsFold(t, s, W, base, F)
  BY <1>8, <1>10 DEF IsFold
<1> QED BY <1>4, <1>11

\* A table that satisfies the equation of the fold is one, whatever its values were known to be.
LEMMA TableIsFold ==
  ASSUME NEW D, IsFiniteSet(D), NEW W, NEW base \in W, NEW F,
         \A x \in D, w \in W : F[<<x, w>>] \in W,
         NEW t, DOMAIN t = SUBSET D,
         t = [r \in SUBSET D |-> t[r]],
         \A r \in SUBSET D : /\ r = {} => t[r] = base
                             /\ r # {} /\ t[r \ {Pick(r)}] \in W => t[r] = F[<<Pick(r), t[r \ {Pick(r)}]>>]
  PROVE  IsFold(t, D, W, base, F)
<1> DEFINE C == {r \in SUBSET D : t[r] \notin W}
<1>1. ASSUME C # {} PROVE FALSE
  <2>1. C \subseteq SUBSET D
    OBVIOUS
  <2> HIDE DEF C
  <2>2. PICK r \in C : \A q : q \subseteq r /\ q # r => q \notin C
    BY <1>1, <2>1, SmallestSubset
  <2>3. r \in SUBSET D /\ t[r] \notin W
    BY <2>2 DEF C
  <2>4. r # {}
    BY <2>3
  <2>5. Pick(r) \in r
    BY <2>4 DEF Pick
  <2> DEFINE q == r \ {Pick(r)}
  <2>6. q \subseteq r /\ q # r /\ q \in SUBSET D
    BY <2>3, <2>5
  <2>7. t[q] \in W
    BY <2>2, <2>6 DEF C
  <2>8. t[r] = F[<<Pick(r), t[q]>>]
    BY <2>3, <2>4, <2>7
  <2> QED BY <2>3, <2>5, <2>7, <2>8
<1>2. \A r \in SUBSET D : t[r] \in W
  BY <1>1
<1>3. t \in [SUBSET D -> W]
  BY <1>2
<1>4. \A r \in SUBSET D : r # {} => r \ {Pick(r)} \in SUBSET D
  OBVIOUS
<1> QED BY <1>2, <1>3, <1>4 DEF IsFold

-----------------------------------------------------------------------------
(* Sums of natural numbers.                                                 *)

\* Adding one number to a sum, and the table of the sums over the parts of a set.
Adds(f) == [p \in (DOMAIN f) \X Nat |-> f[p[1]] + p[2]]
Summed(t, f) == IsFold(t, DOMAIN f, Nat, 0, Adds(f))

\* Any element may be taken first.
LEMMA SumStep ==
  ASSUME NEW f, IsFiniteSet(DOMAIN f), \A x \in DOMAIN f : f[x] \in Nat, NEW t, Summed(t, f),
         NEW s, s \subseteq DOMAIN f, NEW x \in s
  PROVE  t[s] = f[x] + t[s \ {x}] /\ t[s \ {x}] \in Nat
<1> DEFINE D == DOMAIN f
           C == {r \in SUBSET D : \E y \in r : t[r] # f[y] + t[r \ {y}]}
<1>0. \A r \in SUBSET D : t[r] \in Nat
  BY DEF Summed, IsFold
<1>1. ASSUME C # {} PROVE FALSE
  <2>1. C \subseteq SUBSET D
    OBVIOUS
  <2> HIDE DEF C
  <2>2. PICK r \in C : \A q : q \subseteq r /\ q # r => q \notin C
    BY <1>1, <2>1, SmallestSubset
  <2>3. PICK y \in r : r \in SUBSET D /\ t[r] # f[y] + t[r \ {y}]
    BY <2>2 DEF C
  <2> DEFINE z == Pick(r)
             q == r \ {z}
             p == r \ {y}
             o == q \ {y}
  <2>4. z \in r /\ z \in D /\ y \in D
    BY <2>3 DEF Pick
  <2>5. q \subseteq r /\ q # r /\ q \in SUBSET D /\ p \subseteq r /\ p # r /\ p \in SUBSET D
    BY <2>3, <2>4
  <2>6. t[r] = f[z] + t[q]
    <3>1. t[r] = Adds(f)[<<z, t[q]>>]
      BY <2>3, <2>4 DEF Summed, IsFold
    <3>2. <<z, t[q]>> \in D \X Nat
      BY <1>0, <2>4, <2>5
    <3> QED BY <3>1, <3>2 DEF Adds
  <2>7. z # y
    BY <2>3, <2>6
  <2>8. y \in q /\ z \in p /\ p \ {z} = o /\ o \in SUBSET D
    BY <2>4, <2>5, <2>7
  <2> HIDE DEF z, q, p, o
  <2>9. t[q] = f[y] + t[o]
    <3>1. q \notin C
      BY <2>2, <2>5
    <3> QED BY <2>5, <2>8, <3>1 DEF C, o
  <2>10. t[p] = f[z] + t[o]
    <3>1. p \notin C
      BY <2>2, <2>5
    <3>2. t[p] = f[z] + t[p \ {z}]
      BY <2>5, <2>8, <3>1 DEF C
    <3> QED BY <2>8, <3>2
  <2>11. t[o] \in Nat /\ f[y] \in Nat /\ f[z] \in Nat
    BY <1>0, <2>4, <2>8
  <2>12. t[r] # f[y] + t[p]
    BY <2>3 DEF p
  <2> QED BY <2>6, <2>9, <2>10, <2>11, <2>12
<1>2. s \in SUBSET D /\ s \ {x} \in SUBSET D
  OBVIOUS
<1> QED BY <1>0, <1>1, <1>2

\* A sum as the library takes it.
Total(f) == MapThenSumSet(LAMBDA x : f[x], DOMAIN f)

\* What the library sums up.
LEMMA SumIs ==
  ASSUME NEW f, IsFiniteSet(DOMAIN f), \A x \in DOMAIN f : f[x] \in Nat
  PROVE  \E t : Summed(t, f) /\ Total(f) = t[DOMAIN f]
<1> DEFINE D == DOMAIN f
           U == CHOOSE u : u = [s \in SUBSET D |-> IF s = {} THEN 0 ELSE f[Pick(s)] + u[s \ {Pick(s)}]]
<1>1. Total(f) = U[D]
  BY DEF Total, MapThenSumSet, MapThenFoldSet, Pick
<1>2. \A x \in D, w \in Nat : Adds(f)[<<x, w>>] \in Nat /\ Adds(f)[<<x, w>>] = f[x] + w
  BY DEF Adds
<1> HIDE DEF U
<1>3. PICK t : Summed(t, f)
  BY <1>2, FoldExists DEF Summed
<1>4. t = [s \in SUBSET D |-> IF s = {} THEN 0 ELSE f[Pick(s)] + t[s \ {Pick(s)}]]
  <2>1. t = [s \in SUBSET D |-> t[s]]
    BY <1>3 DEF Summed, IsFold
  <2>2. ASSUME NEW s \in SUBSET D PROVE t[s] = IF s = {} THEN 0 ELSE f[Pick(s)] + t[s \ {Pick(s)}]
    <3>1. CASE s = {}
      BY <1>3, <3>1 DEF Summed, IsFold
    <3>2. CASE s # {}
      <4>1. Pick(s) \in s
        BY <3>2 DEF Pick
      <4> QED BY <1>3, <3>2, <4>1, SumStep
    <3> QED BY <3>1, <3>2
  <2> QED BY <2>1, <2>2
<1>5. U = [s \in SUBSET D |-> IF s = {} THEN 0 ELSE f[Pick(s)] + U[s \ {Pick(s)}]]
  BY <1>4 DEF U
<1>6. Summed(U, f)
  <2>1. DOMAIN U = SUBSET D /\ U = [s \in SUBSET D |-> U[s]]
    BY <1>5
  <2>2. ASSUME NEW s \in SUBSET D
        PROVE  /\ s = {} => U[s] = 0
               /\ s # {} /\ U[s \ {Pick(s)}] \in Nat => U[s] = Adds(f)[<<Pick(s), U[s \ {Pick(s)}]>>]
    <3>1. U[s] = IF s = {} THEN 0 ELSE f[Pick(s)] + U[s \ {Pick(s)}]
      BY <1>5
    <3>2. s # {} => Pick(s) \in D
      BY DEF Pick
    <3> QED BY <1>2, <3>1, <3>2
  <2> QED BY <1>2, <2>1, <2>2, TableIsFold DEF Summed
<1> QED BY <1>1, <1>6
\* One more term in a sum.
LEMMA SumPlus ==
  ASSUME NEW f, IsFiniteSet(DOMAIN f), \A x \in DOMAIN f : f[x] \in Nat, NEW t, Summed(t, f),
         NEW g, NEW c, c \notin DOMAIN f, DOMAIN g = DOMAIN f \cup {c}, g[c] \in Nat,
         \A x \in DOMAIN f : g[x] = f[x], NEW u, Summed(u, g)
  PROVE  u[DOMAIN g] = t[DOMAIN f] + g[c] /\ t[DOMAIN f] \in Nat
<1>1. IsFiniteSet(DOMAIN g) /\ \A x \in DOMAIN g : g[x] \in Nat
  BY FS_AddElement
<1>2. u[DOMAIN g] = g[c] + u[DOMAIN g \ {c}] /\ u[DOMAIN g \ {c}] \in Nat
  BY <1>1, SumStep
<1>3. DOMAIN g \ {c} = DOMAIN f
  OBVIOUS
<1>4. \A x \in DOMAIN f, w \in Nat : Adds(f)[<<x, w>>] = Adds(g)[<<x, w>>]
  BY DEF Adds
<1>5. t[DOMAIN f] = u[DOMAIN f]
  <2>1. IsFold(t, DOMAIN f, Nat, 0, Adds(f)) /\ IsFold(u, DOMAIN g, Nat, 0, Adds(g))
    BY DEF Summed
  <2>2. DOMAIN f \subseteq DOMAIN g
    OBVIOUS
  <2> QED BY <1>4, <2>1, <2>2, FoldAgree
<1> QED BY <1>2, <1>3, <1>5

-----------------------------------------------------------------------------
(* The keyword index.                                                       *)

Terms == UNION {DOMAIN text : text \in Text}

\* The keyword indexes that are exact.
Words ==
  {w \in [postings : UNION {[T -> SUBSET Chunk] : T \in SUBSET Terms},
          tokens : UNION {[C -> Text] : C \in SUBSET Chunk}, total : Nat] : Exact(w)}

\* The sum that Exact compares the total with.
TokenTotal(tokens) == MapThenSumSet(LAMBDA c : TokenCount(tokens[c]), DOMAIN tokens)

\* The number of tokens of a text.
LEMMA CountIs ==
  ASSUME NEW text \in Text
  PROVE  TokenCount(text) \in Nat
<1>1. TokenCount(text) = Total(text)
  BY DEF TokenCount, Total
<1>2. PICK t : Summed(t, text) /\ Total(text) = t[DOMAIN text]
  BY TextAssumption, SumIs
<1> QED BY <1>1, <1>2 DEF Summed, IsFold

\* The number of all tokens.
LEMMA TokenTotalIs ==
  ASSUME NEW tokens, DOMAIN tokens \subseteq Chunk, \A c \in DOMAIN tokens : tokens[c] \in Text,
         NEW f, f = [c \in DOMAIN tokens |-> TokenCount(tokens[c])]
  PROVE  \E t : Summed(t, f) /\ TokenTotal(tokens) = t[DOMAIN tokens]
<1> DEFINE D == DOMAIN tokens
           U == CHOOSE u : u = [s \in SUBSET D |->
                                  IF s = {} THEN 0 ELSE TokenCount(tokens[Pick(s)]) + u[s \ {Pick(s)}]]
<1>1. TokenTotal(tokens) = U[D]
  BY DEF TokenTotal, MapThenSumSet, MapThenFoldSet, Pick
<1> HIDE DEF U
<1>2. IsFiniteSet(D) /\ DOMAIN f = D /\ \A c \in D : f[c] \in Nat /\ f[c] = TokenCount(tokens[c])
  BY CountIs, StoresAssumption, FS_Subset
<1>3. \A x \in D, w \in Nat : Adds(f)[<<x, w>>] \in Nat /\ Adds(f)[<<x, w>>] = f[x] + w
  BY <1>2 DEF Adds
<1>4. PICK t : Summed(t, f)
  BY <1>2, <1>3, FoldExists DEF Summed
<1>5. t = [s \in SUBSET D |-> IF s = {} THEN 0 ELSE TokenCount(tokens[Pick(s)]) + t[s \ {Pick(s)}]]
  <2>1. t = [s \in SUBSET D |-> t[s]]
    BY <1>2, <1>4 DEF Summed, IsFold
  <2>2. ASSUME NEW s \in SUBSET D
        PROVE  t[s] = IF s = {} THEN 0 ELSE TokenCount(tokens[Pick(s)]) + t[s \ {Pick(s)}]
    <3>1. CASE s = {}
      BY <1>2, <1>4, <3>1 DEF Summed, IsFold
    <3>2. CASE s # {}
      <4>1. Pick(s) \in s
        BY <3>2 DEF Pick
      <4>2. t[s] = f[Pick(s)] + t[s \ {Pick(s)}]
        BY <1>2, <1>4, <4>1, SumStep
      <4> QED BY <1>2, <3>2, <4>1, <4>2
    <3> QED BY <3>1, <3>2
  <2> QED BY <2>1, <2>2
<1>6. U = [s \in SUBSET D |-> IF s = {} THEN 0 ELSE TokenCount(tokens[Pick(s)]) + U[s \ {Pick(s)}]]
  BY <1>5 DEF U
<1>7. Summed(U, f)
  <2>1. DOMAIN U = SUBSET D /\ U = [s \in SUBSET D |-> U[s]]
    BY <1>6
  <2>2. ASSUME NEW s \in SUBSET D
        PROVE  /\ s = {} => U[s] = 0
               /\ s # {} /\ U[s \ {Pick(s)}] \in Nat => U[s] = Adds(f)[<<Pick(s), U[s \ {Pick(s)}]>>]
    <3>1. U[s] = IF s = {} THEN 0 ELSE TokenCount(tokens[Pick(s)]) + U[s \ {Pick(s)}]
      BY <1>6
    <3>2. s # {} => Pick(s) \in D
      BY DEF Pick
    <3> QED BY <1>2, <1>3, <3>1, <3>2
  <2> QED BY <1>2, <1>3, <2>1, <2>2, TableIsFold DEF Summed
<1> QED BY <1>1, <1>7

\* A chunk's tokens are counted in the total, and the others' are the rest.
LEMMA TokenTotalPlus ==
  ASSUME NEW tokens, DOMAIN tokens \subseteq Chunk, \A c \in DOMAIN tokens : tokens[c] \in Text,
         NEW more, NEW c \in Chunk, c \notin DOMAIN tokens, DOMAIN more = DOMAIN tokens \cup {c},
         more[c] \in Text, \A d \in DOMAIN tokens : more[d] = tokens[d]
  PROVE  TokenTotal(more) = TokenTotal(tokens) + TokenCount(more[c]) /\ TokenTotal(tokens) \in Nat
<1> DEFINE f == [d \in DOMAIN tokens |-> TokenCount(tokens[d])]
           g == [d \in DOMAIN more |-> TokenCount(more[d])]
<1>1. PICK t : Summed(t, f) /\ TokenTotal(tokens) = t[DOMAIN tokens]
  BY TokenTotalIs
<1>2. DOMAIN more \subseteq Chunk /\ \A d \in DOMAIN more : more[d] \in Text
  OBVIOUS
<1>3. PICK u : Summed(u, g) /\ TokenTotal(more) = u[DOMAIN more]
  BY <1>2, TokenTotalIs
<1>4. /\ DOMAIN f = DOMAIN tokens /\ DOMAIN g = DOMAIN more
      /\ \A d \in DOMAIN f : f[d] \in Nat /\ g[d] = f[d]
      /\ g[c] = TokenCount(more[c]) /\ g[c] \in Nat
  BY CountIs
<1>5. IsFiniteSet(DOMAIN f)
  BY <1>4, StoresAssumption, FS_Subset
<1> HIDE DEF f, g
<1>6. c \notin DOMAIN f /\ DOMAIN g = DOMAIN f \cup {c}
  BY <1>4
<1> QED BY <1>1, <1>3, <1>4, <1>5, <1>6, SumPlus
-----------------------------------------------------------------------------
\* What an exact index is made of.
LEMMA WordsAre ==
  ASSUME NEW w \in Words
  PROVE  /\ w = [postings |-> w.postings, tokens |-> w.tokens, total |-> w.total]
         /\ DOMAIN w.tokens \subseteq Chunk /\ \A c \in DOMAIN w.tokens : w.tokens[c] \in Text
         /\ w.tokens = [c \in DOMAIN w.tokens |-> w.tokens[c]]
         /\ w.postings = [t \in DOMAIN w.postings |-> w.postings[t]]
         /\ DOMAIN w.postings = UNION {DOMAIN w.tokens[c] : c \in DOMAIN w.tokens}
         /\ \A t \in DOMAIN w.postings :
              w.postings[t] = {c \in DOMAIN w.tokens : t \in DOMAIN w.tokens[c]}
         /\ w.total = TokenTotal(w.tokens)
         /\ Exact(w)
<1>1. PICK T \in SUBSET Terms : w.postings \in [T -> SUBSET Chunk]
  BY DEF Words
<1>2. PICK C \in SUBSET Chunk : w.tokens \in [C -> Text]
  BY DEF Words
<1>3. Exact(w) /\ w = [postings |-> w.postings, tokens |-> w.tokens, total |-> w.total]
  BY DEF Words
<1>4. /\ DOMAIN w.postings = UNION {DOMAIN w.tokens[c] : c \in DOMAIN w.tokens}
      /\ \A t \in DOMAIN w.postings :
              w.postings[t] = {c \in DOMAIN w.tokens : t \in DOMAIN w.tokens[c]}
  BY <1>3 DEF Exact, TermsOf
<1>5. w.total = TokenTotal(w.tokens)
  BY <1>3 DEF Exact, TokenTotal
<1> QED BY <1>1, <1>2, <1>3, <1>4, <1>5

\* And what makes one.
LEMMA WordsMade ==
  ASSUME NEW tokens, DOMAIN tokens \subseteq Chunk, \A c \in DOMAIN tokens : tokens[c] \in Text,
         tokens = [c \in DOMAIN tokens |-> tokens[c]],
         NEW postings, postings = [t \in DOMAIN postings |-> postings[t]],
         DOMAIN postings = UNION {DOMAIN tokens[c] : c \in DOMAIN tokens},
         \A t \in DOMAIN postings : postings[t] = {c \in DOMAIN tokens : t \in DOMAIN tokens[c]},
         TokenTotal(tokens) \in Nat
  PROVE  [postings |-> postings, tokens |-> tokens, total |-> TokenTotal(tokens)] \in Words
<1> DEFINE w == [postings |-> postings, tokens |-> tokens, total |-> TokenTotal(tokens)]
<1>1. w.postings = postings /\ w.tokens = tokens /\ w.total = TokenTotal(tokens)
  OBVIOUS
<1>2. tokens \in UNION {[C -> Text] : C \in SUBSET Chunk}
  <2>1. tokens \in [DOMAIN tokens -> Text]
    OBVIOUS
  <2> QED BY <2>1
<1>3. postings \in UNION {[T -> SUBSET Chunk] : T \in SUBSET Terms}
  <2>1. DOMAIN postings \subseteq Terms
    BY DEF Terms
  <2>2. postings \in [DOMAIN postings -> SUBSET Chunk]
    OBVIOUS
  <2> QED BY <2>1, <2>2
<1>4. w \in [postings : UNION {[T -> SUBSET Chunk] : T \in SUBSET Terms},
             tokens : UNION {[C -> Text] : C \in SUBSET Chunk}, total : Nat]
  BY <1>2, <1>3
<1> HIDE DEF w
<1>5. Exact(w)
  <2>1. DOMAIN w.postings = UNION {TermsOf(w.tokens[c]) : c \in DOMAIN w.tokens}
    BY <1>1 DEF TermsOf
  <2>2. \A t \in DOMAIN w.postings : w.postings[t] = {c \in DOMAIN w.tokens : t \in TermsOf(w.tokens[c])}
    BY <1>1 DEF TermsOf
  <2>3. w.total = MapThenSumSet(LAMBDA c : TokenCount(w.tokens[c]), DOMAIN w.tokens)
    <3>1. w.total = TokenTotal(w.tokens)
      BY <1>1
    <3> QED BY <3>1 DEF TokenTotal
  <2>4. \A t \in DOMAIN w.postings :
          FoundBy(w, {t}) = {c \in DOMAIN w.tokens : t \in TermsOf(w.tokens[c])}
    BY <2>2 DEF FoundBy
  <2> QED BY <2>1, <2>2, <2>3, <2>4 DEF Exact
<1> QED BY <1>4, <1>5 DEF Words, w

\* No chunks.
LEMMA NoWords == NoChunks \in Words
<1>1. PICK e : e = <<>>
  OBVIOUS
<1>2. DOMAIN e = {} /\ e = [c \in DOMAIN e |-> e[c]]
  BY <1>1
<1>3. TokenTotal(e) = 0
  <2> DEFINE f == [c \in DOMAIN e |-> TokenCount(e[c])]
  <2>1. PICK t : Summed(t, f) /\ TokenTotal(e) = t[DOMAIN e]
    BY <1>2, TokenTotalIs
  <2>2. DOMAIN f = {}
    BY <1>2
  <2> HIDE DEF f
  <2>3. t[{}] = 0
    BY <2>1, <2>2 DEF Summed, IsFold
  <2> QED BY <1>2, <2>1, <2>3
<1>4. [postings |-> e, tokens |-> e, total |-> TokenTotal(e)] \in Words
  <2>1. DOMAIN e = UNION {DOMAIN e[c] : c \in DOMAIN e}
    BY <1>2
  <2>2. /\ \A c \in DOMAIN e : e[c] \in Text
        /\ \A t \in DOMAIN e : e[t] = {c \in DOMAIN e : t \in DOMAIN e[c]}
        /\ DOMAIN e \subseteq Chunk /\ TokenTotal(e) \in Nat
    BY <1>2, <1>3
  <2> HIDE <1>1
  <2> QED BY <1>2, <2>1, <2>2, WordsMade
<1> QED BY <1>1, <1>3, <1>4 DEF NoChunks

\* A chunk that is not there is added.
LEMMA IndexedKeeps ==
  ASSUME NEW w \in Words, NEW c \in Chunk, c \notin DOMAIN w.tokens, NEW text \in Text
  PROVE  Indexed(w, c, text) \in Words
<1> DEFINE tokens == Indexed(w, c, text).tokens
           postings == Indexed(w, c, text).postings
<1>0. /\ DOMAIN w.tokens \subseteq Chunk /\ \A d \in DOMAIN w.tokens : w.tokens[d] \in Text
      /\ DOMAIN w.postings = UNION {DOMAIN w.tokens[d] : d \in DOMAIN w.tokens}
      /\ \A t \in DOMAIN w.postings :
              w.postings[t] = {d \in DOMAIN w.tokens : t \in DOMAIN w.tokens[d]}
      /\ w.total = TokenTotal(w.tokens)
  BY WordsAre
<1>1. /\ DOMAIN tokens = DOMAIN w.tokens \cup {c} /\ tokens[c] = text
      /\ tokens = [d \in DOMAIN tokens |-> tokens[d]]
      /\ \A d \in DOMAIN w.tokens : tokens[d] = w.tokens[d]
  BY DEF Indexed
<1>2. /\ postings = [t \in DOMAIN postings |-> postings[t]]
      /\ DOMAIN postings = DOMAIN w.postings \cup DOMAIN text
      /\ \A t \in DOMAIN postings :
           postings[t] = (IF t \in DOMAIN w.postings THEN w.postings[t] ELSE {})
                         \cup (IF t \in DOMAIN text THEN {c} ELSE {})
  BY DEF Indexed, TermsOf
<1>3. /\ Indexed(w, c, text) = [postings |-> postings, tokens |-> tokens, total |-> w.total + TokenCount(text)]
  BY DEF Indexed
<1> HIDE DEF tokens, postings
<1>4. TokenTotal(tokens) = w.total + TokenCount(text) /\ TokenTotal(tokens) \in Nat
  <2>1. TokenTotal(tokens) = TokenTotal(w.tokens) + TokenCount(tokens[c]) /\ TokenTotal(w.tokens) \in Nat
    BY <1>0, <1>1, TokenTotalPlus
  <2> QED BY <1>0, <1>1, <2>1, CountIs
<1>5. DOMAIN tokens \subseteq Chunk /\ \A d \in DOMAIN tokens : tokens[d] \in Text
  BY <1>0, <1>1
<1>6. DOMAIN postings = UNION {DOMAIN tokens[d] : d \in DOMAIN tokens}
  BY <1>0, <1>1, <1>2
<1>7. ASSUME NEW t \in DOMAIN postings PROVE postings[t] = {d \in DOMAIN tokens : t \in DOMAIN tokens[d]}
  <2>1. CASE t \in DOMAIN w.postings
    BY <1>0, <1>1, <1>2, <2>1
  <2>2. CASE t \notin DOMAIN w.postings
    <3>1. \A d \in DOMAIN w.tokens : t \notin DOMAIN tokens[d]
      BY <1>0, <1>1, <2>2
    <3>2. t \in DOMAIN text /\ postings[t] = {c}
      BY <1>2, <2>2
    <3> QED BY <1>1, <3>1, <3>2
  <2> QED BY <2>1, <2>2
<1>8. [postings |-> postings, tokens |-> tokens, total |-> TokenTotal(tokens)] \in Words
  BY <1>1, <1>2, <1>4, <1>5, <1>6, <1>7, WordsMade
<1> QED BY <1>3, <1>4, <1>8

\* A chunk is removed, if it is there.
LEMMA UnindexedKeeps ==
  ASSUME NEW w \in Words, NEW c
  PROVE  Unindexed(w, c) \in Words /\ c \notin DOMAIN Unindexed(w, c).tokens
<1>1. CASE c \notin DOMAIN w.tokens
  BY <1>1 DEF Unindexed
<1>2. CASE c \in DOMAIN w.tokens
  <2> DEFINE text == w.tokens[c]
             tokens == Restrict(w.tokens, DOMAIN w.tokens \ {c})
             left == [t \in DOMAIN w.postings |->
                        IF t \in TermsOf(text) THEN w.postings[t] \ {c} ELSE w.postings[t]]
             postings == Restrict(left, {t \in DOMAIN left : t \notin TermsOf(text) \/ left[t] # {}})
             spent == TokenCount(text)
  <2>0. /\ DOMAIN w.tokens \subseteq Chunk /\ \A d \in DOMAIN w.tokens : w.tokens[d] \in Text
        /\ DOMAIN w.postings = UNION {DOMAIN w.tokens[d] : d \in DOMAIN w.tokens}
        /\ \A t \in DOMAIN w.postings :
                w.postings[t] = {d \in DOMAIN w.tokens : t \in DOMAIN w.tokens[d]}
        /\ w.total = TokenTotal(w.tokens)
    BY WordsAre
  <2>1. Unindexed(w, c) = [postings |-> postings, tokens |-> tokens,
                           total |-> IF spent < w.total THEN w.total - spent ELSE 0]
    BY <1>2 DEF Unindexed
  <2>2. /\ DOMAIN tokens = DOMAIN w.tokens \ {c} /\ tokens = [d \in DOMAIN tokens |-> tokens[d]]
        /\ \A d \in DOMAIN tokens : tokens[d] = w.tokens[d]
    BY DEF Restrict
  <2>3. \A t \in DOMAIN left : left[t] = w.postings[t] \ {c}
    BY <2>0 DEF TermsOf
  <2>4. DOMAIN left = DOMAIN w.postings
    OBVIOUS
  <2> HIDE DEF left
  <2>5. /\ postings = [t \in DOMAIN postings |-> postings[t]]
        /\ DOMAIN postings = {t \in DOMAIN w.postings : t \notin DOMAIN text \/ w.postings[t] \ {c} # {}}
        /\ \A t \in DOMAIN postings : postings[t] = w.postings[t] \ {c}
    BY <2>3, <2>4 DEF Restrict, TermsOf
  <2> HIDE DEF text, tokens, postings, spent
  <2>6. TokenTotal(w.tokens) = TokenTotal(tokens) + spent /\ TokenTotal(tokens) \in Nat /\ spent \in Nat
    <3>1. /\ DOMAIN tokens \subseteq Chunk /\ \A d \in DOMAIN tokens : tokens[d] \in Text
          /\ c \in Chunk /\ c \notin DOMAIN tokens /\ DOMAIN w.tokens = DOMAIN tokens \cup {c}
      BY <1>2, <2>0, <2>2
    <3>2. w.tokens[c] \in Text /\ \A d \in DOMAIN tokens : w.tokens[d] = tokens[d]
      BY <1>2, <2>0, <2>2
    <3>3. TokenTotal(w.tokens) = TokenTotal(tokens) + TokenCount(w.tokens[c]) /\ TokenTotal(tokens) \in Nat
      BY <3>1, <3>2, TokenTotalPlus
    <3>4. TokenCount(w.tokens[c]) \in Nat
      BY <3>2, CountIs
    <3> QED BY <3>3, <3>4 DEF spent, text
  <2>7. TokenTotal(tokens) = IF spent < w.total THEN w.total - spent ELSE 0
    BY <2>0, <2>6
  <2>8. DOMAIN postings = UNION {DOMAIN tokens[d] : d \in DOMAIN tokens}
    <3>1. ASSUME NEW t \in DOMAIN postings PROVE \E d \in DOMAIN tokens : t \in DOMAIN tokens[d]
      <4>1. w.postings[t] \ {c} # {}
        BY <2>0, <2>5, <3>1 DEF text
      <4> QED BY <2>0, <2>2, <2>5, <4>1
    <3>2. ASSUME NEW d \in DOMAIN tokens, NEW t \in DOMAIN tokens[d] PROVE t \in DOMAIN postings
      BY <2>0, <2>2, <2>5, <3>2
    <3> QED BY <3>1, <3>2
  <2>9. \A t \in DOMAIN postings : postings[t] = {d \in DOMAIN tokens : t \in DOMAIN tokens[d]}
    BY <2>0, <2>2, <2>5
  <2>10. DOMAIN tokens \subseteq Chunk /\ \A d \in DOMAIN tokens : tokens[d] \in Text
    BY <2>0, <2>2
  <2>11. [postings |-> postings, tokens |-> tokens, total |-> TokenTotal(tokens)] \in Words
    BY <2>2, <2>5, <2>6, <2>8, <2>9, <2>10, WordsMade
  <2>12. Unindexed(w, c).tokens = tokens
    BY <2>1
  <2> QED BY <2>1, <2>2, <2>7, <2>11, <2>12
<1> QED BY <1>1, <1>2
\* Texts by chunk.
Texts(texts) == DOMAIN texts \subseteq Chunk /\ \A c \in DOMAIN texts : texts[c] \in Text

\* The texts of some chunks are put in.
LEMMA RewordedKeeps ==
  ASSUME NEW w \in Words, NEW texts, Texts(texts)
  PROVE  Reworded(w, texts) \in Words
<1> DEFINE D == DOMAIN texts
           F == [p \in D \X Words |-> Indexed(Unindexed(p[2], p[1]), p[1], texts[p[1]])]
           U == CHOOSE u : u = [s \in SUBSET D |->
                  IF s = {} THEN w
                  ELSE Indexed(Unindexed(u[s \ {Pick(s)}], Pick(s)), Pick(s), texts[Pick(s)])]
<1>1. Reworded(w, texts) = U[D]
  BY DEF Reworded, FoldSet, MapThenFoldSet, Pick
<1>2. IsFiniteSet(D)
  BY StoresAssumption, FS_Subset DEF Texts
<1>3. ASSUME NEW x \in D, NEW a \in Words
      PROVE  /\ F[<<x, a>>] = Indexed(Unindexed(a, x), x, texts[x])
             /\ F[<<x, a>>] \in Words
  <2>1. Unindexed(a, x) \in Words /\ x \notin DOMAIN Unindexed(a, x).tokens
    BY UnindexedKeeps
  <2>2. x \in Chunk /\ texts[x] \in Text
    BY DEF Texts
  <2>3. Indexed(Unindexed(a, x), x, texts[x]) \in Words
    BY <2>1, <2>2, IndexedKeeps
  <2> QED BY <2>3
<1> HIDE DEF F, U
<1>4. PICK t : IsFold(t, D, Words, w, F)
  BY <1>2, <1>3, FoldExists
<1>5. t = [s \in SUBSET D |->
             IF s = {} THEN w
             ELSE Indexed(Unindexed(t[s \ {Pick(s)}], Pick(s)), Pick(s), texts[Pick(s)])]
  <2>1. t = [s \in SUBSET D |-> t[s]]
    BY <1>4 DEF IsFold
  <2>2. ASSUME NEW s \in SUBSET D
        PROVE  t[s] = IF s = {} THEN w
                      ELSE Indexed(Unindexed(t[s \ {Pick(s)}], Pick(s)), Pick(s), texts[Pick(s)])
    <3>1. CASE s = {}
      BY <1>4, <3>1 DEF IsFold
    <3>2. CASE s # {}
      <4>1. Pick(s) \in D
        BY <3>2 DEF Pick
      <4>2. t[s] = F[<<Pick(s), t[s \ {Pick(s)}]>>] /\ t[s \ {Pick(s)}] \in Words
        BY <1>4, <3>2 DEF IsFold
      <4> QED BY <1>3, <3>2, <4>1, <4>2
    <3> QED BY <3>1, <3>2
  <2> QED BY <2>1, <2>2
<1>6. U = [s \in SUBSET D |->
             IF s = {} THEN w
             ELSE Indexed(Unindexed(U[s \ {Pick(s)}], Pick(s)), Pick(s), texts[Pick(s)])]
  BY <1>5 DEF U
<1>7. IsFold(U, D, Words, w, F)
  <2>1. DOMAIN U = SUBSET D /\ U = [s \in SUBSET D |-> U[s]]
    BY <1>6
  <2>2. ASSUME NEW s \in SUBSET D
        PROVE  /\ s = {} => U[s] = w
               /\ s # {} /\ U[s \ {Pick(s)}] \in Words => U[s] = F[<<Pick(s), U[s \ {Pick(s)}]>>]
    <3>1. U[s] = IF s = {} THEN w
                 ELSE Indexed(Unindexed(U[s \ {Pick(s)}], Pick(s)), Pick(s), texts[Pick(s)])
      BY <1>6
    <3>2. s # {} => Pick(s) \in D
      BY DEF Pick
    <3> QED BY <1>3, <3>1, <3>2
  <2> QED BY <1>2, <1>3, <2>1, <2>2, TableIsFold
<1> QED BY <1>1, <1>7 DEF IsFold

\* Some chunks are removed.
LEMMA UnwordedKeeps ==
  ASSUME NEW w \in Words, NEW chunks, chunks \subseteq Chunk
  PROVE  Unworded(w, chunks) \in Words
<1> DEFINE F == [p \in chunks \X Words |-> Unindexed(p[2], p[1])]
           U == CHOOSE u : u = [s \in SUBSET chunks |->
                  IF s = {} THEN w ELSE Unindexed(u[s \ {Pick(s)}], Pick(s))]
<1>1. Unworded(w, chunks) = U[chunks]
  BY DEF Unworded, FoldSet, MapThenFoldSet, Pick
<1>2. IsFiniteSet(chunks)
  BY StoresAssumption, FS_Subset
<1>3. \A x \in chunks, a \in Words : F[<<x, a>>] = Unindexed(a, x) /\ F[<<x, a>>] \in Words
  BY UnindexedKeeps
<1> HIDE DEF F, U
<1>4. PICK t : IsFold(t, chunks, Words, w, F)
  BY <1>2, <1>3, FoldExists
<1>5. t = [s \in SUBSET chunks |-> IF s = {} THEN w ELSE Unindexed(t[s \ {Pick(s)}], Pick(s))]
  <2>1. t = [s \in SUBSET chunks |-> t[s]]
    BY <1>4 DEF IsFold
  <2>2. ASSUME NEW s \in SUBSET chunks
        PROVE  t[s] = IF s = {} THEN w ELSE Unindexed(t[s \ {Pick(s)}], Pick(s))
    <3>1. CASE s = {}
      BY <1>4, <3>1 DEF IsFold
    <3>2. CASE s # {}
      <4>1. Pick(s) \in chunks
        BY <3>2 DEF Pick
      <4>2. t[s] = F[<<Pick(s), t[s \ {Pick(s)}]>>] /\ t[s \ {Pick(s)}] \in Words
        BY <1>4, <3>2 DEF IsFold
      <4> QED BY <1>3, <3>2, <4>1, <4>2
    <3> QED BY <3>1, <3>2
  <2> QED BY <2>1, <2>2
<1>6. U = [s \in SUBSET chunks |-> IF s = {} THEN w ELSE Unindexed(U[s \ {Pick(s)}], Pick(s))]
  BY <1>5 DEF U
<1>7. IsFold(U, chunks, Words, w, F)
  <2>1. DOMAIN U = SUBSET chunks /\ U = [s \in SUBSET chunks |-> U[s]]
    BY <1>6
  <2>2. ASSUME NEW s \in SUBSET chunks
        PROVE  /\ s = {} => U[s] = w
               /\ s # {} /\ U[s \ {Pick(s)}] \in Words => U[s] = F[<<Pick(s), U[s \ {Pick(s)}]>>]
    <3>1. U[s] = IF s = {} THEN w ELSE Unindexed(U[s \ {Pick(s)}], Pick(s))
      BY <1>6
    <3>2. s # {} => Pick(s) \in chunks
      BY DEF Pick
    <3> QED BY <1>3, <3>1, <3>2
  <2> QED BY <1>2, <1>3, <2>1, <2>2, TableIsFold
<1> QED BY <1>1, <1>7 DEF IsFold

-----------------------------------------------------------------------------
\* Memory and file are exact, and what will be put in are texts of chunks.
KeywordsInv ==
  /\ words \in Words
  /\ wordFile # Absent => wordFile \in Words
  /\ Texts(embeddings) /\ Texts(committed)

\* What was embedded of a batch.
LEMMA BatchTexts ==
  ASSUME NEW batch \in DistinctBatch, NEW e, Texts(e)
  PROVE  Texts(TextsOf(batch)) /\ Texts(Under(e, TextsOf(batch)))
<1>1. PICK n \in 1 .. Cardinality(Chunk) : batch \in [1 .. n -> [key : Chunk, vector : Text]]
  BY DEF DistinctBatch
<1>2. \A i \in DOMAIN batch : batch[i].key \in Chunk /\ batch[i].vector \in Text
  BY <1>1
<1>3. DOMAIN TextsOf(batch) = KeysOf(batch) /\ KeysOf(batch) \subseteq Chunk
  BY <1>2 DEF TextsOf, KeysOf
<1>4. ASSUME NEW c \in KeysOf(batch) PROVE TextsOf(batch)[c] \in Text
  <2>1. \E i \in DOMAIN batch : batch[i].key = c
    BY DEF KeysOf
  <2>2. (CHOOSE i \in DOMAIN batch : batch[i].key = c) \in DOMAIN batch
    BY <2>1
  <2> QED BY <1>2, <2>2 DEF TextsOf
<1>5. Texts(TextsOf(batch))
  BY <1>3, <1>4 DEF Texts
<1> QED BY <1>5 DEF Texts, Under

\* A step of the stores.
LEMMA KeywordsStep ==
  KeywordsInv /\ [StoresNext]_storesVars => KeywordsInv'
<1> SUFFICES ASSUME KeywordsInv, [StoresNext]_storesVars PROVE KeywordsInv'
  OBVIOUS
<1>0. /\ words \in Words /\ (wordFile # Absent => wordFile \in Words)
      /\ Texts(embeddings) /\ Texts(committed)
  BY DEF KeywordsInv
<1>1. Texts(<<>>)
  <2>1. \A e : e = <<>> => DOMAIN e = {}
    OBVIOUS
  <2> QED BY <2>1 DEF Texts
<1>2. CASE RunBegins
  BY <1>0, <1>2, NoWords DEF RunBegins, KeywordsInv
<1>3. CASE RunSaves
  BY <1>0, <1>3 DEF RunSaves, RunFails, KeywordsInv
<1>4. CASE RunEnds
  BY <1>0, <1>4 DEF RunEnds, RunFails, KeywordsInv
<1>5. CASE ClearIndex
  BY <1>0, <1>1, <1>5, NoWords DEF ClearIndex, KeywordsInv
<1>6. CASE Closes
  BY <1>0, <1>6, NoWords DEF Closes, KeywordsInv
<1>7. ASSUME NEW c \in Chunk, AddCached(c) PROVE KeywordsInv'
  <2>1. /\ c \in DOMAIN embeddings /\ UNCHANGED <<wordFile, committed>>
        /\ \/ words' = Reworded(words, Restrict(embeddings, {c})) /\ UNCHANGED embeddings
           \/ words' = words /\ embeddings' = committed
    BY <1>7, Zenon DEF AddCached, RunFails
  <2>2. Texts(Restrict(embeddings, {c}))
    BY <1>0, <2>1 DEF Texts, Restrict
  <2>3. Reworded(words, Restrict(embeddings, {c})) \in Words
    BY <1>0, <2>2, RewordedKeeps
  <2> QED BY <1>0, <2>1, <2>3 DEF KeywordsInv
<1>8. ASSUME NEW batch \in DistinctBatch, AddEmbedded(batch) PROVE KeywordsInv'
  <2>1. /\ UNCHANGED <<wordFile, committed>> /\ embeddings' = Under(embeddings, TextsOf(batch))
        /\ words' \in {Reworded(words, TextsOf(batch)), Unworded(words, DOMAIN TextsOf(batch))}
    <3>1. UNCHANGED <<wordFile, committed>> /\ embeddings' = Under(embeddings, TextsOf(batch))
      BY <1>8 DEF AddEmbedded
    <3>2. \/ words' = Reworded(words, TextsOf(batch)) \/ words' = Unworded(words, DOMAIN TextsOf(batch))
      BY <1>8, Zenon DEF AddEmbedded
    <3> QED BY <3>1, <3>2
  <2>2. Texts(TextsOf(batch)) /\ Texts(Under(embeddings, TextsOf(batch)))
    BY <1>0, BatchTexts
  <2>3. Reworded(words, TextsOf(batch)) \in Words /\ Unworded(words, DOMAIN TextsOf(batch)) \in Words
    BY <1>0, <2>2, RewordedKeeps, UnwordedKeeps DEF Texts
  <2> QED BY <1>0, <2>1, <2>2, <2>3 DEF KeywordsInv
<1>9. ASSUME NEW removed \in SUBSET Chunk, RemoveChunks(removed) PROVE KeywordsInv'
  <2>1. /\ UNCHANGED <<wordFile, committed>>
        /\ words' \in {words, Unworded(words, removed)}
        /\ embeddings' \in {embeddings, committed}
    BY <1>9 DEF RemoveChunks, RunFails
  <2>2. Unworded(words, removed) \in Words
    BY <1>0, UnwordedKeeps
  <2> QED BY <1>0, <2>1, <2>2 DEF KeywordsInv
<1>10. CASE UNCHANGED storesVars
  BY <1>0, <1>10 DEF storesVars, KeywordsInv
<1> QED BY <1>2, <1>3, <1>4, <1>5, <1>6, <1>7, <1>8, <1>9, <1>10 DEF StoresNext

\* Document frequencies and the average length stay those of the chunks that are there,
\* through every replacement, compensation, removal, failed run and reload of the file
\* (inverted_index.rs:99-145, index.ts:2441-2453): for any chunks and texts.
THEOREM KeywordsStayExact == StoresSpec => []KeywordsExact
<1>1. StoresInit => KeywordsInv
  <2>1. \A e : e = <<>> => DOMAIN e = {}
    OBVIOUS
  <2> QED BY <2>1, NoWords DEF StoresInit, KeywordsInv, Texts
<1>2. KeywordsInv => KeywordsExact
  BY WordsAre DEF KeywordsInv, KeywordsExact
<1> QED BY <1>1, <1>2, KeywordsStep, PTL DEF StoresSpec

-----------------------------------------------------------------------------
(* The edit context.                                                        *)

\* The fields of a request in each of its steps.
Basic == {"step", "hint", "steady"}
FieldsAt(step) ==
  CASE step = "idle" -> {"step"}
    [] step = "resolves" -> Basic
    [] step = "fallback" -> Basic \cup {"status"}
    [] step = "callers" -> Basic \cup {"symbol", "unresolved"}
    [] OTHER -> Basic \cup {"symbol", "callers", "definition", "callees"}

EditTyped ==
  /\ index \in Indexes
  /\ edit.step \in {"idle", "resolves", "fallback", "callers", "settles", "answered"}
  /\ DOMAIN edit = FieldsAt(edit.step)

\* The index still has the only symbol that the request can mean.
Meant == Matches(index.symbols, edit.hint) = {edit.symbol}
OnlyOne == Cardinality(NamedIn(index.symbols, Target)) = 1

\* A symbol of the name in a file that the hint allows.
Hinted(s, hint) ==
  Defined[s].name = Target /\ (hint = NoHint \/ FileMatches(FileOfSymbol(s), hint))

SymbolResolved ==
  edit.step \in {"callers", "settles", "answered"} =>
    /\ edit.symbol \in DOMAIN Defined
    /\ Hinted(edit.symbol, edit.hint)
    /\ edit.steady => Meant

CallersExpected ==
  edit.step = "callers" /\ edit.steady => edit.unresolved = OnlyOne

\* The calls of the symbol, and the calls of its name that are bound to no symbol.
CallersRead ==
  edit.step = "settles" =>
    /\ \A e \in edit.callers : e.to \in {edit.symbol, Unlinked} /\ e.callee = Target
    /\ edit.steady => edit.callers = CallersForSymbol(edit.symbol, OnlyOne)

DefinitionRead ==
  edit.step = "settles" =>
    /\ edit.definition.at \in {"asked", "failed", "read"}
    /\ edit.definition.at = "read" =>
         \A c \in edit.definition.source : PathsMatch(FileOfSymbol(c), FileOfSymbol(edit.symbol))

CalleesRead ==
  edit.step = "settles" =>
    LET hint == CalleeFile(edit.hint, edit.symbol)
    IN /\ edit.callees.at = "resolved" =>
            Hinted(edit.callees.of, hint) /\ (edit.steady => edit.callees.of = edit.symbol)
       /\ edit.callees.at = "read" =>
            /\ \A e \in edit.callees.edges : Hinted(e.from, hint)
            /\ edit.steady => edit.callees.edges = Callees(edit.symbol)

EditInv ==
  /\ EditTyped /\ SymbolResolved /\ CallersExpected /\ CallersRead /\ DefinitionRead
  /\ CalleesRead /\ EditHonest

\* A resolution is the only match, or says why there is none.
LEMMA ResolutionIs ==
  ASSUME NEW symbols \in SUBSET DOMAIN Defined, IsFiniteSet(symbols), NEW hint,
         NEW r, r = Resolution(symbols, hint)
  PROVE  /\ r.status \in {"resolved", "not_found", "ambiguous"}
         /\ r.status = "resolved" => /\ Matches(symbols, hint) = {r.symbol}
                                     /\ r.symbol \in DOMAIN Defined /\ Hinted(r.symbol, hint)
         /\ r.status = "not_found" => Matches(symbols, hint) = {}
         /\ r.status = "ambiguous" => Cardinality(Matches(symbols, hint)) > 1
<1> DEFINE matches == Matches(symbols, hint)
<1>1. matches \subseteq symbols
  BY DEF Matches, NamedIn
<1>2. IsFiniteSet(matches)
  BY <1>1, FS_Subset
<1>3. Cardinality(matches) \in Nat
  BY <1>2, FS_CardinalityType
<1>4. Cardinality(matches) = 0 <=> matches = {}
  BY <1>2, FS_EmptySet
<1>5. CASE Cardinality(matches) = 1
  <2>1. PICK x : matches = {x}
    BY <1>2, <1>5, FS_Singleton
  <2>2. r = [status |-> "resolved", symbol |-> CHOOSE s \in matches : TRUE]
    BY <1>5 DEF Resolution
  <2>3. r.symbol = x
    BY <2>1, <2>2
  <2> QED BY <1>1, <2>1, <2>2, <2>3 DEF Hinted, Matches, NamedIn
<1>6. CASE Cardinality(matches) # 1
  <2>1. r = [status |-> IF matches = {} THEN "not_found" ELSE "ambiguous"]
    BY <1>6 DEF Resolution
  <2> QED BY <1>3, <1>4, <1>6, <2>1
<1> QED BY <1>5, <1>6

\* What an index is.
LEMMA IndexIs ==
  ASSUME index \in Indexes
  PROVE  index.symbols \in SUBSET DOMAIN Defined /\ IsFiniteSet(index.symbols)
BY IndexesAssumption

\* The calls of a symbol.
LEMMA CallersCall ==
  ASSUME NEW s, Defined[s].name = Target, NEW unresolved \in BOOLEAN
  PROVE  \A e \in CallersForSymbol(s, unresolved) : e.to \in {s, Unlinked} /\ e.callee = Target
BY DEF CallersForSymbol

\* Part of some edges are edges.
LEMMA SomeAre == \A edges : \A part \in Some(edges) : part \subseteq edges
BY DEF Some

\* Only the mark that the index has changed is written.
LEMMA ReindexedKeeps ==
  ASSUME EditInv, Reindexed
  PROVE  EditInv'
<1>1. index' \in Indexes
  BY DEF Reindexed
<1>2. CASE edit.step = "idle"
  BY <1>1, <1>2 DEF Reindexed, EditInv, EditTyped, SymbolResolved, CallersExpected, CallersRead,
     DefinitionRead, CalleesRead, EditHonest, FieldsAt
<1>3. CASE edit.step # "idle"
  <2>1. edit' = [edit EXCEPT !.steady = FALSE]
    BY <1>3 DEF Reindexed
  <2>2. "steady" \in DOMAIN edit /\ "step" \in DOMAIN edit
    BY <1>3 DEF EditInv, EditTyped, FieldsAt, Basic
  <2>3. /\ DOMAIN edit' = DOMAIN edit /\ edit'.steady = FALSE /\ edit'.step = edit.step
        /\ edit'.hint = edit.hint /\ edit'.symbol = edit.symbol /\ edit'.callers = edit.callers
        /\ edit'.definition = edit.definition /\ edit'.callees = edit.callees
    BY <2>1, <2>2
  <2>4. EditTyped' /\ SymbolResolved' /\ CallersExpected' /\ CallersRead'
    BY <1>1, <2>3 DEF EditInv, EditTyped, SymbolResolved, CallersExpected, CallersRead
  <2>5. DefinitionRead' /\ CalleesRead'
    BY <2>3 DEF EditInv, DefinitionRead, CalleesRead
  <2>6. EditHonest'
    BY <2>3 DEF EditInv, EditHonest, SteadyEdit, MovingEdit
  <2> QED BY <2>4, <2>5, <2>6 DEF EditInv
<1> QED BY <1>2, <1>3

\* A request begins, or ends.
LEMMA BeginsKeeps ==
  ASSUME EditInv, EditRequested \/ EditWithoutSymbol \/ EditEnds
  PROVE  EditInv'
<1>1. index' = index
  BY DEF EditRequested, EditWithoutSymbol, EditEnds, IndexStays
<1>2. CASE EditRequested
  BY <1>1, <1>2 DEF EditRequested, EditInv, EditTyped, SymbolResolved, CallersExpected, CallersRead,
     DefinitionRead, CalleesRead, EditHonest, SteadyEdit, MovingEdit, FieldsAt, Basic
<1>3. CASE EditWithoutSymbol
  BY <1>1, <1>3 DEF EditWithoutSymbol, EditInv, EditTyped, SymbolResolved, CallersExpected, CallersRead,
     DefinitionRead, CalleesRead, EditHonest, SteadyEdit, MovingEdit, FieldsAt, Basic
<1>4. CASE EditEnds
  BY <1>1, <1>4 DEF EditEnds, EditInv, EditTyped, SymbolResolved, CallersExpected, CallersRead,
     DefinitionRead, CalleesRead, EditHonest, SteadyEdit, MovingEdit, FieldsAt, Basic
<1> QED BY <1>2, <1>3, <1>4

\* The symbol is resolved.
LEMMA ResolvesKeeps ==
  ASSUME EditInv, Resolves
  PROVE  EditInv'
<1>1. index' = index /\ index \in Indexes
  BY DEF Resolves, IndexStays, EditInv, EditTyped
<1> DEFINE r == Resolution(index.symbols, edit.hint)
<1>2. /\ r.status \in {"resolved", "not_found", "ambiguous"}
      /\ r.status = "resolved" => /\ Matches(index.symbols, edit.hint) = {r.symbol}
                                  /\ r.symbol \in DOMAIN Defined /\ Hinted(r.symbol, edit.hint)
      /\ r.status = "not_found" => Matches(index.symbols, edit.hint) = {}
      /\ r.status = "ambiguous" => Cardinality(Matches(index.symbols, edit.hint)) > 1
  BY <1>1, IndexIs, ResolutionIs
<1>3. CASE r.status # "resolved"
  <2>1. edit' = [step |-> "fallback", status |-> r.status, hint |-> edit.hint, steady |-> edit.steady]
    BY <1>3 DEF Resolves
  <2> QED BY <1>1, <1>2, <1>3, <2>1 DEF EditInv, EditTyped, SymbolResolved, CallersExpected,
          CallersRead, DefinitionRead, CalleesRead, EditHonest, SteadyEdit, MovingEdit, FieldsAt, Basic
<1>4. CASE r.status = "resolved"
  <2>1. edit' = [step |-> "callers", hint |-> edit.hint, steady |-> edit.steady,
                 symbol |-> r.symbol,
                 unresolved |-> Cardinality(NamedIn(index.symbols, Target)) = 1]
    BY <1>4 DEF Resolves
  <2> QED BY <1>1, <1>2, <1>4, <2>1 DEF EditInv, EditTyped, SymbolResolved, CallersExpected,
          CallersRead, DefinitionRead, CalleesRead, EditHonest, SteadyEdit, MovingEdit, FieldsAt, Basic,
          Meant, OnlyOne
<1> QED BY <1>3, <1>4

\* The callers are read.
LEMMA CallersKeep ==
  ASSUME EditInv, ReadsCallers
  PROVE  EditInv'
<1>1. index' = index /\ index \in Indexes /\ edit.step = "callers"
  BY DEF ReadsCallers, IndexStays, EditInv, EditTyped
<1> DEFINE found == CallersForSymbol(edit.symbol, edit.unresolved)
<1>2. edit' = [step |-> "settles", hint |-> edit.hint, steady |-> edit.steady,
               symbol |-> edit.symbol, callers |-> found,
               definition |-> [at |-> "asked"], callees |-> [at |-> "asked"]]
  BY DEF ReadsCallers
<1>3. Defined[edit.symbol].name = Target
  BY <1>1 DEF EditInv, SymbolResolved, Hinted
<1>4. \A e \in found : e.to \in {edit.symbol, Unlinked} /\ e.callee = Target
  BY <1>3 DEF CallersForSymbol
<1>5. edit.steady => found = CallersForSymbol(edit.symbol, OnlyOne)
  BY <1>1, Zenon DEF EditInv, CallersExpected
<1> HIDE DEF found
<1>6. EditTyped' /\ SymbolResolved' /\ CallersExpected'
  BY <1>1, <1>2 DEF EditInv, EditTyped, SymbolResolved, CallersExpected, Meant, FieldsAt, Basic
<1>7. CallersRead'
  <2>1. (CallersForSymbol(edit.symbol, OnlyOne))' = CallersForSymbol(edit'.symbol, OnlyOne)
    BY <1>1 DEF CallersForSymbol, OnlyOne
  <2>2. edit'.symbol = edit.symbol /\ edit'.callers = found /\ edit'.steady = edit.steady
    BY <1>2
  <2> QED BY <1>4, <1>5, <2>1, <2>2 DEF CallersRead
<1>8. DefinitionRead' /\ CalleesRead'
  BY <1>1, <1>2 DEF DefinitionRead, CalleesRead
<1>9. EditHonest'
  BY <1>2 DEF EditHonest, SteadyEdit, MovingEdit
<1> QED BY <1>6, <1>7, <1>8, <1>9 DEF EditInv

\* The callers are not there.
LEMMA UnavailableKeeps ==
  ASSUME EditInv, GraphUnavailable
  PROVE  EditInv'
<1>1. index' = index /\ index \in Indexes
  BY DEF GraphUnavailable, IndexStays, EditInv, EditTyped
<1>2. edit' = [step |-> "fallback", status |-> "graph_unavailable", hint |-> edit.hint,
               steady |-> edit.steady]
  BY DEF GraphUnavailable
<1> QED BY <1>1, <1>2 DEF EditTyped, SymbolResolved, CallersExpected, CallersRead, DefinitionRead,
        CalleesRead, EditInv, EditHonest, SteadyEdit, MovingEdit, FieldsAt, Basic

\* What a step keeps that writes one of the two halves of a request.
LEMMA HalfKeeps ==
  ASSUME EditInv, IndexStays, edit.step = "settles", edit'.step = "settles",
         DOMAIN edit' = DOMAIN edit, edit'.hint = edit.hint, edit'.steady = edit.steady,
         edit'.symbol = edit.symbol, edit'.callers = edit.callers
  PROVE  /\ EditTyped' /\ SymbolResolved' /\ CallersExpected' /\ CallersRead' /\ EditHonest'
         /\ edit'.definition = edit.definition => DefinitionRead'
         /\ edit'.callees = edit.callees => CalleesRead'
<1>1. index' = index
  BY DEF IndexStays
<1>2. EditTyped' /\ SymbolResolved' /\ CallersExpected'
  BY <1>1 DEF EditInv, EditTyped, SymbolResolved, CallersExpected, Meant
<1>3. CallersRead'
  <2>1. (CallersForSymbol(edit.symbol, OnlyOne))' = CallersForSymbol(edit'.symbol, OnlyOne)
    BY <1>1 DEF CallersForSymbol, OnlyOne
  <2> QED BY <2>1 DEF EditInv, CallersRead
<1>4. EditHonest'
  BY DEF EditHonest, SteadyEdit, MovingEdit
<1>5. edit'.definition = edit.definition => DefinitionRead'
  BY DEF EditInv, DefinitionRead
<1>6. edit'.callees = edit.callees => CalleesRead'
  BY <1>1 DEF EditInv, CalleesRead, Callees
<1> QED BY <1>2, <1>3, <1>4, <1>5, <1>6

\* The definition is read, or cannot be.
LEMMA DefinitionKeeps ==
  ASSUME EditInv, ReadsDefinition \/ DefinitionFails
  PROVE  EditInv'
<1>1. IndexStays /\ edit.step = "settles"
  BY DEF ReadsDefinition, DefinitionFails
<1>2. {"step", "hint", "steady", "symbol", "callers", "definition", "callees"} = DOMAIN edit
  BY <1>1 DEF EditInv, EditTyped, FieldsAt, Basic
<1> DEFINE Right(definition) ==
             /\ definition.at \in {"failed", "read"}
             /\ definition.at = "read" =>
                  \A c \in definition.source : PathsMatch(FileOfSymbol(c), FileOfSymbol(edit.symbol))
<1>3. \E definition : edit' = [edit EXCEPT !.definition = definition] /\ Right(definition)
  <2>1. CASE DefinitionFails
    <3> DEFINE d == [at |-> "failed"]
    <3>1. edit' = [edit EXCEPT !.definition = d] /\ Right(d)
      BY <2>1 DEF DefinitionFails
    <3> QED BY <3>1, Zenon
  <2>2. CASE ReadsDefinition
    <3>1. PICK found \in SUBSET NamedIn(index.symbols, Target) :
             \E source \in TargetSource(found, edit.symbol) :
               edit' = [edit EXCEPT !.definition = [at |-> "read", source |-> source]]
      BY <2>2 DEF ReadsDefinition
    <3>2. PICK source \in TargetSource(found, edit.symbol) :
             edit' = [edit EXCEPT !.definition = [at |-> "read", source |-> source]]
      BY <3>1
    <3>3. \A c \in source : PathsMatch(FileOfSymbol(c), FileOfSymbol(edit.symbol))
      BY DEF TargetSource
    <3> DEFINE d == [at |-> "read", source |-> source]
    <3>4. edit' = [edit EXCEPT !.definition = d] /\ Right(d)
      BY <3>2, <3>3
    <3> QED BY <3>4, Zenon
  <2> QED BY <2>1, <2>2
<1>4. PICK definition : edit' = [edit EXCEPT !.definition = definition] /\ Right(definition)
  BY <1>3
<1>5. /\ edit'.step = "settles" /\ DOMAIN edit' = DOMAIN edit
      /\ edit'.hint = edit.hint /\ edit'.steady = edit.steady /\ edit'.symbol = edit.symbol
      /\ edit'.callers = edit.callers /\ edit'.callees = edit.callees
      /\ edit'.definition = definition
  BY <1>1, <1>2, <1>4
<1>6. DefinitionRead'
  BY <1>4, <1>5 DEF DefinitionRead
<1> QED BY <1>1, <1>5, <1>6, HalfKeeps DEF EditInv

\* The callees are resolved, read, or cannot be.
LEMMA CalleesKeep ==
  ASSUME EditInv, ResolvesCallees \/ ReadsCallees \/ CalleesFail
  PROVE  EditInv'
<1>1. IndexStays /\ index' = index /\ index \in Indexes /\ edit.step = "settles"
  BY DEF ResolvesCallees, ReadsCallees, CalleesFail, IndexStays, EditInv, EditTyped
<1>2. {"step", "hint", "steady", "symbol", "callers", "definition", "callees"} = DOMAIN edit
  BY <1>1 DEF EditInv, EditTyped, FieldsAt, Basic
<1> DEFINE hint == CalleeFile(edit.hint, edit.symbol)
           Right(callees) ==
             /\ callees.at = "resolved" =>
                  Hinted(callees.of, hint) /\ (edit.steady => callees.of = edit.symbol)
             /\ callees.at = "read" =>
                  /\ \A e \in callees.edges : Hinted(e.from, hint)
                  /\ edit.steady => callees.edges = Callees(edit.symbol)
<1>3. \E callees : edit' = [edit EXCEPT !.callees = callees] /\ Right(callees)
  <2>1. CASE CalleesFail
    <3> DEFINE d == [at |-> "risk"]
    <3>1. edit' = [edit EXCEPT !.callees = d] /\ Right(d)
      BY <2>1 DEF CalleesFail
    <3> QED BY <3>1, Zenon
  <2>2. CASE ReadsCallees
    <3>1. edit' = [edit EXCEPT !.callees = [at |-> "read", edges |-> Callees(edit.callees.of)]]
      BY <2>2 DEF ReadsCallees
    <3>2. Hinted(edit.callees.of, hint) /\ (edit.steady => edit.callees.of = edit.symbol)
      BY <1>1, <2>2 DEF ReadsCallees, EditInv, CalleesRead
    <3>3. \A e \in Callees(edit.callees.of) : e.from = edit.callees.of
      BY DEF Callees
    <3> DEFINE d == [at |-> "read", edges |-> Callees(edit.callees.of)]
    <3>4. Right(d)
      BY <3>2, <3>3
    <3> QED BY <3>1, <3>4, Zenon
  <2>3. CASE ResolvesCallees
    <3> DEFINE r == Resolution(index.symbols, hint)
    <3>1. edit' = [edit EXCEPT !.callees =
                     IF r.status = "resolved" THEN [at |-> "resolved", of |-> r.symbol]
                                              ELSE [at |-> "risk"]]
      BY <2>3 DEF ResolvesCallees
    <3>2. CASE r.status # "resolved"
      <4> DEFINE d == [at |-> "risk"]
      <4>1. edit' = [edit EXCEPT !.callees = d] /\ Right(d)
        BY <3>1, <3>2
      <4> QED BY <4>1, Zenon
    <3>3. CASE r.status = "resolved"
      <4>1. Matches(index.symbols, hint) = {r.symbol} /\ Hinted(r.symbol, hint)
        BY <1>1, <3>3, IndexIs, ResolutionIs
      <4>2. edit.steady => r.symbol = edit.symbol
        <5>1. hint = edit.hint \/ edit.hint = NoHint
          BY DEF CalleeFile
        <5>2. Matches(index.symbols, hint) \subseteq Matches(index.symbols, edit.hint)
          BY <5>1 DEF Matches
        <5>3. edit.steady => Matches(index.symbols, edit.hint) = {edit.symbol}
          BY <1>1 DEF EditInv, SymbolResolved, Meant
        <5> QED BY <4>1, <5>2, <5>3
      <4> DEFINE d == [at |-> "resolved", of |-> r.symbol]
      <4>3. edit' = [edit EXCEPT !.callees = d]
        BY <3>1, <3>3
      <4>4. Right(d)
        BY <4>1, <4>2
      <4> QED BY <4>3, <4>4, Zenon
    <3> QED BY <3>2, <3>3
  <2> QED BY <1>1, <2>1, <2>2, <2>3
<1>4. PICK callees : edit' = [edit EXCEPT !.callees = callees] /\ Right(callees)
  BY <1>3
<1>5. /\ edit'.step = "settles" /\ DOMAIN edit' = DOMAIN edit
      /\ edit'.hint = edit.hint /\ edit'.steady = edit.steady /\ edit'.symbol = edit.symbol
      /\ edit'.callers = edit.callers /\ edit'.callees = callees
      /\ edit'.definition = edit.definition
  BY <1>1, <1>2, <1>4
<1>6. CalleesRead'
  BY <1>1, <1>4, <1>5 DEF CalleesRead, Callees
<1> QED BY <1>1, <1>5, <1>6, HalfKeeps DEF EditInv

\* The answer.
LEMMA AnsweredKeeps ==
  ASSUME EditInv, EditAnswered
  PROVE  EditInv'
<1>1. index' = index /\ index \in Indexes /\ edit.step = "settles"
  BY DEF EditAnswered, IndexStays, EditInv, EditTyped
<1>2. {"step", "hint", "steady", "symbol", "callers", "definition", "callees"} = DOMAIN edit
  BY <1>1 DEF EditInv, EditTyped, FieldsAt, Basic
<1>3. CASE edit.definition.at = "failed"
  <2>1. edit' = [step |-> "idle"]
    BY <1>3 DEF EditAnswered
  <2> QED BY <1>1, <2>1 DEF EditInv, EditTyped, SymbolResolved, CallersExpected, CallersRead,
          DefinitionRead, CalleesRead, EditHonest, SteadyEdit, MovingEdit, FieldsAt, Basic
<1>4. CASE edit.definition.at # "failed"
  <2>1. edit.definition.at = "read" /\ edit.callees.at \in {"read", "risk"}
    BY <1>1, <1>4 DEF EditAnswered, EditInv, DefinitionRead
  <2>2. PICK callers \in Some(edit.callers),
             callees \in IF edit.callees.at = "risk" THEN {{}} ELSE Some(edit.callees.edges) :
               edit' = [edit EXCEPT !.step = "answered", !.callers = callers,
                                    !.callees = [risk |-> edit.callees.at = "risk", edges |-> callees]]
    BY <1>4 DEF EditAnswered
  <2>3. /\ edit'.step = "answered" /\ DOMAIN edit' = DOMAIN edit
        /\ edit'.hint = edit.hint /\ edit'.steady = edit.steady /\ edit'.symbol = edit.symbol
        /\ edit'.definition = edit.definition /\ edit'.callers = callers
        /\ edit'.callees.edges = callees /\ edit'.callees.risk = (edit.callees.at = "risk")
    BY <1>2, <2>2
  <2>4. EditTyped' /\ SymbolResolved' /\ CallersExpected' /\ CallersRead' /\ DefinitionRead'
        /\ CalleesRead'
    BY <1>1, <2>3 DEF EditInv, EditTyped, SymbolResolved, CallersExpected, CallersRead, DefinitionRead,
       CalleesRead, Meant, FieldsAt, Basic
  <2>5. MovingEdit'
    <3>1. callers \subseteq edit.callers
      BY <2>2, SomeAre
    <3>2. edit.callees.at = "read" => callees \subseteq edit.callees.edges
      BY <2>2, SomeAre
    <3>3. edit.callees.at = "risk" => callees = {}
      BY <2>2
    <3>4. \A e \in callees : Hinted(e.from, CalleeFile(edit.hint, edit.symbol))
      BY <1>1, <2>1, <3>2, <3>3 DEF EditInv, CalleesRead
    <3>5. CalleeFile(edit.hint, edit.symbol) =
            IF edit.hint = NoHint THEN FileOfSymbol(edit.symbol) ELSE edit.hint
      BY DEF CalleeFile
    <3>6. CalleeFile(edit.hint, edit.symbol) # NoHint
      BY <1>1, IndexesAssumption DEF CalleeFile, FileOfSymbol, EditInv, SymbolResolved
    <3> QED BY <1>1, <2>1, <2>3, <3>1, <3>4, <3>5, <3>6
            DEF MovingEdit, EditInv, CallersRead, DefinitionRead, Hinted
  <2>6. ASSUME edit'.steady
        PROVE  /\ Matches(index.symbols, edit.hint) = {edit.symbol}
               /\ callers \in Some(CallersForSymbol(edit.symbol, OnlyOne))
               /\ edit.callees.at = "risk" \/ callees \in Some(Callees(edit.symbol))
    BY <1>1, <2>1, <2>2, <2>3, <2>6 DEF EditInv, SymbolResolved, Meant, CallersRead, CalleesRead
  <2>7. SteadyEdit'
    <3>1. /\ (Matches(index.symbols, edit.hint))' = Matches(index.symbols, edit'.hint)
          /\ (CallersForSymbol(edit.symbol, Cardinality(NamedIn(index.symbols, Target)) = 1))'
             = CallersForSymbol(edit'.symbol, OnlyOne)
          /\ (Callees(edit.symbol))' = Callees(edit'.symbol)
      BY <1>1 DEF CallersForSymbol, Callees, OnlyOne
    <3>2. \A edges : (Some(edges))' = Some(edges)
      OBVIOUS
    <3>3. edit'.steady =>
            /\ (Matches(index.symbols, edit.hint))' = {edit'.symbol}
            /\ edit'.callers \in
                 (Some(CallersForSymbol(edit.symbol, Cardinality(NamedIn(index.symbols, Target)) = 1)))'
            /\ edit'.callees.risk \/ edit'.callees.edges \in (Some(Callees(edit.symbol)))'
      BY <2>3, <2>6, <3>1
    <3> QED BY <2>3, <3>3, Zenon DEF SteadyEdit
  <2> QED BY <2>4, <2>5, <2>7 DEF EditInv, EditHonest
<1> QED BY <1>3, <1>4

\* An answer before an edit is about the symbol that the request can only mean, with its
\* callers, its callees and its source (edit-context.ts); about a symbol of the name
\* even if the index is replaced between the reads.
THEOREM EditAnswersHonest == EditSpec => []EditHonest
<1>1. EditInit => EditInv
  BY DEF EditInit, EditInv, EditTyped, SymbolResolved, CallersExpected, CallersRead, DefinitionRead,
     CalleesRead, EditHonest, FieldsAt
<1>2. EditInv /\ [EditNext]_editVars => EditInv'
  <2>1. CASE UNCHANGED editVars
    BY <2>1 DEF editVars, EditInv, EditTyped, SymbolResolved, CallersExpected, CallersRead,
       DefinitionRead, CalleesRead, EditHonest, SteadyEdit, MovingEdit, Meant, OnlyOne,
       CallersForSymbol, Callees
  <2> QED BY <2>1, ReindexedKeeps, BeginsKeeps, ResolvesKeeps, CallersKeep, UnavailableKeeps,
          DefinitionKeeps, CalleesKeep, AnsweredKeeps DEF EditNext
<1>3. EditInv => EditHonest
  BY DEF EditInv
<1> QED BY <1>1, <1>2, <1>3, PTL DEF EditSpec

-----------------------------------------------------------------------------
(* The results of a search that are in a set.                               *)

\* Induction on a number up to a bound; P is the set of those for which it holds.
LEMMA InductionTo ==
  ASSUME NEW N \in Nat, NEW P, 0 \in P, \A n \in 1 .. N : n - 1 \in P => n \in P
  PROVE  \A n \in 0 .. N : n \in P
<1> DEFINE C == {n \in 0 .. N : n \notin P}
<1>1. SUFFICES ASSUME C # {} PROVE FALSE
  OBVIOUS
<1>2. C \subseteq Nat
  OBVIOUS
<1> HIDE DEF C
<1>3. PICK n \in C : \A m \in C : n <= m
  BY <1>1, <1>2, LeastNumber
<1>4. n \in 0 .. N /\ n \notin P /\ n # 0
  BY <1>3 DEF C
<1>5. n - 1 \in 0 .. N /\ n - 1 \notin C /\ n \in 1 .. N
  BY <1>3, <1>4
<1> QED BY <1>4, <1>5 DEF C

\* k is what is kept of each beginning of s, up to a place.
Keeps(k, s, S, n) ==
  /\ k \in [0 .. n -> Seq(S)]
  /\ k[0] = <<>>
  /\ \A m \in 1 .. n : k[m] = IF s[m] \in S THEN Append(k[m - 1], s[m]) ELSE k[m - 1]

\* There is such a table.
LEMMA KeepsExists ==
  ASSUME NEW s, NEW N \in Nat, NEW S
  PROVE  \E k : Keeps(k, s, S, N)
<1> DEFINE P == {n \in 0 .. N : \E k : Keeps(k, s, S, n)}
<1>1. 0 \in P
  <2> DEFINE k == [m \in 0 .. 0 |-> <<>>]
  <2>1. k \in [0 .. 0 -> Seq(S)] /\ k[0] = <<>> /\ 1 .. 0 = {}
    OBVIOUS
  <2>2. Keeps(k, s, S, 0)
    BY <2>1 DEF Keeps
  <2> QED BY <2>2
<1>2. ASSUME NEW n \in 1 .. N, n - 1 \in P PROVE n \in P
  <2>1. PICK k : Keeps(k, s, S, n - 1)
    BY <1>2
  <2>2. /\ k \in [0 .. n - 1 -> Seq(S)] /\ k[0] = <<>>
        /\ \A m \in 1 .. n - 1 : k[m] = IF s[m] \in S THEN Append(k[m - 1], s[m]) ELSE k[m - 1]
    BY <2>1 DEF Keeps
  <2> DEFINE next == IF s[n] \in S THEN Append(k[n - 1], s[n]) ELSE k[n - 1]
             u == [m \in 0 .. n |-> IF m = n THEN next ELSE k[m]]
  <2>3. next \in Seq(S)
    <3>1. k[n - 1] \in Seq(S)
      BY <2>2
    <3> QED BY <3>1
  <2> HIDE DEF next
  <2>4. u \in [0 .. n -> Seq(S)]
    BY <2>2, <2>3
  <2>5. /\ u[0] = <<>> /\ u[n] = next
        /\ \A m \in 0 .. n - 1 : u[m] = k[m]
    BY <2>2
  <2> HIDE DEF u
  <2>6. \A m \in 1 .. n : u[m] = IF s[m] \in S THEN Append(u[m - 1], s[m]) ELSE u[m - 1]
    <3>1. SUFFICES ASSUME NEW m \in 1 .. n
                   PROVE  u[m] = IF s[m] \in S THEN Append(u[m - 1], s[m]) ELSE u[m - 1]
      OBVIOUS
    <3>2. CASE m = n
      BY <2>5, <3>2 DEF next
    <3>3. CASE m # n
      <4>1. m \in 1 .. n - 1 /\ m \in 0 .. n - 1 /\ m - 1 \in 0 .. n - 1
        BY <3>3
      <4> QED BY <2>2, <2>5, <4>1
    <3> QED BY <3>2, <3>3
  <2>7. Keeps(u, s, S, n)
    BY <2>4, <2>5, <2>6 DEF Keeps
  <2> QED BY <2>7
<1> HIDE DEF P
<1>3. N \in P
  BY <1>1, <1>2, InductionTo
<1> QED BY <1>3 DEF P

\* And only one, as far as two of them go.
LEMMA KeepsAgree ==
  ASSUME NEW s, NEW r, NEW S, NEW n \in Nat, NEW N \in Nat, n <= N, NEW k, NEW u,
         Keeps(k, r, S, n), Keeps(u, s, S, N), \A m \in 1 .. n : r[m] = s[m]
  PROVE  \A m \in 0 .. n : k[m] = u[m]
<1> DEFINE P == {m \in 0 .. n : k[m] = u[m]}
<1>1. 0 \in P
  BY DEF Keeps
<1>2. ASSUME NEW m \in 1 .. n, m - 1 \in P PROVE m \in P
  <2>1. m \in 1 .. N /\ r[m] = s[m]
    OBVIOUS
  <2>2. k[m - 1] = u[m - 1]
    BY <1>2
  <2>3. /\ k[m] = IF r[m] \in S THEN Append(k[m - 1], r[m]) ELSE k[m - 1]
        /\ u[m] = IF s[m] \in S THEN Append(u[m - 1], s[m]) ELSE u[m - 1]
    BY <2>1 DEF Keeps
  <2>4. k[m] = u[m]
    BY <2>1, <2>2, <2>3
  <2> QED BY <2>4
<1> HIDE DEF P
<1>3. \A m \in 0 .. n : m \in P
  BY <1>1, <1>2, InductionTo
<1> QED BY <1>3 DEF P

\* Among gives the last of the table.
LEMMA AmongIs ==
  ASSUME NEW s, NEW N \in Nat, N = Len(s), NEW S
  PROVE  \E k : Keeps(k, s, S, N) /\ Among(s, S) = k[N]
<1> DEFINE U == CHOOSE u : u = [n \in 0 .. N |->
                  IF n = 0 THEN <<>>
                  ELSE IF s[n] \in S THEN Append(u[n - 1], s[n]) ELSE u[n - 1]]
<1>1. Among(s, S) = U[N]
  BY DEF Among
<1> HIDE DEF U
<1>2. PICK k : Keeps(k, s, S, N)
  BY KeepsExists
<1>3. k = [n \in 0 .. N |->
             IF n = 0 THEN <<>>
             ELSE IF s[n] \in S THEN Append(k[n - 1], s[n]) ELSE k[n - 1]]
  <2>1. k = [n \in 0 .. N |-> k[n]]
    BY <1>2 DEF Keeps
  <2>2. ASSUME NEW n \in 0 .. N
        PROVE  k[n] = IF n = 0 THEN <<>>
                      ELSE IF s[n] \in S THEN Append(k[n - 1], s[n]) ELSE k[n - 1]
    <3>1. CASE n = 0
      BY <1>2, <3>1 DEF Keeps
    <3>2. CASE n # 0
      <4>1. n \in 1 .. N
        BY <3>2
      <4> QED BY <1>2, <3>2, <4>1 DEF Keeps
    <3> QED BY <3>1, <3>2
  <2> QED BY <2>1, <2>2
<1>4. U = [n \in 0 .. N |->
             IF n = 0 THEN <<>>
             ELSE IF s[n] \in S THEN Append(U[n - 1], s[n]) ELSE U[n - 1]]
  BY <1>3 DEF U
<1>5. /\ U = [n \in 0 .. N |-> U[n]] /\ U[0] = <<>>
      /\ \A n \in 1 .. N : U[n] = IF s[n] \in S THEN Append(U[n - 1], s[n]) ELSE U[n - 1]
  <2>1. \A n \in 0 .. N : U[n] = IF n = 0 THEN <<>>
                                  ELSE IF s[n] \in S THEN Append(U[n - 1], s[n]) ELSE U[n - 1]
    BY <1>4
  <2>2. U = [n \in 0 .. N |-> U[n]]
    BY <1>4
  <2>3. 0 \in 0 .. N /\ \A n \in 1 .. N : n \in 0 .. N /\ n # 0
    OBVIOUS
  <2> QED BY <2>1, <2>2, <2>3
<1>6. \A n \in 0 .. N : U[n] \in Seq(S)
  <2> DEFINE P == {n \in 0 .. N : U[n] \in Seq(S)}
  <2>1. 0 \in P
    BY <1>5, EmptySeq
  <2>2. ASSUME NEW n \in 1 .. N, n - 1 \in P PROVE n \in P
    <3>1. U[n - 1] \in Seq(S) /\ U[n] = IF s[n] \in S THEN Append(U[n - 1], s[n]) ELSE U[n - 1]
      BY <1>5, <2>2
    <3>2. U[n] \in Seq(S)
      <4>1. CASE s[n] \in S
        BY <3>1, <4>1, AppendProperties
      <4>2. CASE s[n] \notin S
        BY <3>1, <4>2
      <4> QED BY <4>1, <4>2
    <3> QED BY <3>2
  <2> HIDE DEF P
  <2>3. \A n \in 0 .. N : n \in P
    BY <2>1, <2>2, InductionTo
  <2> QED BY <2>3 DEF P
<1>7. Keeps(U, s, S, N)
  <2>1. U \in [0 .. N -> Seq(S)]
    BY <1>5, <1>6
  <2> QED BY <1>5, <2>1 DEF Keeps
<1> QED BY <1>1, <1>7

\* What is kept are members of s, in the set, each once if s has each once.
LEMMA KeepsFrom ==
  ASSUME NEW s, NEW N \in Nat, NEW S, NEW k, Keeps(k, s, S, N)
  PROVE  /\ k[N] \in Seq(S)
         /\ \A i \in 1 .. Len(k[N]) : \E j \in 1 .. N : k[N][i] = s[j]
         /\ (\A a, b \in 1 .. N : s[a] = s[b] => a = b) =>
              \A a, b \in 1 .. Len(k[N]) : k[N][a] = k[N][b] => a = b
<1> DEFINE From(n) == \A i \in 1 .. Len(k[n]) : \E j \in 1 .. n : k[n][i] = s[j]
           Once(n) == \A a, b \in 1 .. Len(k[n]) : k[n][a] = k[n][b] => a = b
           P == {n \in 0 .. N : From(n) /\ ((\A a, b \in 1 .. N : s[a] = s[b] => a = b) => Once(n))}
<1>1. \A n \in 0 .. N : k[n] \in Seq(S)
  BY DEF Keeps
<1>2. 0 \in P
  <2>1. k[0] = <<>>
    BY DEF Keeps
  <2> QED BY <2>1
<1>3. ASSUME NEW n \in 1 .. N, n - 1 \in P PROVE n \in P
  <2>1. k[n] = IF s[n] \in S THEN Append(k[n - 1], s[n]) ELSE k[n - 1]
    BY DEF Keeps
  <2>2. k[n - 1] \in Seq(S) /\ Len(k[n - 1]) \in Nat
    BY <1>1
  <2>3. CASE s[n] \notin S
    <3>1. k[n] = k[n - 1]
      BY <2>1, <2>3
    <3>2. From(n)
      BY <1>3, <3>1
    <3>3. (\A a, b \in 1 .. N : s[a] = s[b] => a = b) => Once(n)
      BY <1>3, <3>1
    <3> QED BY <3>2, <3>3
  <2>4. CASE s[n] \in S
    <3>1. /\ Len(k[n]) = Len(k[n - 1]) + 1 /\ k[n][Len(k[n])] = s[n]
          /\ \A i \in 1 .. Len(k[n - 1]) : k[n][i] = k[n - 1][i]
      BY <2>1, <2>2, <2>4, AppendProperties
    <3>2. From(n)
      <4>1. SUFFICES ASSUME NEW i \in 1 .. Len(k[n]) PROVE \E j \in 1 .. n : k[n][i] = s[j]
        OBVIOUS
      <4>2. CASE i = Len(k[n])
        BY <3>1, <4>2
      <4>3. CASE i # Len(k[n])
        <5>1. i \in 1 .. Len(k[n - 1])
          BY <2>2, <3>1, <4>3
        <5>2. PICK j \in 1 .. n - 1 : k[n - 1][i] = s[j]
          BY <1>3, <5>1
        <5> QED BY <3>1, <5>1, <5>2
      <4> QED BY <4>2, <4>3
    <3>3. ASSUME \A a, b \in 1 .. N : s[a] = s[b] => a = b PROVE Once(n)
      <4>1. ASSUME NEW i \in 1 .. Len(k[n - 1]) PROVE k[n - 1][i] # s[n]
        <5>1. PICK j \in 1 .. n - 1 : k[n - 1][i] = s[j]
          BY <1>3, <4>1
        <5>2. j \in 1 .. N /\ j # n
          OBVIOUS
        <5> QED BY <3>3, <5>1, <5>2
      <4>2. \A a \in 1 .. Len(k[n]) : a = Len(k[n]) \/ a \in 1 .. Len(k[n - 1])
        BY <2>2, <3>1
      <4>3. \A a, b \in 1 .. Len(k[n - 1]) : k[n - 1][a] = k[n - 1][b] => a = b
        BY <1>3, <3>3
      <4> QED BY <3>1, <4>1, <4>2, <4>3
    <3> QED BY <3>2, <3>3
  <2> QED BY <2>3, <2>4
<1> HIDE DEF P
<1>4. N \in P
  BY <1>2, <1>3, InductionTo
<1> QED BY <1>1, <1>4 DEF P

\* What is kept of a beginning is the beginning of what is kept.
LEMMA KeepsGrow ==
  ASSUME NEW s, NEW N \in Nat, NEW S, NEW k, Keeps(k, s, S, N), NEW n \in 0 .. N
  PROVE  /\ Len(k[n]) <= Len(k[N])
         /\ \A i \in 1 .. Len(k[n]) : k[n][i] = k[N][i]
<1> DEFINE P == {m \in 0 .. N : n <= m => /\ Len(k[n]) <= Len(k[m])
                                          /\ \A i \in 1 .. Len(k[n]) : k[n][i] = k[m][i]}
<1>1. \A m \in 0 .. N : k[m] \in Seq(S) /\ Len(k[m]) \in Nat
  BY DEF Keeps
<1>2. 0 \in P
  <2>1. n <= 0 => n = 0
    OBVIOUS
  <2> QED BY <1>1, <2>1
<1>3. ASSUME NEW m \in 1 .. N, m - 1 \in P PROVE m \in P
  <2>1. CASE n = m
    BY <1>1, <2>1
  <2>2. CASE n < m
    <3>1. /\ Len(k[n]) <= Len(k[m - 1])
          /\ \A i \in 1 .. Len(k[n]) : k[n][i] = k[m - 1][i]
      BY <1>3, <2>2
    <3>2. k[m] = IF s[m] \in S THEN Append(k[m - 1], s[m]) ELSE k[m - 1]
      BY DEF Keeps
    <3>3. k[m - 1] \in Seq(S) /\ Len(k[m - 1]) \in Nat /\ Len(k[n]) \in Nat
      BY <1>1
    <3>4. /\ Len(k[m - 1]) <= Len(k[m])
          /\ \A i \in 1 .. Len(k[m - 1]) : k[m - 1][i] = k[m][i]
      <4>1. CASE s[m] \in S
        BY <3>2, <3>3, <4>1, AppendProperties
      <4>2. CASE s[m] \notin S
        BY <3>2, <3>3, <4>2
      <4> QED BY <4>1, <4>2
    <3>5. \A i \in 1 .. Len(k[n]) : i \in 1 .. Len(k[m - 1])
      BY <3>1, <3>3
    <3>6. Len(k[m]) \in Nat
      BY <1>1
    <3> QED BY <3>1, <3>3, <3>4, <3>5, <3>6
  <2>3. CASE ~(n <= m)
    BY <2>3
  <2> QED BY <2>1, <2>2, <2>3
<1> HIDE DEF P
<1>4. N \in P
  BY <1>2, <1>3, InductionTo
<1> QED BY <1>4 DEF P

\* Everything is kept if everything is in the set.
LEMMA KeepsAll ==
  ASSUME NEW s, NEW N \in Nat, NEW S, NEW k, Keeps(k, s, S, N), \A i \in 1 .. N : s[i] \in S
  PROVE  Len(k[N]) = N /\ \A i \in 1 .. N : k[N][i] = s[i]
<1> DEFINE P == {n \in 0 .. N : Len(k[n]) = n /\ \A i \in 1 .. n : k[n][i] = s[i]}
<1>1. \A m \in 0 .. N : k[m] \in Seq(S)
  BY DEF Keeps
<1>2. 0 \in P
  BY DEF Keeps
<1>3. ASSUME NEW n \in 1 .. N, n - 1 \in P PROVE n \in P
  <2>1. k[n] = Append(k[n - 1], s[n])
    BY DEF Keeps
  <2>2. k[n - 1] \in Seq(S) /\ Len(k[n - 1]) = n - 1 /\ \A i \in 1 .. n - 1 : k[n - 1][i] = s[i]
    BY <1>1, <1>3
  <2>3. /\ Len(k[n]) = n /\ k[n][n] = s[n]
        /\ \A i \in 1 .. n - 1 : k[n][i] = k[n - 1][i]
    BY <2>1, <2>2, AppendProperties
  <2> QED BY <2>2, <2>3
<1> HIDE DEF P
<1>4. N \in P
  BY <1>2, <1>3, InductionTo
<1> QED BY <1>4 DEF P

-----------------------------------------------------------------------------
(* What Among gives.                                                        *)

\* Members of the sequence, each once if it has each once.
LEMMA AmongFrom ==
  ASSUME NEW X, NEW s \in Seq(X), NEW S
  PROVE  /\ Among(s, S) \in Seq(S) /\ Among(s, S) \in Seq(X)
         /\ \A i \in DOMAIN Among(s, S) : \E j \in DOMAIN s : Among(s, S)[i] = s[j]
         /\ IsInjective(s) => IsInjective(Among(s, S))
<1> DEFINE N == Len(s)
<1>1. N \in Nat /\ DOMAIN s = 1 .. N
  OBVIOUS
<1> HIDE DEF N
<1>2. PICK k : Keeps(k, s, S, N) /\ Among(s, S) = k[N]
  BY <1>1, AmongIs DEF N
<1>3. /\ k[N] \in Seq(S)
      /\ \A i \in 1 .. Len(k[N]) : \E j \in 1 .. N : k[N][i] = s[j]
      /\ (\A a, b \in 1 .. N : s[a] = s[b] => a = b) =>
              \A a, b \in 1 .. Len(k[N]) : k[N][a] = k[N][b] => a = b
  BY <1>1, <1>2, KeepsFrom
<1>4. DOMAIN k[N] = 1 .. Len(k[N]) /\ Len(k[N]) \in Nat
  BY <1>3
<1>5. k[N] \in Seq(X)
  <2>1. \A i \in 1 .. Len(k[N]) : k[N][i] \in X
    BY <1>1, <1>3
  <2> QED BY <1>3, <1>4, <2>1, SeqDef
<1> QED BY <1>1, <1>2, <1>3, <1>4, <1>5 DEF IsInjective

\* What a beginning gives is a beginning of what the whole gives.
LEMMA AmongCut ==
  ASSUME NEW X, NEW s \in Seq(X), NEW n \in Nat, NEW S
  PROVE  /\ Cut(s, n) \in Seq(X) /\ Len(Cut(s, n)) = SmallerOf(n, Len(s))
         /\ \A i \in DOMAIN Cut(s, n) : i \in DOMAIN s /\ Cut(s, n)[i] = s[i]
         /\ Len(Among(Cut(s, n), S)) <= Len(Among(s, S))
         /\ \A i \in 1 .. Len(Among(Cut(s, n), S)) : Among(Cut(s, n), S)[i] = Among(s, S)[i]
<1> DEFINE N == Len(s)
           m == SmallerOf(n, N)
           r == Cut(s, n)
<1>1. N \in Nat /\ DOMAIN s = 1 .. N /\ m \in Nat /\ m <= N
  BY DEF SmallerOf
<1>2. r = SubSeq(s, 1, m)
  BY DEF Cut
<1> HIDE DEF N, m, r
<1>3. r \in Seq(X) /\ Len(r) = m /\ DOMAIN r = 1 .. m /\ \A i \in 1 .. m : r[i] = s[i]
  <2>1. \A i \in 1 .. m : s[i] \in X
    BY <1>1
  <2> QED BY <1>1, <1>2, <2>1, SubSeqProperties DEF N
<1>4. PICK k : Keeps(k, r, S, m) /\ Among(r, S) = k[m]
  <2>1. m \in Nat /\ m = Len(r)
    BY <1>1, <1>3
  <2>2. \E k : Keeps(k, r, S, m) /\ Among(r, S) = k[m]
    BY ONLY <2>1, AmongIs
  <2> QED BY <2>2
<1>5. PICK u : Keeps(u, s, S, N) /\ Among(s, S) = u[N]
  BY <1>1, AmongIs DEF N
<1>6. k[m] = u[m]
  <2>1. Keeps(k, r, S, m) /\ Keeps(u, s, S, N) /\ m \in Nat /\ N \in Nat /\ m <= N
    BY <1>1, <1>4, <1>5
  <2>2. \A i \in 1 .. m : r[i] = s[i]
    BY <1>3
  <2>3. \A i \in 0 .. m : k[i] = u[i]
    BY <2>1, <2>2, KeepsAgree
  <2> QED BY <1>1, <2>3
<1>7. Len(u[m]) <= Len(u[N]) /\ \A i \in 1 .. Len(u[m]) : u[m][i] = u[N][i]
  <2>1. N \in Nat /\ Keeps(u, s, S, N) /\ m \in 0 .. N
    BY <1>1, <1>5
  <2>2. Len(u[m]) <= Len(u[N])
    BY ONLY <2>1, KeepsGrow
  <2>3. ASSUME NEW i \in 1 .. Len(u[m]) PROVE u[m][i] = u[N][i]
    BY ONLY <2>1, <2>3, KeepsGrow
  <2> QED BY <2>2, <2>3
<1> QED BY <1>1, <1>3, <1>4, <1>5, <1>6, <1>7 DEF r, m, N

\* All of it, if it is in the set.
LEMMA AmongAll ==
  ASSUME NEW X, NEW s \in Seq(X), NEW S, \A i \in DOMAIN s : s[i] \in S
  PROVE  Among(s, S) = s
<1> DEFINE N == Len(s)
<1>1. N \in Nat /\ DOMAIN s = 1 .. N
  OBVIOUS
<1> HIDE DEF N
<1>2. PICK k : Keeps(k, s, S, N) /\ Among(s, S) = k[N]
  BY <1>1, AmongIs DEF N
<1>3. Len(k[N]) = N /\ \A i \in 1 .. N : k[N][i] = s[i]
  BY <1>1, <1>2, KeepsAll
<1>4. k[N] \in Seq(S)
  BY <1>1, <1>2 DEF Keeps
<1>5. s \in Seq(S)
  BY <1>1, SeqDef
<1> QED BY <1>1, <1>2, <1>3, <1>4, <1>5, SeqEqual DEF N

\* A sequence that has no member twice is not longer than a set it is from.
LEMMA OnceInSet ==
  ASSUME NEW s, NEW X, s \in Seq(X), IsInjective(s), IsFiniteSet(X)
  PROVE  Len(s) <= Cardinality(X) /\ Len(s) \in Nat /\ Cardinality(X) \in Nat
<1>1. Len(s) \in Nat /\ DOMAIN s = 1 .. Len(s) /\ s \in [1 .. Len(s) -> X]
  OBVIOUS
<1>2. s \in Injection(1 .. Len(s), X)
  BY <1>1 DEF Injection
<1>3. IsFiniteSet(1 .. Len(s)) /\ Cardinality(1 .. Len(s)) = Len(s)
  BY <1>1, FS_Interval
<1>4. Cardinality(1 .. Len(s)) <= Cardinality(X)
  BY <1>2, <1>3, FS_Injection
<1> QED BY <1>1, <1>3, <1>4, FS_CardinalityType

-----------------------------------------------------------------------------
(* The doubled limits.                                                      *)

\* The search of a store that is repeated.
Repeated(found, limit, total, allowed) == Prefiltered(found, limit, total, allowed, TRUE)

\* From every limit the search ends at one at which it stops: by induction on how much
\* is left to the size of the store.
LEMMA PrefilteredIs ==
  ASSUME NEW found, NEW limit \in Nat, NEW total \in Nat, NEW allowed, NEW target,
         target = SmallerOf(limit, Cardinality(allowed \cap FoundChunk)),
         target # 0, total # 0
  PROVE  \E n \in 0 .. total :
           /\ Stops(found[n], n, total, allowed, target)
           /\ Repeated(found, limit, total, allowed) = Among(found[n], allowed)
<1> DEFINE Halts(n) == Stops(found[n], n, total, allowed, target) \/ Doubled(n, total) = n
           Body(u, n) == IF Halts(n) THEN Among(found[n], allowed) ELSE u[Doubled(n, total)]
           U == CHOOSE u : u = [n \in 0 .. total |-> Body(u, n)]
<1>1. Repeated(found, limit, total, allowed) = U[SmallerOf(limit, total)]
  BY Zenon DEF Repeated, Prefiltered
<1>2. SmallerOf(limit, total) \in 0 .. total
  BY DEF SmallerOf
<1>3. \A n \in 0 .. total : /\ Halts(n) \/ (Doubled(n, total) \in 0 .. total /\ n < Doubled(n, total))
                            /\ Halts(n) => Stops(found[n], n, total, allowed, target)
  <2>1. SUFFICES ASSUME NEW n \in 0 .. total
                 PROVE  /\ Halts(n) \/ (Doubled(n, total) \in 0 .. total /\ n < Doubled(n, total))
                        /\ Doubled(n, total) = n => Stops(found[n], n, total, allowed, target)
    OBVIOUS
  <2>2. Doubled(n, total) = n => n >= total
    BY DEF Doubled, SmallerOf
  <2>3. n < total => Doubled(n, total) \in 0 .. total /\ n < Doubled(n, total)
    BY DEF Doubled, SmallerOf
  <2>4. n >= total => Stops(found[n], n, total, allowed, target)
    BY DEF Stops
  <2> QED BY <2>2, <2>3, <2>4
<1> HIDE DEF U, Halts
\* The limit at which the search from each limit stops.
<1>4. ASSUME NEW u, u = [n \in 0 .. total |-> Body(u, n)]
      PROVE  \A n \in 0 .. total : \E m \in 0 .. total : Halts(m) /\ u[n] = Among(found[m], allowed)
  <2> DEFINE P == {d \in 0 .. total : \A n \in 0 .. total : total - n <= d =>
                     \E m \in 0 .. total : Halts(m) /\ u[n] = Among(found[m], allowed)}
  <2>1. \A n \in 0 .. total : u[n] = Body(u, n)
    BY <1>4
  <2>2. 0 \in P
    <3>1. SUFFICES ASSUME NEW n \in 0 .. total, total - n <= 0
                   PROVE  \E m \in 0 .. total : Halts(m) /\ u[n] = Among(found[m], allowed)
      OBVIOUS
    <3>2. n = total
      BY <3>1
    <3>3. Halts(n)
      BY <1>3, <3>2
    <3> QED BY <2>1, <3>3
  <2>3. ASSUME NEW d \in 1 .. total, d - 1 \in P PROVE d \in P
    <3>1. SUFFICES ASSUME NEW n \in 0 .. total, total - n <= d
                   PROVE  \E m \in 0 .. total : Halts(m) /\ u[n] = Among(found[m], allowed)
      OBVIOUS
    <3>2. CASE Halts(n)
      BY <2>1, <3>2
    <3>3. CASE ~Halts(n)
      <4>1. u[n] = u[Doubled(n, total)]
        BY <2>1, <3>3
      <4>2. Doubled(n, total) \in 0 .. total /\ total - Doubled(n, total) <= d - 1
        BY <1>3, <3>1, <3>3
      <4> QED BY <2>3, <4>1, <4>2
    <3> QED BY <3>2, <3>3
  <2> HIDE DEF P
  <2>4. total \in P
    BY <2>2, <2>3, InductionTo
  <2>5. \A n \in 0 .. total : total - n <= total
    OBVIOUS
  <2> QED BY <2>4, <2>5 DEF P
<1>5. \E u : u = [n \in 0 .. total |-> Body(u, n)]
  <2> DEFINE Ends(d) == {w \in [0 .. total -> 0 .. total] :
                           \A n \in 0 .. total : total - n <= d =>
                             Halts(w[n]) /\ w[n] = IF Halts(n) THEN n ELSE w[Doubled(n, total)]}
             P == {d \in 0 .. total : Ends(d) # {}}
  <2>1. 0 \in P
    <3> DEFINE w == [n \in 0 .. total |-> total]
    <3>1. Halts(total)
      BY <1>3
    <3>2. \A n \in 0 .. total : total - n <= 0 => n = total
      OBVIOUS
    <3>3. w \in Ends(0)
      BY <3>1, <3>2
    <3> QED BY <3>3
  <2>2. ASSUME NEW d \in 1 .. total, d - 1 \in P PROVE d \in P
    <3>1. PICK v \in Ends(d - 1) : TRUE
      BY <2>2
    <3> DEFINE now == total - d
               w == [v EXCEPT ![now] = IF Halts(now) THEN now ELSE v[Doubled(now, total)]]
    <3>2. now \in 0 .. total /\ v \in [0 .. total -> 0 .. total]
      BY <3>1
    <3>3. /\ \A n \in 0 .. total : n # now => w[n] = v[n]
          /\ w[now] = IF Halts(now) THEN now ELSE v[Doubled(now, total)]
          /\ w \in [0 .. total -> 0 .. total]
      BY <1>3, <3>2
    <3> HIDE DEF w
    <3>4. ASSUME NEW n \in 0 .. total, total - n <= d
          PROVE  Halts(w[n]) /\ w[n] = IF Halts(n) THEN n ELSE w[Doubled(n, total)]
      <4>1. CASE Halts(n)
        <5>1. CASE n = now
          BY <3>3, <4>1, <5>1
        <5>2. CASE n # now
          <6>1. total - n <= d - 1
            BY <3>4, <5>2
          <6> QED BY <3>1, <3>3, <4>1, <5>2, <6>1
        <5> QED BY <5>1, <5>2
      <4>2. CASE ~Halts(n)
        <5>1. Doubled(n, total) \in 0 .. total /\ n < Doubled(n, total)
          <6>1. n \in 0 .. total
            BY <3>4
          <6> QED BY ONLY <1>3, <6>1, <4>2
        <5>2. total - Doubled(n, total) <= d - 1 /\ Doubled(n, total) # now
          <6> DEFINE e == Doubled(n, total)
          <6>1. e \in 0 .. total /\ n < e
            BY <5>1
          <6> HIDE DEF e
          <6>2. total - e <= d - 1 /\ e # total - d
            BY <6>1, <3>4, <2>2
          <6> QED BY <6>2 DEF e
        <5>3. w[Doubled(n, total)] = v[Doubled(n, total)] /\ Halts(v[Doubled(n, total)])
          BY <3>1, <3>3, <5>1, <5>2
        <5>4. CASE n = now
          BY <3>3, <4>2, <5>3, <5>4
        <5>5. CASE n # now
          <6>1. total - n <= d - 1
            BY <3>4, <5>5
          <6>2. v[n] = v[Doubled(n, total)]
            BY <3>1, <4>2, <6>1
          <6> QED BY <3>3, <4>2, <5>3, <5>5, <6>2
        <5> QED BY <5>4, <5>5
      <4> QED BY <4>1, <4>2
    <3>5. w \in Ends(d)
      BY <3>3, <3>4
    <3> HIDE DEF Ends
    <3>6. Ends(d) # {} /\ d \in 0 .. total
      BY <3>5
    <3> QED BY <3>6
  <2> HIDE DEF P
  <2>3. total \in P
    BY <2>1, <2>2, InductionTo
  <2>4. PICK w \in Ends(total) : TRUE
    BY <2>3 DEF P
  <2> DEFINE u == [n \in 0 .. total |-> Among(found[w[n]], allowed)]
  <2>5. ASSUME NEW n \in 0 .. total PROVE Among(found[w[n]], allowed) = Body(u, n)
    <3>1. total - n <= total
      OBVIOUS
    <3>2. w[n] = IF Halts(n) THEN n ELSE w[Doubled(n, total)]
      BY <2>4, <3>1
    <3>3. CASE Halts(n)
      BY <3>2, <3>3
    <3>4. CASE ~Halts(n)
      <4>1. Doubled(n, total) \in 0 .. total
        BY <1>3, <3>4
      <4> QED BY <3>2, <3>4, <4>1
    <3> QED BY <3>3, <3>4
  <2>6. u = [n \in 0 .. total |-> Body(u, n)]
    BY <2>5
  <2> QED BY <2>6
<1>6. U = [n \in 0 .. total |-> Body(U, n)]
  BY <1>5 DEF U
<1>7. \A n \in 0 .. total : \E m \in 0 .. total : Halts(m) /\ U[n] = Among(found[m], allowed)
  BY <1>4, <1>6
<1>8. PICK m \in 0 .. total : Halts(m) /\ U[SmallerOf(limit, total)] = Among(found[m], allowed)
  BY <1>2, <1>7
<1> QED BY <1>1, <1>3, <1>8

\* What comes out of a search of a store came out of it for some limit.
LEMMA PrefilteredFrom ==
  ASSUME NEW found, NEW limit \in Nat, NEW total \in Nat, NEW allowed, NEW prefilter \in BOOLEAN,
         NEW X, found[limit] \in Seq(X), \A n \in 0 .. total : found[n] \in Seq(X)
  PROVE  /\ Prefiltered(found, limit, total, allowed, prefilter) \in Seq(X)
         /\ prefilter => Prefiltered(found, limit, total, allowed, prefilter) \in Seq(allowed)
<1> DEFINE target == SmallerOf(limit, Cardinality(allowed \cap FoundChunk))
<1>1. CASE ~prefilter
  BY <1>1 DEF Prefiltered
<1>2. CASE prefilter /\ (target = 0 \/ total = 0)
  <2>1. Prefiltered(found, limit, total, allowed, prefilter) = <<>>
    BY <1>2 DEF Prefiltered
  <2> QED BY <2>1
<1>3. CASE prefilter /\ target # 0 /\ total # 0
  <2>1. target = SmallerOf(limit, Cardinality(allowed \cap FoundChunk))
    OBVIOUS
  <2> HIDE DEF target
  <2>2. target # 0 /\ total # 0
    BY ONLY <1>3
  <2>3. \E n \in 0 .. total :
          /\ Stops(found[n], n, total, allowed, target)
          /\ Repeated(found, limit, total, allowed) = Among(found[n], allowed)
    BY <2>1, <2>2, PrefilteredIs
  <2>4. PICK n \in 0 .. total :
          Repeated(found, limit, total, allowed) = Among(found[n], allowed)
    BY ONLY <2>3
  <2>5. found[n] \in Seq(X)
    OBVIOUS
  <2>6. Among(found[n], allowed) \in Seq(X) /\ Among(found[n], allowed) \in Seq(allowed)
    BY <2>5, AmongFrom
  <2>7. Prefiltered(found, limit, total, allowed, prefilter) = Repeated(found, limit, total, allowed)
    BY <1>3 DEF Repeated, Prefiltered
  <2> QED BY <2>4, <2>6, <2>7
<1> QED BY <1>1, <1>2, <1>3

\* It is a beginning of what the whole order has of the branch, and long enough.
LEMMA PrefilteredBest ==
  ASSUME NEW order \in Seq(FoundChunk), IsInjective(order),
         NEW total \in Nat, Len(order) <= total,
         NEW allowed, NEW found, \A n \in 0 .. total : found[n] = Cut(order, n),
         NEW R, R = Repeated(found, Overfetch, total, allowed),
         NEW ref, ref = Among(order, allowed)
  PROVE  /\ R \in Seq(FoundChunk)
         /\ Len(R) <= Len(ref) /\ \A i \in 1 .. Len(R) : R[i] = ref[i]
         /\ Len(R) >= SmallerOf(Overfetch, Len(ref))
<1> DEFINE target == SmallerOf(Overfetch, Cardinality(allowed \cap FoundChunk))
<1>1. Overfetch \in Nat /\ IsFiniteSet(allowed \cap FoundChunk) /\ Len(order) \in Nat
  BY SearchAssumption, FS_Subset
<1>2. /\ ref \in Seq(allowed) /\ ref \in Seq(FoundChunk) /\ IsInjective(ref)
      /\ \A i \in DOMAIN ref : \E j \in DOMAIN order : ref[i] = order[j]
  BY AmongFrom
<1>3. ref \in Seq(allowed \cap FoundChunk)
  <2>1. \A i \in 1 .. Len(ref) : ref[i] \in allowed \cap FoundChunk
    BY <1>2
  <2>2. Len(ref) \in Nat /\ ref = [i \in 1 .. Len(ref) |-> ref[i]]
    BY <1>2
  <2> QED BY <2>1, <2>2, SeqDef
<1>4. /\ Len(ref) <= Cardinality(allowed \cap FoundChunk) /\ Len(ref) \in Nat
      /\ Cardinality(allowed \cap FoundChunk) \in Nat
  BY <1>1, <1>2, <1>3, OnceInSet
<1>5. CASE target = 0 \/ total = 0
  <2>1. R = <<>>
    BY <1>5 DEF Repeated, Prefiltered
  <2>2. Len(R) = 0
    BY ONLY <2>1
  <2>3. Len(order) = 0 => Len(ref) = 0
    <3>1. Len(order) = 0 => DOMAIN order = {}
      BY ONLY order \in Seq(FoundChunk)
    <3>2. DOMAIN ref = 1 .. Len(ref)
      BY ONLY <1>2
    <3> QED BY ONLY <1>2, <1>4, <3>1, <3>2
  <2>4. SmallerOf(Overfetch, Len(ref)) = 0
    BY <1>1, <1>4, <1>5, <2>3 DEF SmallerOf
  <2>5. R \in Seq(FoundChunk)
    BY ONLY <2>1
  <2> QED BY ONLY <1>4, <2>2, <2>4, <2>5
<1>6. CASE target # 0 /\ total # 0
  <2>1. target = SmallerOf(Overfetch, Cardinality(allowed \cap FoundChunk))
    OBVIOUS
  <2> HIDE DEF target
  <2>2. target # 0 /\ total # 0
    BY ONLY <1>6
  <2>3. \E n \in 0 .. total :
          /\ Stops(found[n], n, total, allowed, target)
          /\ Repeated(found, Overfetch, total, allowed) = Among(found[n], allowed)
    BY <1>1, <2>1, <2>2, PrefilteredIs
  <2>4. PICK n \in 0 .. total : Stops(found[n], n, total, allowed, target) /\ R = Among(found[n], allowed)
    BY ONLY <2>3, R = Repeated(found, Overfetch, total, allowed)
  <2>5. found[n] = Cut(order, n)
    OBVIOUS
  <2>6. n \in Nat /\ order \in Seq(FoundChunk)
    OBVIOUS
  <2>7. Len(Cut(order, n)) = SmallerOf(n, Len(order))
    BY <2>6, AmongCut
  <2>8. Len(Among(Cut(order, n), allowed)) <= Len(Among(order, allowed))
    BY <2>6, AmongCut
  <2>9. \A i \in 1 .. Len(Among(Cut(order, n), allowed)) :
           Among(Cut(order, n), allowed)[i] = Among(order, allowed)[i]
    BY ONLY <2>6, AmongCut, SMT
  <2>10. /\ Len(R) <= Len(ref) /\ \A i \in 1 .. Len(R) : R[i] = ref[i]
        /\ Len(Cut(order, n)) = SmallerOf(n, Len(order))
    BY ONLY <2>4, <2>5, <2>7, <2>8, <2>9, ref = Among(order, allowed)
  <2>11. Cut(order, n) \in Seq(FoundChunk)
    BY <2>6, AmongCut
  <2>12. R \in Seq(FoundChunk)
    BY <2>4, <2>5, <2>11, AmongFrom
  <2>13. CASE n >= Len(order)
    <3>1. Cut(order, n) = order
      BY ONLY <1>1, <2>13, n \in Nat, order \in Seq(FoundChunk) DEF Cut, SmallerOf
    <3>2. R = ref
      BY ONLY <2>4, <2>5, <3>1, ref = Among(order, allowed)
    <3> QED BY ONLY <1>1, <1>4, <2>12, <3>2 DEF SmallerOf
  <2>14. CASE Len(R) >= target
    BY ONLY <1>1, <1>2, <1>4, <2>1, <2>10, <2>14, <2>12 DEF SmallerOf
  <2>15. Len(R) >= target \/ n >= Len(order)
    <3>1. \/ Len(R) >= target \/ Len(Cut(order, n)) < n \/ n >= total
      BY <2>4, <2>5 DEF Stops
    <3> QED BY ONLY <1>1, <2>10, <3>1, n \in Nat, total \in Nat, Len(order) <= total DEF SmallerOf
  <2> QED BY <2>10, <2>13, <2>14, <2>15, <2>12
<1> QED BY <1>5, <1>6

\* A beginning, as Best says it.
LEMMA BestIs ==
  ASSUME NEW X, NEW Y, NEW R \in Seq(X), NEW ref \in Seq(Y),
         Len(R) <= Len(ref), \A i \in 1 .. Len(R) : R[i] = ref[i],
         Len(R) >= SmallerOf(Overfetch, Len(ref))
  PROVE  Best(R, ref)
<1> DEFINE N == Len(R)
<1>1. N \in Nat /\ SubSeq(R, 1, N) = [i \in 1 .. N |-> R[i]] /\ SubSeq(ref, 1, N) = [i \in 1 .. N |-> ref[i]]
  OBVIOUS
<1>2. SubSeq(R, 1, N) = SubSeq(ref, 1, N)
  BY <1>1
<1> QED BY <1>2 DEF Best, IsPrefix

-----------------------------------------------------------------------------
(* The search.                                                              *)

SearchTypes ==
  /\ checkedOut \in FoundBranch /\ current \in FoundBranch
  /\ catalogue \in [FoundBranch -> SUBSET Item]
  /\ rows \subseteq Item /\ vectors \subseteq FoundChunk /\ keywords \subseteq FoundChunk
  /\ indexing # NoRun => /\ indexing.on \in FoundBranch
                         /\ indexing.items \subseteq Item /\ indexing.rows \subseteq Item

\* What was collected of a branch before the second pause is of that branch.
CollectedWell ==
  search.step = "reranks" => /\ search.candidates \subseteq FoundChunk
                             /\ search.scoped => search.candidates \subseteq search.allowed

SearchInv == SearchTypes /\ CollectedWell /\ AnswersScoped

\* An order of a finite set.
LEMMA OrderIs ==
  ASSUME NEW S, IsFiniteSet(S), NEW s \in SetToSeqs(S)
  PROVE  s \in Seq(S) /\ IsInjective(s) /\ Len(s) = Cardinality(S)
<1> DEFINE N == Cardinality(S)
<1>1. N \in Nat
  BY FS_CardinalityType
<1>2. s \in [1 .. N -> S] /\ \A i, j \in 1 .. N : i # j => s[i] # s[j]
  BY DEF SetToSeqs
<1> HIDE DEF N
<1>3. s \in Seq(S) /\ Len(s) = N
  BY <1>1, <1>2
<1>4. IsInjective(s)
  BY <1>2 DEF IsInjective
<1> QED BY <1>3, <1>4 DEF N

\* The sizes of the stores.
LEMMA StoreSize ==
  ASSUME NEW S, S \subseteq FoundChunk
  PROVE  /\ IsFiniteSet(S) /\ Cardinality(S) \in Nat /\ Cardinality(FoundChunk) \in Nat
         /\ Overfetch \in Nat
         /\ 0 .. Cardinality(S) \subseteq 0 .. Overfetch + Cardinality(FoundChunk) + 1
         /\ Overfetch \in 0 .. Overfetch + Cardinality(FoundChunk) + 1
<1>1. IsFiniteSet(FoundChunk) /\ Overfetch \in Nat
  BY SearchAssumption
<1>2. IsFiniteSet(S) /\ Cardinality(S) <= Cardinality(FoundChunk)
  BY <1>1, FS_Subset
<1>3. Cardinality(S) \in Nat /\ Cardinality(FoundChunk) \in Nat
  BY <1>1, <1>2, FS_CardinalityType
<1> QED BY <1>1, <1>2, <1>3

\* What a store returns for a limit.
LEMMA AnswersAre ==
  ASSUME NEW X, NEW order \in Seq(X), NEW n \in 0 .. Overfetch + Cardinality(FoundChunk) + 1
  PROVE  /\ CutAnswers(order)[n] = Cut(order, n)
         /\ VectorAnswers(order)[n] = Among(Cut(order, n), FoundChunk)
         /\ Cut(order, n) \in Seq(X) /\ Among(Cut(order, n), FoundChunk) \in Seq(FoundChunk)
<1>1. n \in Nat
  BY StoreSize
<1>2. Cut(order, n) \in Seq(X)
  BY <1>1, AmongCut
<1>3. Among(Cut(order, n), FoundChunk) \in Seq(FoundChunk)
  BY <1>2, AmongFrom
<1> QED BY <1>2, <1>3 DEF CutAnswers, VectorAnswers

\* The candidates are chunks; those of a prefiltered search are of the branch.
LEMMA CandidatesFrom ==
  ASSUME SearchTypes, NEW near \in VectorOrders, NEW scored \in KeywordOrders,
         NEW byBranch \in BOOLEAN
  PROVE  /\ ToSet(Semantic(near, byBranch)) \subseteq FoundChunk
         /\ ToSet(Keyword(scored, byBranch)) \subseteq FoundChunk
         /\ Prefilters(byBranch) => /\ ToSet(Semantic(near, byBranch)) \subseteq Allowed(byBranch)
                                    /\ ToSet(Keyword(scored, byBranch)) \subseteq Allowed(byBranch)
<1> DEFINE yes == Prefilters(byBranch)
           branch == Allowed(byBranch)
           V == Cardinality(vectors)
           K == Cardinality(keywords)
<1>1. yes \in BOOLEAN
  BY DEF Prefilters, Filtered
<1>2. /\ vectors \subseteq FoundChunk /\ keywords \subseteq FoundChunk /\ IsFiniteSet(vectors)
      /\ Overfetch \in Nat
      /\ V \in Nat /\ 0 .. V \subseteq 0 .. Overfetch + Cardinality(FoundChunk) + 1
      /\ K \in Nat /\ 0 .. K \subseteq 0 .. Overfetch + Cardinality(FoundChunk) + 1
      /\ Overfetch \in 0 .. Overfetch + Cardinality(FoundChunk) + 1
  BY StoreSize DEF SearchTypes
<1>3. near \in Seq(vectors \cup {Stray})
  <2>1. IsFiniteSet(vectors \cup {Stray})
    BY <1>2, FS_AddElement
  <2>2. near \in Seq(IF orphan THEN vectors \cup {Stray} ELSE vectors)
    BY <1>2, <2>1, OrderIs DEF VectorOrders
  <2> QED BY <2>2
<1>4. scored \in Seq(FoundChunk)
  <2>1. PICK T \in SUBSET keywords : scored \in SetToSeqs(T)
    BY DEF KeywordOrders, SetToAllKPermutations
  <2>2. IsFiniteSet(T) /\ T \subseteq FoundChunk
    BY <1>2, StoreSize
  <2>3. scored \in Seq(T)
    BY <2>1, <2>2, OrderIs
  <2> QED BY <2>2, <2>3
<1> HIDE DEF yes, branch, V, K
<1>5. \A n \in 0 .. Overfetch + Cardinality(FoundChunk) + 1 :
        VectorAnswers(near)[n] \in Seq(FoundChunk) /\ CutAnswers(scored)[n] \in Seq(FoundChunk)
  BY <1>3, <1>4, AnswersAre
<1>6. /\ Prefiltered(VectorAnswers(near), Overfetch, V, branch, yes) \in Seq(FoundChunk)
      /\ yes => Prefiltered(VectorAnswers(near), Overfetch, V, branch, yes) \in Seq(branch)
  BY <1>1, <1>2, <1>5, PrefilteredFrom
<1>7. /\ Prefiltered(CutAnswers(scored), Overfetch, K, branch, yes) \in Seq(FoundChunk)
      /\ yes => Prefiltered(CutAnswers(scored), Overfetch, K, branch, yes) \in Seq(branch)
  BY <1>1, <1>2, <1>5, PrefilteredFrom
<1>8. /\ Keyword(scored, byBranch) \in Seq(FoundChunk)
      /\ yes => Keyword(scored, byBranch) \in Seq(branch)
  <2> DEFINE R == Prefiltered(CutAnswers(scored), Overfetch, K, branch, yes)
  <2>1. R \in Seq(FoundChunk) /\ (yes => R \in Seq(branch))
    BY <1>7
  <2>2. Keyword(scored, byBranch) = Cut(Among(R, vectors), Overfetch)
    BY DEF Keyword, K, branch, yes
  <2> HIDE DEF R
  <2>3. Among(R, vectors) \in Seq(FoundChunk) /\ (yes => Among(R, vectors) \in Seq(branch))
    BY <2>1, AmongFrom
  <2> QED BY <1>2, <2>2, <2>3, AmongCut
<1>9. /\ Semantic(near, byBranch) \in Seq(FoundChunk)
      /\ yes => Semantic(near, byBranch) \in Seq(branch)
  BY <1>6 DEF Semantic, V, branch, yes
<1>10. \A X : \A s \in Seq(X) : ToSet(s) \subseteq X
  BY DEF ToSet
<1> QED BY <1>8, <1>9, <1>10 DEF yes, branch

\* The repeated searches of the vectors and of the keywords find the best.
LEMMA BestFound == SearchTypes => PrefilterBest
<1> SUFFICES ASSUME SearchTypes, Prefilters(TRUE)
             PROVE  /\ ~orphan => \A near \in VectorOrders :
                                    Best(Semantic(near, TRUE), Among(near, Allowed(TRUE)))
                    /\ keywords \subseteq vectors => \A scored \in KeywordOrders :
                                    Best(Keyword(scored, TRUE), Among(scored, Allowed(TRUE)))
  BY DEF PrefilterBest
<1> DEFINE branch == Allowed(TRUE)
           V == Cardinality(vectors)
           K == Cardinality(keywords)
<1>1. /\ vectors \subseteq FoundChunk /\ keywords \subseteq FoundChunk
      /\ IsFiniteSet(vectors) /\ IsFiniteSet(keywords) /\ Overfetch \in Nat
      /\ V \in Nat /\ 0 .. V \subseteq 0 .. Overfetch + Cardinality(FoundChunk) + 1
      /\ K \in Nat /\ 0 .. K \subseteq 0 .. Overfetch + Cardinality(FoundChunk) + 1
  BY StoreSize DEF SearchTypes
<1>2. Prefilters(TRUE) = TRUE
  BY DEF Prefilters, Filtered
<1>3. /\ \A near : Semantic(near, TRUE) = Repeated(VectorAnswers(near), Overfetch, V, branch)
      /\ \A scored : Keyword(scored, TRUE) =
           Cut(Among(Repeated(CutAnswers(scored), Overfetch, K, branch), vectors), Overfetch)
  BY <1>2 DEF Semantic, Keyword, Repeated
<1> HIDE DEF branch, V, K
<1>4. ASSUME ~orphan, NEW near \in VectorOrders PROVE Best(Semantic(near, TRUE), Among(near, branch))
  <2> DEFINE R == Repeated(VectorAnswers(near), Overfetch, V, branch)
             ref == Among(near, branch)
  <2>1. near \in Seq(vectors) /\ IsInjective(near) /\ Len(near) = V
    BY <1>1, <1>4, OrderIs DEF VectorOrders, V
  <2>2. near \in Seq(FoundChunk) /\ Len(near) <= V
    BY <1>1, <2>1
  <2>3. ASSUME NEW n \in 0 .. V PROVE VectorAnswers(near)[n] = Cut(near, n)
    <3>1. n \in Nat /\ n \in 0 .. Overfetch + Cardinality(FoundChunk) + 1
      BY <1>1
    <3>2. VectorAnswers(near)[n] = Among(Cut(near, n), FoundChunk)
      BY <2>2, <3>1, AnswersAre
    <3>3. Cut(near, n) \in Seq(FoundChunk)
      BY <2>2, <3>1, AmongCut
    <3>4. \A i \in DOMAIN Cut(near, n) : Cut(near, n)[i] \in FoundChunk
      BY <3>3
    <3> QED BY <3>2, <3>3, <3>4, AmongAll
  <2>4. /\ R \in Seq(FoundChunk)
        /\ Len(R) <= Len(ref) /\ \A i \in 1 .. Len(R) : R[i] = ref[i]
        /\ Len(R) >= SmallerOf(Overfetch, Len(ref))
    BY <1>1, <2>1, <2>2, <2>3, PrefilteredBest
  <2>5. ref \in Seq(FoundChunk)
    BY <2>2, AmongFrom
  <2>6. Semantic(near, TRUE) = R
    BY <1>3
  <2> HIDE DEF R, ref
  <2>7. Best(R, ref)
    BY <2>4, <2>5, BestIs
  <2> QED BY <2>6, <2>7 DEF ref
<1>5. ASSUME keywords \subseteq vectors, NEW scored \in KeywordOrders
      PROVE  Best(Keyword(scored, TRUE), Among(scored, branch))
  <2> DEFINE R == Repeated(CutAnswers(scored), Overfetch, K, branch)
             ref == Among(scored, branch)
  <2>1. PICK T \in SUBSET keywords : scored \in SetToSeqs(T)
    BY DEF KeywordOrders, SetToAllKPermutations
  <2>2. IsFiniteSet(T) /\ T \subseteq keywords /\ T \subseteq FoundChunk /\ Cardinality(T) <= K
    BY <1>1, FS_Subset DEF K
  <2>3. scored \in Seq(T) /\ IsInjective(scored) /\ Len(scored) = Cardinality(T)
    BY <2>1, <2>2, OrderIs
  <2>4. scored \in Seq(FoundChunk) /\ scored \in Seq(keywords) /\ Len(scored) <= K
    BY <2>2, <2>3
  <2>5. \A n \in 0 .. K : CutAnswers(scored)[n] = Cut(scored, n)
    BY <1>1, <2>4, AnswersAre
  <2>6. /\ R \in Seq(FoundChunk)
        /\ Len(R) <= Len(ref) /\ \A i \in 1 .. Len(R) : R[i] = ref[i]
        /\ Len(R) >= SmallerOf(Overfetch, Len(ref))
    BY <1>1, <2>3, <2>4, <2>5, PrefilteredBest
  <2>7. ref \in Seq(FoundChunk) /\ ref \in Seq(keywords)
    BY <2>4, AmongFrom
  <2>8. Keyword(scored, TRUE) = Cut(Among(R, vectors), Overfetch)
    BY <1>3
  <2> HIDE DEF R, ref
  <2>9. \A i \in DOMAIN R : R[i] \in vectors
    <3>1. \A i \in 1 .. Len(R) : i \in 1 .. Len(ref)
      BY <2>6, <2>7
    <3>2. \A i \in 1 .. Len(ref) : ref[i] \in keywords
      BY <2>7
    <3>3. DOMAIN R = 1 .. Len(R)
      BY <2>6
    <3> QED BY <1>5, <2>6, <3>1, <3>2, <3>3
  <2>10. Among(R, vectors) = R
    BY <2>6, <2>9, AmongAll
  <2>11. /\ Cut(R, Overfetch) \in Seq(FoundChunk) /\ Len(Cut(R, Overfetch)) = SmallerOf(Overfetch, Len(R))
         /\ \A i \in DOMAIN Cut(R, Overfetch) : Cut(R, Overfetch)[i] = R[i]
    BY <1>1, <2>6, AmongCut
  <2> DEFINE C == Cut(R, Overfetch)
  <2>12. C \in Seq(FoundChunk) /\ Len(C) = SmallerOf(Overfetch, Len(R)) /\ DOMAIN C = 1 .. Len(C)
         /\ \A i \in DOMAIN C : C[i] = R[i]
    BY <2>11
  <2> HIDE DEF C
  <2>13. Len(R) \in Nat /\ Len(ref) \in Nat
    BY <2>6, <2>7
  <2>14. /\ Len(C) <= Len(R) /\ Len(C) <= Len(ref)
         /\ Len(C) >= SmallerOf(Overfetch, Len(ref))
    BY <1>1, <2>6, <2>12, <2>13 DEF SmallerOf
  <2>15. \A i \in 1 .. Len(C) : C[i] = ref[i]
    BY <2>6, <2>12, <2>13, <2>14
  <2>16. Best(C, ref)
    BY <2>7, <2>12, <2>14, <2>15, BestIs
  <2> QED BY <2>8, <2>10, <2>16 DEF C, ref
<1> QED BY <1>4, <1>5 DEF branch

\* What is put together is of the candidates and of the rows that were let through.
LEMMA AnswerFrom ==
  ASSUME SearchTypes, search.candidates \subseteq FoundChunk,
         NEW query \in Query, NEW tiered, tiered \subseteq Tiered(query),
         NEW results \in Picks(Fallback(query, Preferred(query, tiered)), Limit)
  PROVE  /\ results \subseteq search.candidates \cup Kept
         /\ results \subseteq query.passing
         /\ Cardinality(results) <= Limit
<1> DEFINE found == Fallback(query, Preferred(query, tiered))
           bound == (search.candidates \cup (rows \cap Kept)) \cap query.passing
<1>1. tiered \subseteq bound
  <2>1. Candidates(query) \subseteq search.candidates
    BY DEF Candidates
  <2>2. Promoted(query) \subseteq rows \cap Kept
    BY DEF Promoted
  <2>3. IdentifierLanes(query) \subseteq Candidates(query)
    BY DEF IdentifierLanes
  <2>4. SymbolLane(query, query.source) \subseteq search.candidates \cup (rows \cap Kept)
    BY <2>1 DEF SymbolLane
  <2>5. Tiered(query) \subseteq bound
    BY <2>1, <2>2, <2>3, <2>4 DEF Tiered
  <2> QED BY <2>5
<1>2. SymbolLane(query, TRUE) \subseteq search.candidates \cup (rows \cap Kept)
  BY DEF SymbolLane, Candidates
<1>3. Preferred(query, tiered) \subseteq tiered
  BY DEF Preferred
<1>4. found \subseteq bound
  BY <1>1, <1>2, <1>3 DEF Fallback
<1>5. IsFiniteSet(found)
  <2>1. IsFiniteSet(Item)
    BY SearchAssumption, FS_Union DEF Item
  <2>2. found \subseteq Item
    BY <1>4 DEF SearchTypes, Item
  <2> QED BY <2>1, <2>2, FS_Subset
<1>6. Cardinality(found) \in Nat /\ Limit \in Nat
  BY <1>5, FS_CardinalityType, SearchAssumption
<1>7. results \subseteq found /\ Cardinality(results) = SmallerOf(Limit, Cardinality(found))
  BY DEF Picks
<1> HIDE DEF found
<1>8. Cardinality(results) <= Limit
  BY <1>6, <1>7 DEF SmallerOf
<1> QED BY <1>4, <1>7, <1>8

\* The types, whatever the process and the search do.
LEMMA SearchTypesStep == SearchTypes /\ [SearchNext]_searchVars => SearchTypes'
<1> SUFFICES ASSUME SearchTypes, [SearchNext]_searchVars PROVE SearchTypes'
  OBVIOUS
<1> USE DEF SearchTypes
<1>1. CASE RefreshBranch
  BY <1>1 DEF RefreshBranch, stores
<1>2. CASE IndexingAdds
  BY <1>2 DEF IndexingAdds, NoRun
<1>3. CASE IndexingEnds
  <2>1. catalogue' \in [FoundBranch -> SUBSET Item]
    BY <1>3 DEF IndexingEnds
  <2>2. rows' \subseteq Item
    BY <1>3, <2>1 DEF IndexingEnds
  <2> QED BY <1>3, <2>1, <2>2 DEF IndexingEnds
<1>4. CASE IndexingStops
  BY <1>4 DEF IndexingStops
<1>5. CASE SearchBegins
  BY <1>5 DEF SearchBegins, stores
<1>6. CASE Collects
  BY <1>6 DEF Collects, stores
<1>7. CASE Answered
  BY <1>7 DEF Answered, stores
<1>8. CASE FindsSimilar
  BY <1>8 DEF FindsSimilar, stores
<1>9. CASE SearchEnds
  BY <1>9 DEF SearchEnds, stores
<1>10. ASSUME NEW b \in FoundBranch, ChecksOut(b) PROVE SearchTypes'
  BY <1>10 DEF ChecksOut, stores
<1>11. ASSUME NEW items \in Contents, IndexingBegins(items) PROVE SearchTypes'
  <2>1. items \subseteq Item
    BY SearchAssumption
  <2> QED BY <1>11, <2>1 DEF IndexingBegins
<1>12. CASE UNCHANGED searchVars
  BY <1>12 DEF searchVars
<1> QED BY <1>1, <1>2, <1>3, <1>4, <1>5, <1>6, <1>7, <1>8, <1>9, <1>10, <1>11, <1>12 DEF SearchNext

\* The steps that leave the search alone.
LEMMA SearchStands ==
  ASSUME CollectedWell, AnswersScoped, search' = search
  PROVE  CollectedWell' /\ AnswersScoped'
BY DEF CollectedWell, AnswersScoped

\* Collecting, answering, and the rest.
LEMMA SearchStep == SearchInv /\ [SearchNext]_searchVars => SearchInv'
<1> SUFFICES ASSUME SearchInv, [SearchNext]_searchVars PROVE SearchInv'
  OBVIOUS
<1>1. SearchTypes /\ CollectedWell /\ AnswersScoped /\ SearchTypes'
  BY SearchTypesStep DEF SearchInv
<1> SUFFICES CollectedWell' /\ AnswersScoped'
  BY <1>1 DEF SearchInv
<1>2. CASE search' = search
  BY <1>1, <1>2, SearchStands
<1>3. CASE SearchBegins
  <2>1. search'.step \notin {"reranks", "answered"}
    BY <1>3 DEF SearchBegins, NoSearch
  <2> QED BY <2>1 DEF CollectedWell, AnswersScoped
<1>4. CASE Collects
  <2>1. PICK near \in VectorOrders, scored \in KeywordOrders, embedded \in BOOLEAN, byBranch \in BOOLEAN :
          search' = [step |-> "reranks",
                     allowed |-> Allowed(byBranch), scoped |-> Prefilters(byBranch),
                     candidates |-> ToSet(Keyword(scored, byBranch))
                                    \cup (IF embedded THEN ToSet(Semantic(near, byBranch)) ELSE {})]
    BY <1>4 DEF Collects
  <2>2. /\ ToSet(Semantic(near, byBranch)) \subseteq FoundChunk
        /\ ToSet(Keyword(scored, byBranch)) \subseteq FoundChunk
        /\ Prefilters(byBranch) => /\ ToSet(Semantic(near, byBranch)) \subseteq Allowed(byBranch)
                                   /\ ToSet(Keyword(scored, byBranch)) \subseteq Allowed(byBranch)
    BY <1>1, CandidatesFrom
  <2>3. /\ search'.step = "reranks" /\ search'.allowed = Allowed(byBranch)
        /\ search'.scoped = Prefilters(byBranch)
        /\ search'.candidates = ToSet(Keyword(scored, byBranch))
                                \cup (IF embedded THEN ToSet(Semantic(near, byBranch)) ELSE {})
    BY <2>1
  <2> QED BY <2>2, <2>3 DEF CollectedWell, AnswersScoped
<1>5. CASE Answered
  <2>1. PICK query \in Query : \E tiered \in SUBSET Tiered(query) :
          \E results \in Picks(Fallback(query, Preferred(query, tiered)), Limit) :
            search' = [step |-> "answered", query |-> query, allowed |-> search.allowed,
                       scoped |-> search.scoped, answer |-> results]
    BY <1>5 DEF Answered
  <2>2. PICK tiered \in SUBSET Tiered(query) :
          \E results \in Picks(Fallback(query, Preferred(query, tiered)), Limit) :
            search' = [step |-> "answered", query |-> query, allowed |-> search.allowed,
                       scoped |-> search.scoped, answer |-> results]
    BY <2>1
  <2>3. PICK results \in Picks(Fallback(query, Preferred(query, tiered)), Limit) :
          search' = [step |-> "answered", query |-> query, allowed |-> search.allowed,
                     scoped |-> search.scoped, answer |-> results]
    BY <2>2
  <2>4. /\ search.step = "reranks" /\ search.candidates \subseteq FoundChunk
        /\ search.scoped => search.candidates \subseteq search.allowed
    BY <1>1, <1>5 DEF Answered, CollectedWell
  <2>5. /\ results \subseteq search.candidates \cup search.allowed
        /\ results \subseteq query.passing
        /\ Cardinality(results) <= Limit
    BY <1>1, <2>4, AnswerFrom DEF Kept
  <2>6. /\ search'.step = "answered" /\ search'.allowed = search.allowed
        /\ search'.scoped = search.scoped /\ search'.query = query /\ search'.answer = results
    BY <2>3
  <2> QED BY <2>4, <2>5, <2>6 DEF CollectedWell, AnswersScoped
<1>6. CASE FindsSimilar
  <2>1. PICK near \in VectorOrders, byBranch \in BOOLEAN, query \in Query :
          \E ranked \in SUBSET (ToSet(Semantic(near, byBranch)) \cap query.passing) :
            \E results \in Picks(ranked, Limit) :
              search' = [step |-> "answered", query |-> query, allowed |-> Allowed(byBranch),
                         scoped |-> Prefilters(byBranch), answer |-> results]
    BY <1>6 DEF FindsSimilar
  <2>2. PICK ranked \in SUBSET (ToSet(Semantic(near, byBranch)) \cap query.passing) :
          \E results \in Picks(ranked, Limit) :
            search' = [step |-> "answered", query |-> query, allowed |-> Allowed(byBranch),
                       scoped |-> Prefilters(byBranch), answer |-> results]
    BY <2>1
  <2>3. PICK results \in Picks(ranked, Limit) :
          search' = [step |-> "answered", query |-> query, allowed |-> Allowed(byBranch),
                     scoped |-> Prefilters(byBranch), answer |-> results]
    BY <2>2
  <2>4. \E scored : scored \in KeywordOrders
    <3>1. <<>> \in SetToSeqs({})
      BY FS_EmptySet DEF SetToSeqs
    <3> QED BY <3>1 DEF KeywordOrders, SetToAllKPermutations
  <2>5. /\ ToSet(Semantic(near, byBranch)) \subseteq FoundChunk
        /\ Prefilters(byBranch) => ToSet(Semantic(near, byBranch)) \subseteq Allowed(byBranch)
    BY <1>1, <2>4, CandidatesFrom
  <2>6. results \subseteq ranked /\ Cardinality(results) = SmallerOf(Limit, Cardinality(ranked))
    BY DEF Picks
  <2>7. Cardinality(ranked) \in Nat /\ Limit \in Nat
    <3>1. IsFiniteSet(FoundChunk) /\ ranked \subseteq FoundChunk
      BY <2>5, SearchAssumption
    <3> QED BY <3>1, FS_Subset, FS_CardinalityType, SearchAssumption
  <2>8. Cardinality(results) <= Limit
    BY <2>6, <2>7 DEF SmallerOf
  <2>9. /\ search'.step = "answered" /\ search'.allowed = Allowed(byBranch)
        /\ search'.scoped = Prefilters(byBranch) /\ search'.query = query /\ search'.answer = results
    BY <2>3
  <2> QED BY <2>5, <2>6, <2>8, <2>9 DEF CollectedWell, AnswersScoped
<1>7. CASE SearchEnds
  <2>1. search'.step \notin {"reranks", "answered"}
    BY <1>7 DEF SearchEnds, NoSearch
  <2> QED BY <2>1 DEF CollectedWell, AnswersScoped
<1>8. search' = search \/ SearchBegins \/ Collects \/ Answered \/ FindsSimilar \/ SearchEnds
  BY DEF SearchNext, searchVars, RefreshBranch, IndexingAdds, IndexingEnds, IndexingStops,
         ChecksOut, IndexingBegins
<1> QED BY <1>2, <1>3, <1>4, <1>5, <1>6, <1>7, <1>8

\* Nothing is stored and nothing is searched for.
LEMMA SearchStart == SearchInit => SearchInv
<1> SUFFICES ASSUME SearchInit PROVE SearchInv
  OBVIOUS
<1>1. search.step = "idle" /\ indexing = NoRun
  BY DEF SearchInit, NoSearch
<1>2. SearchTypes
  BY <1>1 DEF SearchInit, SearchTypes
<1> QED BY <1>1, <1>2 DEF SearchInv, CollectedWell, AnswersScoped

\* A search finds the best that the stores have of its branch, and its answer is of one
\* branch at one moment, passes the query's filters and has no more than is asked for:
\* for any chunks, symbols, branches, contents and limits, any number of runs, and any
\* moments at which they change the stores and the branch is switched.
THEOREM SearchIsHonest == SearchSpec => []SearchHonest
<1>1. SearchInit => SearchInv
  BY SearchStart
<1>2. SearchInv /\ [SearchNext]_searchVars => SearchInv'
  BY SearchStep
<1>3. SearchInv => SearchHonest
  BY BestFound DEF SearchInv, SearchHonest
<1> QED BY <1>1, <1>2, <1>3, PTL DEF SearchSpec

-----------------------------------------------------------------------------
(* Sorting.                                                                 *)

\* A relation that puts any two members of a set in an order.
Orders(R, S) ==
  /\ \A x, y \in S : x # y => <<x, y>> \in R \/ <<y, x>> \in R
  /\ \A x, y, z \in S : <<x, y>> \in R /\ <<y, z>> \in R => <<x, z>> \in R

Sorted(s, R) == \A i, j \in DOMAIN s : i < j => <<s[i], s[j]>> \in R

\* One of them comes last.
LEMMA LastExists ==
  ASSUME NEW S, IsFiniteSet(S), S # {}, NEW R, Orders(R, S)
  PROVE  \E t \in S : \A x \in S : x # t => <<x, t>> \in R
<1> DEFINE Ends(U) == \E t \in U : \A x \in U : x # t => <<x, t>> \in R
           C == {U \in SUBSET S : U # {} /\ ~Ends(U)}
<1>1. SUFFICES ASSUME C # {} PROVE FALSE
  OBVIOUS
<1>2. C \subseteq SUBSET S
  OBVIOUS
<1> HIDE DEF C
<1>3. PICK U \in C : \A r : r \subseteq U /\ r # U => r \notin C
  BY <1>1, <1>2, SmallestSubset
<1>4. U \subseteq S /\ U # {} /\ ~Ends(U)
  BY <1>3 DEF C
<1>5. PICK u \in U : TRUE
  BY <1>4
<1>6. CASE U \ {u} = {}
  BY <1>4, <1>5, <1>6
<1>7. CASE U \ {u} # {}
  <2>1. U \ {u} \notin C /\ U \ {u} \in SUBSET S
    BY <1>3, <1>4, <1>5
  <2>2. Ends(U \ {u})
    BY <1>7, <2>1 DEF C
  <2>3. PICK t \in U \ {u} : \A x \in U \ {u} : x # t => <<x, t>> \in R
    BY <2>2
  <2>4. t \in S /\ u \in S /\ t # u
    BY <1>4, <2>3
  <2>5. CASE <<u, t>> \in R
    BY <1>4, <2>3, <2>5
  <2>6. CASE <<t, u>> \in R
    <3>1. ASSUME NEW x \in U, x # u PROVE <<x, u>> \in R
      <4>1. x \in S /\ (x = t \/ <<x, t>> \in R)
        BY <1>4, <2>3, <3>1
      <4> QED BY <2>4, <2>6, <4>1 DEF Orders
    <3> QED BY <1>4, <1>5, <3>1
  <2> QED BY <2>4, <2>5, <2>6 DEF Orders
<1> QED BY <1>6, <1>7

\* A sorted sequence, with one more that comes last.
LEMMA SortedMore ==
  ASSUME NEW S, IsFiniteSet(S), NEW R, NEW t \in S, \A x \in S : x # t => <<x, t>> \in R,
         NEW s \in SetToSeqs(S \ {t}), Sorted(s, R)
  PROVE  \E q \in SetToSeqs(S) : Sorted(q, R)
<1> DEFINE N == Cardinality(S)
           q == [i \in 1 .. N |-> IF i = N THEN t ELSE s[i]]
<1>1. N \in Nat /\ N # 0 /\ Cardinality(S \ {t}) = N - 1
  BY FS_RemoveElement, FS_CardinalityType, FS_EmptySet
<1>2. s \in [1 .. N - 1 -> S \ {t}] /\ \A i, j \in 1 .. N - 1 : i # j => s[i] # s[j]
  BY <1>1 DEF SetToSeqs
<1> HIDE DEF N
<1>3. q \in [1 .. N -> S]
  BY <1>1, <1>2
<1>4. \A i, j \in 1 .. N : i # j => q[i] # q[j]
  BY <1>1, <1>2
<1>5. q \in SetToSeqs(S)
  BY <1>3, <1>4 DEF SetToSeqs, N
<1>6. Sorted(q, R)
  <2>1. ASSUME NEW i \in 1 .. N, NEW j \in 1 .. N, i < j PROVE <<q[i], q[j]>> \in R
    <3>1. i \in 1 .. N - 1 /\ q[i] = s[i]
      BY <1>1, <2>1
    <3>2. CASE j = N
      BY <1>2, <3>1, <3>2
    <3>3. CASE j # N
      BY <1>1, <1>2, <2>1, <3>1, <3>3 DEF Sorted
    <3> QED BY <3>2, <3>3
  <2> QED BY <2>1 DEF Sorted
<1> QED BY <1>5, <1>6

\* A finite set can be sorted.
LEMMA SortedExists ==
  ASSUME NEW S, IsFiniteSet(S), NEW R, Orders(R, S)
  PROVE  \E s \in SetToSeqs(S) : Sorted(s, R)
<1> DEFINE C == {U \in SUBSET S : ~\E s \in SetToSeqs(U) : Sorted(s, R)}
<1>1. SUFFICES ASSUME C # {} PROVE FALSE
  OBVIOUS
<1>2. C \subseteq SUBSET S
  OBVIOUS
<1> HIDE DEF C
<1>3. PICK U \in C : \A r : r \subseteq U /\ r # U => r \notin C
  BY <1>1, <1>2, SmallestSubset
<1>4. U \subseteq S /\ ~\E s \in SetToSeqs(U) : Sorted(s, R)
  BY <1>3 DEF C
<1>5. IsFiniteSet(U) /\ Orders(R, U)
  BY <1>4, FS_Subset DEF Orders
<1>6. U # {}
  <2>1. <<>> \in SetToSeqs({}) /\ Sorted(<<>>, R)
    BY FS_EmptySet DEF SetToSeqs, Sorted
  <2> QED BY <1>4, <2>1
<1>7. PICK t \in U : \A x \in U : x # t => <<x, t>> \in R
  BY <1>5, <1>6, LastExists
<1>8. U \ {t} \notin C /\ U \ {t} \subseteq S
  BY <1>3, <1>4, <1>7
<1>9. PICK s \in SetToSeqs(U \ {t}) : Sorted(s, R)
  BY <1>8 DEF C
<1> QED BY <1>4, <1>5, <1>7, <1>9, SortedMore

\* A sequence of all members of a finite set, each once.
LEMMA SequenceOfAll ==
  ASSUME NEW S, IsFiniteSet(S), NEW s \in SetToSeqs(S)
  PROVE  /\ s \in [1 .. Cardinality(S) -> S] /\ Cardinality(S) \in Nat
         /\ \A i, j \in 1 .. Cardinality(S) : s[i] = s[j] => i = j
         /\ \A x \in S : \E i \in 1 .. Cardinality(S) : s[i] = x
<1> DEFINE N == Cardinality(S)
           r == {s[i] : i \in 1 .. N}
<1>1. N \in Nat
  BY FS_CardinalityType
<1>2. s \in [1 .. N -> S] /\ \A i, j \in 1 .. N : s[i] = s[j] => i = j
  BY DEF SetToSeqs
<1>3. s \in Bijection(1 .. N, r)
  BY <1>2 DEF Bijection, Injection, Surjection, IsInjective
<1>4. IsFiniteSet(1 .. N) /\ Cardinality(1 .. N) = N
  BY <1>1, FS_Interval
<1> HIDE DEF r
<1>5. Cardinality(r) = N
  <2>1. ExistsBijection(1 .. N, r)
    BY <1>3 DEF ExistsBijection
  <2> QED BY <1>4, <2>1, FS_Bijection
<1>6. r \subseteq S
  BY <1>2 DEF r
<1>7. r = S
  BY <1>5, <1>6, FS_Subset
<1> QED BY <1>1, <1>2, <1>7 DEF r

-----------------------------------------------------------------------------
(* Fitting a text.                                                          *)

Middle(range) == (range[1] + range[2] + 1) \div 2

\* What the bisection takes from a range, if u has what it takes from the others.
Bisected(u, range, beginning, budget) ==
  IF range[1] >= range[2] THEN range[1]
  ELSE IF beginning[Middle(range)] <= budget THEN u[<<Middle(range), range[2]>>]
                                             ELSE u[<<range[1], Middle(range) - 1>>]

\* The halves of a range are shorter than it.
LEMMA Halves ==
  ASSUME NEW N \in Nat, NEW lo \in 0 .. N, NEW hi \in 0 .. N, lo < hi
  PROVE  /\ Middle(<<lo, hi>>) \in lo + 1 .. hi
         /\ Middle(<<lo, hi>>) \in 0 .. N /\ Middle(<<lo, hi>>) - 1 \in 0 .. N
BY DEF Middle

\* There is a table of what the bisection takes from every range.
LEMMA BisectionExists ==
  ASSUME NEW N \in Nat, NEW beginning, NEW budget
  PROVE  \E u : u = [range \in (0 .. N) \X (0 .. N) |-> Bisected(u, range, beginning, budget)]
<1> DEFINE R == (0 .. N) \X (0 .. N)
           Holds(u, range) == u[range] = Bisected(u, range, beginning, budget)
           Tables(d) == {u \in [R -> 0 .. N] :
                           \A lo, hi \in 0 .. N : hi <= lo + d => Holds(u, <<lo, hi>>)}
           P == {d \in 0 .. N : Tables(d) # {}}
<1>1. 0 \in P
  <2> DEFINE u == [range \in R |-> range[1]]
  <2>1. u \in [R -> 0 .. N] /\ \A lo, hi \in 0 .. N : u[<<lo, hi>>] = lo
    OBVIOUS
  <2> HIDE DEF u
  <2>2. \A lo, hi \in 0 .. N : hi <= lo + 0 => Holds(u, <<lo, hi>>)
    BY <2>1 DEF Bisected
  <2>3. u \in Tables(0)
    BY <2>1, <2>2
  <2> HIDE DEF Tables
  <2> QED BY <2>3
<1>2. ASSUME NEW d \in 1 .. N, d - 1 \in P PROVE d \in P
  <2>1. PICK v \in [R -> 0 .. N] : \A lo, hi \in 0 .. N : hi <= lo + (d - 1) => Holds(v, <<lo, hi>>)
    BY <1>2
  <2> DEFINE u == [range \in R |-> Bisected(v, range, beginning, budget)]
  <2>2. ASSUME NEW lo \in 0 .. N, NEW hi \in 0 .. N
        PROVE  Bisected(v, <<lo, hi>>, beginning, budget) \in 0 .. N
    <3>1. CASE lo >= hi
      BY <3>1 DEF Bisected
    <3>2. CASE lo < hi
      <4> DEFINE m == Middle(<<lo, hi>>)
      <4>1. m \in 0 .. N /\ m - 1 \in 0 .. N
        BY <3>2, Halves
      <4> HIDE DEF m
      <4>2. v[<<m, hi>>] \in 0 .. N /\ v[<<lo, m - 1>>] \in 0 .. N
        BY <2>1, <4>1
      <4>3. Bisected(v, <<lo, hi>>, beginning, budget) \in {v[<<m, hi>>], v[<<lo, m - 1>>]}
        BY <3>2 DEF Bisected, m
      <4> QED BY <4>2, <4>3
    <3> QED BY <3>1, <3>2
  <2>3. u \in [R -> 0 .. N] /\ \A lo, hi \in 0 .. N : u[<<lo, hi>>] = Bisected(v, <<lo, hi>>, beginning, budget)
    BY <2>2
  <2> HIDE DEF u
  <2>4. ASSUME NEW lo \in 0 .. N, NEW hi \in 0 .. N, hi <= lo + d PROVE Holds(u, <<lo, hi>>)
    <3>1. CASE lo >= hi
      BY <2>3, <3>1 DEF Bisected
    <3>2. CASE lo < hi
      <4> DEFINE m == Middle(<<lo, hi>>)
      <4>1. m \in lo + 1 .. hi /\ m \in 0 .. N /\ m - 1 \in 0 .. N
        BY <3>2, Halves
      <4> HIDE DEF m
      <4>2. hi <= m + (d - 1) /\ m - 1 <= lo + (d - 1)
        BY <2>4, <4>1
      <4>3. u[<<m, hi>>] = v[<<m, hi>>] /\ u[<<lo, m - 1>>] = v[<<lo, m - 1>>]
        BY <2>1, <2>3, <4>1, <4>2
      <4>4. \A w : Bisected(w, <<lo, hi>>, beginning, budget) =
                     IF beginning[m] <= budget THEN w[<<m, hi>>] ELSE w[<<lo, m - 1>>]
        BY <3>2 DEF Bisected, m
      <4> QED BY <2>3, <4>3, <4>4
    <3> QED BY <3>1, <3>2
  <2>5. u \in Tables(d)
    BY <2>3, <2>4
  <2> HIDE DEF Tables
  <2> QED BY <2>5
<1> HIDE DEF P
<1>3. N \in P
  BY <1>1, <1>2, InductionTo
<1>4. PICK u \in [R -> 0 .. N] : \A lo, hi \in 0 .. N : hi <= lo + N => Holds(u, <<lo, hi>>)
  BY <1>3 DEF P
<1>5. ASSUME NEW range \in R PROVE u[range] = Bisected(u, range, beginning, budget)
  <2>1. PICK lo \in 0 .. N, hi \in 0 .. N : range = <<lo, hi>>
    OBVIOUS
  <2>2. hi <= lo + N
    OBVIOUS
  <2> QED BY <1>4, <2>1, <2>2
<1>6. u = [range \in R |-> Bisected(u, range, beginning, budget)]
  BY <1>4, <1>5
<1> QED BY <1>6

\* From a range whose lower end fits, it takes one that fits.
LEMMA BisectionFits ==
  ASSUME NEW N \in Nat, NEW beginning, NEW budget,
         NEW u, u = [range \in (0 .. N) \X (0 .. N) |-> Bisected(u, range, beginning, budget)]
  PROVE  \A lo, hi \in 0 .. N : beginning[lo] <= budget =>
           u[<<lo, hi>>] \in 0 .. N /\ beginning[u[<<lo, hi>>]] <= budget
<1> DEFINE Fits(lo, hi) == u[<<lo, hi>>] \in 0 .. N /\ beginning[u[<<lo, hi>>]] <= budget
           P == {d \in 0 .. N : \A lo, hi \in 0 .. N :
                                  hi <= lo + d /\ beginning[lo] <= budget => Fits(lo, hi)}
<1>1. \A lo, hi \in 0 .. N : u[<<lo, hi>>] = Bisected(u, <<lo, hi>>, beginning, budget)
  OBVIOUS
<1>2. ASSUME NEW lo \in 0 .. N, NEW hi \in 0 .. N, lo >= hi, beginning[lo] <= budget PROVE Fits(lo, hi)
  BY ONLY <1>1, <1>2 DEF Bisected
<1>3. 0 \in P
  BY <1>2
<1>4. ASSUME NEW d \in 1 .. N, d - 1 \in P PROVE d \in P
  <2>1. SUFFICES ASSUME NEW lo \in 0 .. N, NEW hi \in 0 .. N, hi <= lo + d, beginning[lo] <= budget
                 PROVE  Fits(lo, hi)
    OBVIOUS
  <2>2. CASE lo >= hi
    BY <1>2, <2>1, <2>2
  <2>3. CASE lo < hi
    <3> DEFINE m == Middle(<<lo, hi>>)
    <3>1. m \in lo + 1 .. hi /\ m \in 0 .. N /\ m - 1 \in 0 .. N
      BY <2>3, Halves
    <3>2. u[<<lo, hi>>] = IF beginning[m] <= budget THEN u[<<m, hi>>] ELSE u[<<lo, m - 1>>]
      BY ONLY <1>1, <2>3, lo \in 0 .. N, hi \in 0 .. N DEF Bisected, m
    <3> HIDE DEF m
    <3>3. hi <= m + (d - 1) /\ m - 1 <= lo + (d - 1)
      BY <2>1, <3>1
    <3>4. beginning[m] <= budget => Fits(m, hi)
      BY <1>4, <3>1, <3>3
    <3>5. Fits(lo, m - 1)
      BY <1>4, <2>1, <3>1, <3>3
    <3> QED BY <3>2, <3>4, <3>5
  <2> QED BY <2>2, <2>3
<1> HIDE DEF P
<1>5. N \in P
  BY <1>3, <1>4, InductionTo
<1>6. \A lo, hi \in 0 .. N : hi <= lo + N
  OBVIOUS
<1> QED BY <1>5, <1>6 DEF P

\* The bisection ends at a beginning that fits, if the empty one does.
LEMMA FitsIn ==
  ASSUME NEW N \in Nat, NEW beginning, DOMAIN beginning = 0 .. N, NEW budget, beginning[0] <= budget
  PROVE  beginning[Truncated(beginning, budget)] <= budget
<1> DEFINE U == CHOOSE u : u = [range \in (0 .. N) \X (0 .. N) |-> Bisected(u, range, beginning, budget)]
<1>1. Truncated(beginning, budget) = U[<<0, Max(0 .. N)>>]
  BY Zenon DEF Truncated, Bisected, Middle
<1>2. U = [range \in (0 .. N) \X (0 .. N) |-> Bisected(U, range, beginning, budget)]
  BY BisectionExists
<1>3. Max(0 .. N) \in 0 .. N
  <2>1. N \in 0 .. N /\ \A i \in 0 .. N : N >= i
    OBVIOUS
  <2> QED BY <2>1 DEF Max
<1> HIDE DEF U
<1>4. 0 \in 0 .. N
  OBVIOUS
<1>5. \A lo, hi \in 0 .. N : beginning[lo] <= budget => beginning[U[<<lo, hi>>]] <= budget
  BY ONLY <1>2, N \in Nat, BisectionFits
<1> QED BY <1>1, <1>3, <1>4, <1>5

-----------------------------------------------------------------------------
(* The evidence of a pack.                                                  *)

\* s has what t has, in another order.
Rearranges(s, t, N) == \E p \in SetToSeqs(1 .. N) : s = [n \in 1 .. N |-> t[p[n]]]

\* p says where s has what t has.
Permutes(p, s, t, N) ==
  /\ p \in [1 .. N -> 1 .. N] /\ s = [n \in 1 .. N |-> t[p[n]]]
  /\ \A i, j \in 1 .. N : p[i] = p[j] => i = j
  /\ \A x \in 1 .. N : \E i \in 1 .. N : p[i] = x

\* A list in another order has the places of a permutation.
LEMMA RearrangedIs ==
  ASSUME NEW N \in Nat, NEW t, NEW s, Rearranges(s, t, N)
  PROVE  \E p : Permutes(p, s, t, N)
<1>1. PICK p \in SetToSeqs(1 .. N) : s = [n \in 1 .. N |-> t[p[n]]]
  BY DEF Rearranges
<1>2. IsFiniteSet(1 .. N) /\ Cardinality(1 .. N) = N
  BY FS_Interval
<1>3. /\ p \in [1 .. N -> 1 .. N] /\ \A i, j \in 1 .. N : p[i] = p[j] => i = j
      /\ \A x \in 1 .. N : \E i \in 1 .. N : p[i] = x
  <2> DEFINE S == 1 .. N
  <2>1. p \in SetToSeqs(S) /\ IsFiniteSet(S) /\ Cardinality(S) = N
    BY <1>2
  <2> HIDE DEF S
  <2>2. /\ p \in [1 .. N -> S] /\ \A i, j \in 1 .. N : p[i] = p[j] => i = j
        /\ \A x \in S : \E i \in 1 .. N : p[i] = x
    BY <2>1, SequenceOfAll
  <2> QED BY <2>2 DEF S
<1> QED BY <1>1, <1>3 DEF Permutes

\* The results by preference and score are the results.
LEMMA RankedIs ==
  ASSUME NEW N \in Nat, NEW results \in [1 .. N -> Evidence], NEW prefer \in BOOLEAN
  PROVE  Rearranges(RankedEvidence(results, prefer), results, N)
<1> DEFINE D == DOMAIN results
           first(i) == prefer /\ results[i] \in Implementation
           before(i, j) ==
             \/ first(i) /\ ~first(j)
             \/ /\ first(i) = first(j)
                /\ \/ ScoreOf[results[i]] > ScoreOf[results[j]]
                   \/ ScoreOf[results[i]] = ScoreOf[results[j]] /\ i < j
           places == CHOOSE s \in SetToSeqs(D) : \A i, j \in DOMAIN s : i < j => before(s[i], s[j])
           R == {r \in D \X D : before(r[1], r[2])}
<1>1. RankedEvidence(results, prefer) = [n \in D |-> results[places[n]]]
  BY Zenon DEF RankedEvidence, InOrder
<1>2. D = 1 .. N /\ IsFiniteSet(D)
  BY FS_Interval
<1>3. Orders(R, D)
  <2>1. \A i \in D : ScoreOf[results[i]] \in Nat /\ i \in Nat
    BY EvidenceAssumption, <1>2
  <2>2. \A i, j \in D : i # j => before(i, j) \/ before(j, i)
    BY <2>1
  <2>3. \A i, j, k \in D : before(i, j) /\ before(j, k) => before(i, k)
    BY <2>1
  <2>4. \A i, j \in D : <<i, j>> \in R <=> before(i, j)
    OBVIOUS
  <2> QED BY <2>2, <2>3, <2>4 DEF Orders
<1>4. \E s \in SetToSeqs(D) : Sorted(s, R)
  BY <1>2, <1>3, SortedExists
<1>5. \E s \in SetToSeqs(D) : \A i, j \in DOMAIN s : i < j => before(s[i], s[j])
  <2>1. \A i, j : <<i, j>> \in R => before(i, j)
    OBVIOUS
  <2> HIDE DEF R
  <2> QED BY <1>4, <2>1 DEF Sorted
<1>6. places \in SetToSeqs(D)
  BY <1>5
<1> HIDE DEF places
<1> QED BY <1>1, <1>2, <1>6 DEF Rearranges

\* What is accepted with one result more.
Accepting(b, x) == IF Overlaps(b, x) THEN b ELSE Append(b, x)

\* k is what is accepted of each beginning of a list.
Accepts(k, s, X, N) ==
  /\ k \in [0 .. N -> Seq(X)]
  /\ k[0] = <<>>
  /\ \A n \in 1 .. N : k[n] = Accepting(k[n - 1], s[n])

\* It is a list again.
LEMMA AcceptingIn ==
  ASSUME NEW X, NEW b \in Seq(X), NEW x \in X
  PROVE  Accepting(b, x) \in Seq(X)
BY DEF Accepting

\* There is such a table.
LEMMA AcceptsExists ==
  ASSUME NEW X, NEW N \in Nat, NEW s \in [1 .. N -> X]
  PROVE  \E k : Accepts(k, s, X, N)
<1> DEFINE P == {n \in 0 .. N : \E k : Accepts(k, s, X, n)}
<1>1. 0 \in P
  <2> DEFINE k == [n \in 0 .. 0 |-> <<>>]
  <2>1. k \in [0 .. 0 -> Seq(X)] /\ k[0] = <<>> /\ 1 .. 0 = {}
    OBVIOUS
  <2>2. Accepts(k, s, X, 0)
    BY <2>1 DEF Accepts
  <2> QED BY <2>2
<1>2. ASSUME NEW n \in 1 .. N, n - 1 \in P PROVE n \in P
  <2>1. PICK k : Accepts(k, s, X, n - 1)
    BY <1>2
  <2>2. /\ k \in [0 .. n - 1 -> Seq(X)] /\ k[0] = <<>>
        /\ \A m \in 1 .. n - 1 : k[m] = Accepting(k[m - 1], s[m])
    BY <2>1 DEF Accepts
  <2> DEFINE more == Accepting(k[n - 1], s[n])
             u == [m \in 0 .. n |-> IF m = n THEN more ELSE k[m]]
  <2>3. more \in Seq(X)
    <3>1. k[n - 1] \in Seq(X) /\ s[n] \in X
      BY <2>2
    <3> QED BY <3>1, AcceptingIn
  <2> HIDE DEF more
  <2>4. u \in [0 .. n -> Seq(X)] /\ u[n] = more /\ u[0] = <<>> /\ \A m \in 0 .. n - 1 : u[m] = k[m]
    BY <2>2, <2>3
  <2> HIDE DEF u
  <2>5. ASSUME NEW m \in 1 .. n PROVE u[m] = Accepting(u[m - 1], s[m])
    <3>1. CASE m = n
      <4>1. n - 1 \in 0 .. n - 1
        OBVIOUS
      <4> QED BY <2>4, <3>1, <4>1 DEF more
    <3>2. CASE m # n
      <4>1. m \in 1 .. n - 1 /\ m - 1 \in 0 .. n - 1 /\ m \in 0 .. n - 1
        BY <3>2
      <4> QED BY ONLY <2>2, <2>4, <4>1
    <3> QED BY <3>1, <3>2
  <2>6. Accepts(u, s, X, n)
    BY <2>4, <2>5 DEF Accepts
  <2> QED BY <2>6
<1> HIDE DEF P
<1>3. N \in P
  BY <1>1, <1>2, InductionTo
<1> QED BY <1>3 DEF P

\* What one step accepts, seen as a set.
LEMMA AcceptingIs ==
  ASSUME NEW X, NEW b \in Seq(X), NEW x \in X
  PROVE  \/ /\ Accepting(b, x) = b
            /\ \E m \in 1 .. Len(b) : Overlap(x, b[m])
         \/ /\ Len(Accepting(b, x)) = Len(b) + 1
            /\ \A i \in 1 .. Len(b) : Accepting(b, x)[i] = b[i]
            /\ Accepting(b, x)[Len(b) + 1] = x
            /\ \A i \in 1 .. Len(b) : ~Overlap(b[i], x) /\ ~Overlap(x, b[i])
<1>1. ToSet(b) = {b[i] : i \in 1 .. Len(b)}
  BY DEF ToSet
<1>2. CASE Overlaps(b, x)
  BY <1>1, <1>2 DEF Accepting, Overlaps
<1>3. CASE ~Overlaps(b, x)
  <2>1. Accepting(b, x) = Append(b, x)
    BY <1>3 DEF Accepting
  <2>2. /\ Len(Append(b, x)) = Len(b) + 1 /\ Append(b, x)[Len(b) + 1] = x
        /\ \A i \in 1 .. Len(b) : Append(b, x)[i] = b[i]
    OBVIOUS
  <2>3. \A i \in 1 .. Len(b) : ~Overlap(x, b[i])
    BY <1>1, <1>3 DEF Overlaps
  <2>4. \A i \in 1 .. Len(b) : ~Overlap(b[i], x)
    BY <2>3 DEF Overlap
  <2> QED BY <2>1, <2>2, <2>3, <2>4
<1> QED BY <1>2, <1>3

\* y is among the members of b.
Within(y, b) == \E i \in 1 .. Len(b) : b[i] = y

\* What is accepted of a list is from it and of disjoint places; what is not accepted
\* overlaps something that is, and that comes before it.
LEMMA AcceptedIs ==
  ASSUME NEW X, NEW N \in Nat, NEW s \in [1 .. N -> X], NEW k, Accepts(k, s, X, N)
  PROVE  /\ k[N] \in Seq(X) /\ Len(k[N]) <= N
         /\ \A i \in 1 .. Len(k[N]) : \E j \in 1 .. N : k[N][i] = s[j]
         /\ \A i, j \in 1 .. Len(k[N]) : i # j => ~Overlap(k[N][i], k[N][j])
         /\ \A j \in 1 .. N : \/ Within(s[j], k[N])
                              \/ \E i \in 1 .. j - 1 : Within(s[i], k[N]) /\ Overlap(s[j], s[i])
<1> DEFINE From(b, n) == Len(b) <= n /\ \A i \in 1 .. Len(b) : \E j \in 1 .. n : b[i] = s[j]
           Apart(b) == \A i, j \in 1 .. Len(b) : i # j => ~Overlap(b[i], b[j])
           Met(b, j) == Within(s[j], b) \/ \E i \in 1 .. j - 1 : Within(s[i], b) /\ Overlap(s[j], s[i])
           P == {n \in 0 .. N : From(k[n], n) /\ Apart(k[n]) /\ \A j \in 1 .. n : Met(k[n], j)}
<1>1. /\ k \in [0 .. N -> Seq(X)] /\ k[0] = <<>>
      /\ \A n \in 1 .. N : k[n] = Accepting(k[n - 1], s[n])
  BY DEF Accepts
<1>2. 0 \in P
  <2>1. k[0] = <<>> /\ Len(k[0]) = 0 /\ 1 .. 0 = {}
    BY <1>1
  <2> QED BY <2>1
<1>3. ASSUME NEW n \in 1 .. N, n - 1 \in P PROVE n \in P
  <2> DEFINE b == k[n - 1]
             a == k[n]
  <2>1. n - 1 \in 0 .. N /\ n \in 0 .. N /\ \A j \in 1 .. n : j \in 1 .. n - 1 \/ j = n
    OBVIOUS
  <2>2. b \in Seq(X) /\ Len(b) \in Nat /\ s[n] \in X /\ a = Accepting(b, s[n])
    <3>1. b \in Seq(X)
      BY ONLY <1>1, <2>1
    <3>2. a = Accepting(b, s[n])
      BY ONLY <1>1, n \in 1 .. N
    <3> QED BY <3>1, <3>2
  <2>3. From(b, n - 1) /\ Apart(b) /\ \A j \in 1 .. n - 1 : Met(b, j)
    BY <1>3
  <2>4. SUFFICES From(a, n) /\ Apart(a) /\ \A j \in 1 .. n : Met(a, j)
    BY <2>1
  <2> HIDE DEF b, a, P
  <2>5. CASE a = b /\ \E m \in 1 .. Len(b) : Overlap(s[n], b[m])
    <3>1. From(b, n)
      BY <2>2, <2>3
    <3>2. Met(b, n)
      <4>1. PICK m \in 1 .. Len(b) : Overlap(s[n], b[m])
        BY <2>5
      <4>2. PICK i \in 1 .. n - 1 : b[m] = s[i]
        BY <2>3
      <4> QED BY <4>1, <4>2 DEF Within
    <3>3. \A j \in 1 .. n : Met(b, j)
      <4> HIDE DEF Met
      <4> QED BY <2>1, <2>3, <3>2
    <3> HIDE DEF Met, From, Apart
    <3> QED BY <2>3, <2>5, <3>1, <3>3
  <2>6. CASE /\ Len(a) = Len(b) + 1
             /\ \A i \in 1 .. Len(b) : a[i] = b[i]
             /\ a[Len(b) + 1] = s[n]
             /\ \A i \in 1 .. Len(b) : ~Overlap(b[i], s[n]) /\ ~Overlap(s[n], b[i])
    <3>1. \A i \in 1 .. Len(a) : i \in 1 .. Len(b) \/ i = Len(b) + 1
      BY <2>2, <2>6
    <3>2. From(a, n)
      <4>1. Len(a) <= n
        BY <2>2, <2>3, <2>6
      <4>2. ASSUME NEW i \in 1 .. Len(b) PROVE \E j \in 1 .. n : a[i] = s[j]
        <5>1. PICK j \in 1 .. n - 1 : b[i] = s[j]
          BY <2>3
        <5>2. j \in 1 .. n /\ a[i] = s[j]
          BY <2>6, <5>1
        <5> QED BY <5>2
      <4>3. \E j \in 1 .. n : a[Len(b) + 1] = s[j]
        BY <2>6
      <4> QED BY <3>1, <4>1, <4>2, <4>3
    <3>3. Apart(a)
      BY <2>3, <2>6, <3>1
    <3>4. \A y : Within(y, b) => Within(y, a)
      <4>1. \A i \in 1 .. Len(b) : i \in 1 .. Len(a) /\ a[i] = b[i]
        BY <2>2, <2>6
      <4> QED BY <4>1 DEF Within
    <3>5. Met(a, n)
      <4>1. Len(b) + 1 \in 1 .. Len(a)
        BY <2>2, <2>6
      <4> QED BY <2>6, <4>1 DEF Within
    <3>6. \A j \in 1 .. n : Met(a, j)
      BY <2>1, <2>3, <3>4, <3>5
    <3> QED BY <3>2, <3>3, <3>6
  <2> HIDE DEF From, Apart, Met
  <2> QED BY <2>2, <2>5, <2>6, AcceptingIs
<1> HIDE DEF P
<1>4. N \in P
  BY <1>2, <1>3, InductionTo
<1>5. k[N] \in Seq(X)
  BY <1>1
<1> QED BY <1>4, <1>5 DEF P

\* It is what DisjointEvidence gives.
LEMMA DisjointIs ==
  ASSUME NEW X, NEW N \in Nat, NEW s \in [1 .. N -> X]
  PROVE  \E k : Accepts(k, s, X, N) /\ DisjointEvidence(s) = k[N]
<1> DEFINE Body(u, n) == IF n = 0 THEN <<>> ELSE Accepting(u[n - 1], s[n])
           U == CHOOSE u : u = [n \in 0 .. N |-> Body(u, n)]
<1>1. Len(s) = N
  OBVIOUS
<1>2. DisjointEvidence(s) = U[N]
  BY <1>1, Zenon DEF DisjointEvidence, Accepting
<1>3. PICK k : Accepts(k, s, X, N)
  BY AcceptsExists
<1>4. k = [n \in 0 .. N |-> Body(k, n)]
  <2>1. /\ k \in [0 .. N -> Seq(X)] /\ k[0] = <<>>
        /\ \A n \in 1 .. N : k[n] = Accepting(k[n - 1], s[n])
    BY <1>3 DEF Accepts
  <2>2. ASSUME NEW n \in 0 .. N PROVE k[n] = Body(k, n)
    <3>1. CASE n = 0
      BY <2>1, <3>1
    <3>2. CASE n # 0
      <4>1. n \in 1 .. N
        BY <3>2
      <4> QED BY <2>1, <3>2, <4>1
    <3> QED BY <3>1, <3>2
  <2> QED BY <2>1, <2>2
<1>5. U = [n \in 0 .. N |-> Body(U, n)]
  BY <1>4
<1> HIDE DEF U
<1>6. U[0] = <<>> /\ DOMAIN U = 0 .. N /\ U = [n \in 0 .. N |-> U[n]]
  <2>1. 0 \in 0 .. N
    OBVIOUS
  <2> QED BY ONLY <1>5, <2>1
<1>7. ASSUME NEW n \in 1 .. N PROVE U[n] = Accepting(U[n - 1], s[n])
  <2>1. n \in 0 .. N /\ n # 0
    OBVIOUS
  <2> QED BY ONLY <1>5, <2>1
<1>8. \A n \in 0 .. N : U[n] \in Seq(X)
  <2> DEFINE P == {n \in 0 .. N : U[n] \in Seq(X)}
  <2>1. 0 \in P
    BY <1>6
  <2>2. ASSUME NEW n \in 1 .. N, n - 1 \in P PROVE n \in P
    <3>1. U[n - 1] \in Seq(X) /\ s[n] \in X /\ n \in 0 .. N
      BY <2>2
    <3>2. Accepting(U[n - 1], s[n]) \in Seq(X)
      BY <3>1, AcceptingIn
    <3> QED BY <1>7, <3>1, <3>2
  <2> HIDE DEF P
  <2>3. \A n \in 0 .. N : n \in P
    BY <2>1, <2>2, InductionTo
  <2> QED BY <2>3 DEF P
<1>9. Accepts(U, s, X, N)
  <2>1. U \in [0 .. N -> Seq(X)]
    BY <1>6, <1>8
  <2> QED BY <1>6, <1>7, <2>1 DEF Accepts
<1> QED BY <1>2, <1>9

\* The results, file by file in turn, are the results.
LEMMA SpreadIs ==
  ASSUME NEW N \in Nat, NEW X, NEW results \in [1 .. N -> X]
  PROVE  Rearranges(SpreadEvidence(results), results, N)
<1> DEFINE D == DOMAIN results
           nth(i) == Cardinality({j \in 1 .. i : SpanOf[results[j]].file = SpanOf[results[i]].file})
           opens(i) == CHOOSE j \in 1 .. i : /\ SpanOf[results[j]].file = SpanOf[results[i]].file
                                             /\ nth(j) = 1
           before(i, j) == nth(i) < nth(j) \/ (nth(i) = nth(j) /\ opens(i) < opens(j))
           places == CHOOSE s \in SetToSeqs(D) : \A i, j \in DOMAIN s : i < j => before(s[i], s[j])
           R == {r \in D \X D : before(r[1], r[2])}
           file(i) == SpanOf[results[i]].file
           Same(i) == {j \in 1 .. i : file(j) = file(i)}
<1>1. SpreadEvidence(results) = [n \in D |-> results[places[n]]]
  BY Zenon DEF SpreadEvidence, InOrder
<1>2. D = 1 .. N /\ IsFiniteSet(D)
  BY FS_Interval
<1>3. \A i : nth(i) = Cardinality(Same(i))
  OBVIOUS
<1>4. \A i : opens(i) = CHOOSE j \in 1 .. i : file(j) = file(i) /\ nth(j) = 1
  OBVIOUS
<1> HIDE DEF nth, opens, file
<1>5. \A i \in D : IsFiniteSet(Same(i)) /\ nth(i) \in Nat
  <2>1. ASSUME NEW i \in D PROVE IsFiniteSet(Same(i)) /\ nth(i) \in Nat
    <3>1. i \in Int /\ 1 \in Int
      BY <1>2
    <3>2. IsFiniteSet(1 .. i)
      BY <3>1, FS_Interval
    <3>3. Same(i) \subseteq 1 .. i
      OBVIOUS
    <3>4. IsFiniteSet(Same(i))
      BY <3>2, <3>3, FS_Subset
    <3>5. Cardinality(Same(i)) \in Nat
      BY <3>4, FS_CardinalityType
    <3> QED BY <1>3, <3>4, <3>5
  <2> QED BY <2>1
<1>6. ASSUME NEW i \in D PROVE opens(i) \in 1 .. i /\ file(opens(i)) = file(i) /\ opens(i) \in Nat
  <2>1. i \in Same(i) /\ Same(i) \subseteq Nat
    BY <1>2
  <2> HIDE DEF Same
  <2>2. PICK j \in Same(i) : \A m \in Same(i) : j <= m
    BY <2>1, LeastNumber
  <2>3. j \in 1 .. i /\ file(j) = file(i) /\ i \in 1 .. N
    BY <1>2 DEF Same
  <2>4. Same(j) = {j}
    <3>1. ASSUME NEW m \in Same(j) PROVE m = j
      <4>1. m \in 1 .. j /\ file(m) = file(j)
        BY <3>1 DEF Same
      <4>2. m \in Same(i)
        BY <2>3, <4>1 DEF Same
      <4> QED BY <2>2, <2>3, <4>1, <4>2
    <3>2. j \in Same(j)
      BY <2>3 DEF Same
    <3> QED BY <3>1, <3>2
  <2>5. nth(j) = 1
    BY <1>3, <2>4, FS_Singleton
  <2>6. \E m \in 1 .. i : file(m) = file(i) /\ nth(m) = 1
    BY <2>3, <2>5
  <2>7. opens(i) \in 1 .. i /\ file(opens(i)) = file(i)
    BY <1>4, <2>6
  <2> QED BY <2>3, <2>7
<1>7. ASSUME NEW i \in D, NEW j \in D, i < j, file(i) = file(j) PROVE nth(i) < nth(j)
  <2>1. i \in 1 .. N /\ j \in 1 .. N
    BY <1>2
  <2>2. Same(i) \subseteq Same(j) /\ j \in Same(j) /\ j \notin Same(i)
    BY <1>7, <2>1
  <2> HIDE DEF Same
  <2>3. Cardinality(Same(i)) <= Cardinality(Same(j)) /\ Cardinality(Same(i)) # Cardinality(Same(j))
    BY <1>5, <2>2, FS_Subset
  <2> QED BY <1>3, <1>5, <2>3
<1>8. Orders(R, D)
  <2> HIDE DEF Same
  <2>1. \A i \in D : nth(i) \in Nat /\ opens(i) \in Nat /\ i \in Nat
    BY <1>2, <1>5, <1>6
  <2>2. \A i, j \in D : opens(i) = opens(j) => file(i) = file(j)
    BY <1>6
  <2>3. \A i, j \in D : i # j => before(i, j) \/ before(j, i)
    BY <1>7, <2>1, <2>2
  <2>4. \A i, j, k \in D : before(i, j) /\ before(j, k) => before(i, k)
    BY <2>1
  <2>5. \A i, j \in D : <<i, j>> \in R <=> before(i, j)
    OBVIOUS
  <2> HIDE DEF before, R
  <2> QED BY <2>3, <2>4, <2>5 DEF Orders
<1>9. \E s \in SetToSeqs(D) : Sorted(s, R)
  BY <1>2, <1>8, SortedExists
<1>10. \E s \in SetToSeqs(D) : \A i, j \in DOMAIN s : i < j => before(s[i], s[j])
  <2>1. \A i, j : <<i, j>> \in R => before(i, j)
    OBVIOUS
  <2> HIDE DEF R, before
  <2> QED BY <1>9, <2>1 DEF Sorted
<1>11. places \in SetToSeqs(D)
  BY <1>10
<1> HIDE DEF places
<1> QED BY <1>1, <1>2, <1>11 DEF Rearranges

\* A set of numbers up to a bound has a greatest.
LEMMA GreatestNumber ==
  ASSUME NEW N \in Nat, NEW S, S \subseteq 0 .. N, S # {}
  PROVE  Max(S) \in S
<1> DEFINE T == {i \in 0 .. N : N - i \in S}
<1>1. T \subseteq Nat
  OBVIOUS
<1>2. T # {}
  <2>1. PICK i \in S : TRUE
    OBVIOUS
  <2>2. i \in 0 .. N /\ N - i \in 0 .. N /\ N - (N - i) = i
    BY <2>1
  <2> QED BY <2>1, <2>2
<1>3. PICK i \in T : \A j \in T : i <= j
  <2> HIDE DEF T
  <2> QED BY <1>1, <1>2, LeastNumber
<1>4. ASSUME NEW j \in S PROVE N - i >= j
  <2>1. j \in 0 .. N /\ N - j \in 0 .. N /\ N - (N - j) = j
    BY <1>4
  <2>2. i <= N - j /\ i \in 0 .. N
    BY <1>3, <1>4, <2>1
  <2> QED BY <2>1, <2>2
<1>5. N - i \in S
  BY <1>3
<1> QED BY <1>4, <1>5 DEF Max

\* The first place of x in a list.
Place(s, x) == SelectInSeq(s, LAMBDA z : z = x)

\* It is the first.
LEMMA PlaceIs ==
  ASSUME NEW N \in Nat, NEW s, DOMAIN s = 1 .. N, Len(s) = N, NEW x, NEW j \in 1 .. N, s[j] = x
  PROVE  /\ Place(s, x) \in 1 .. N /\ s[Place(s, x)] = x
         /\ \A i \in 1 .. N : s[i] = x => Place(s, x) <= i
<1> DEFINE I == {i \in 1 .. N : s[i] = x}
<1>1. I \subseteq Nat /\ I # {}
  OBVIOUS
<1>2. Place(s, x) = Min(I)
  BY <1>1 DEF Place, SelectInSeq
<1>3. PICK i \in I : \A m \in I : i <= m
  <2> HIDE DEF I
  <2> QED BY <1>1, LeastNumber
<1>4. Min(I) \in I /\ \A m \in I : Min(I) <= m
  BY <1>3 DEF Min
<1> QED BY <1>2, <1>4

\* The smaller of two numbers.
LEMMA SmallerIs ==
  ASSUME NEW a \in Nat, NEW b \in Nat
  PROVE  Min({a, b}) \in Nat /\ Min({a, b}) <= a /\ Min({a, b}) <= b
<1>1. \E x \in {a, b} : \A y \in {a, b} : x <= y
  OBVIOUS
<1>2. Min({a, b}) \in {a, b} /\ \A y \in {a, b} : Min({a, b}) <= y
  BY <1>1 DEF Min
<1> QED BY <1>2

\* A pack says what became of the results it was given, and is of some of them.
LEMMA BuildFacts ==
  ASSUME NEW N \in Nat, NEW results \in [1 .. N -> Evidence], NEW options,
         options.limit \in Nat, options.prefer \in BOOLEAN
  PROVE  /\ PackHonest(results, options, BuildContextPack(results, options))
         /\ ToSet(BuildContextPack(results, options).results) \subseteq ToSet(results)
         /\ BuildContextPack(results, options).candidates = N
<1> DEFINE ranked == IF options.preserve THEN results ELSE RankedEvidence(results, options.prefer)
           disjoint == DisjointEvidence(ranked)
           spread == IF options.preserve THEN disjoint ELSE SpreadEvidence(disjoint)
           size == Min({options.limit, Len(spread)})
           selectable == SubSeq(spread, 1, size)
           counts(n) == [duplicate |-> Len(results) - Len(disjoint),
                         limit |-> Len(disjoint) - Len(selectable),
                         budget |-> Len(selectable) - n]
           text(n) == PackText(options.heading, SubSeq(selectable, 1, n), counts(n), options.handoff)
           budget == Budget(options.budget)
           fitting == {n \in 0 .. Len(selectable) : \A m \in 1 .. n : text(m) <= budget}
           taken == Max(fitting)
           chosen == SubSeq(selectable, 1, taken)
           pack == BuildContextPack(results, options)
<1>1. pack = [results |-> chosen, ranked |-> ranked, disjoint |-> disjoint,
              candidates |-> Len(results), omitted |-> counts(taken), tokens |-> text(taken),
              budget |-> budget]
  BY Zenon DEF BuildContextPack
<1>2. Len(results) = N /\ ToSet(results) = {results[i] : i \in 1 .. N}
  BY DEF ToSet
<1> HIDE DEF pack
<1>3. /\ ranked \in [1 .. N -> Evidence] /\ Len(ranked) = N
      /\ \A i \in 1 .. N : \E j \in 1 .. N : ranked[j] = results[i]
      /\ \A i \in 1 .. N : \E j \in 1 .. N : ranked[i] = results[j]
  <2>1. CASE options.preserve
    BY <2>1
  <2>2. CASE ~options.preserve
    <3> HIDE DEF ranked
    <3>1. Rearranges(ranked, results, N)
      BY <2>2, RankedIs DEF ranked
    <3>2. Len(ranked) = N
      BY <3>1 DEF Rearranges
    <3>3. /\ ranked \in [1 .. N -> Evidence]
          /\ \A i \in 1 .. N : \E j \in 1 .. N : ranked[j] = results[i]
          /\ \A i \in 1 .. N : \E j \in 1 .. N : ranked[i] = results[j]
      <4>1. PICK p : Permutes(p, ranked, results, N)
        BY <3>1, RearrangedIs
      <4> QED BY <4>1 DEF Permutes
    <3> QED BY <3>2, <3>3
  <2> QED BY <2>1, <2>2
<1> HIDE DEF ranked
<1>4. PICK k : Accepts(k, ranked, Evidence, N) /\ disjoint = k[N]
  BY <1>3, DisjointIs
<1>5. /\ disjoint \in Seq(Evidence) /\ Len(disjoint) <= N
      /\ \A i \in 1 .. Len(disjoint) : \E j \in 1 .. N : disjoint[i] = ranked[j]
      /\ \A i, j \in 1 .. Len(disjoint) : i # j => ~Overlap(disjoint[i], disjoint[j])
      /\ \A j \in 1 .. N : \/ Within(ranked[j], disjoint)
                           \/ \E i \in 1 .. j - 1 : Within(ranked[i], disjoint) /\ Overlap(ranked[j], ranked[i])
  <2> HIDE DEF disjoint
  <2>1. ranked \in [1 .. N -> Evidence] /\ Accepts(k, ranked, Evidence, N)
    BY <1>3, <1>4
  <2>2. /\ k[N] \in Seq(Evidence) /\ Len(k[N]) <= N
        /\ \A i \in 1 .. Len(k[N]) : \E j \in 1 .. N : k[N][i] = ranked[j]
        /\ \A i, j \in 1 .. Len(k[N]) : i # j => ~Overlap(k[N][i], k[N][j])
        /\ \A j \in 1 .. N : \/ Within(ranked[j], k[N])
                             \/ \E i \in 1 .. j - 1 : Within(ranked[i], k[N]) /\ Overlap(ranked[j], ranked[i])
    BY ONLY <2>1, N \in Nat, AcceptedIs
  <2>3. disjoint = k[N]
    BY <1>4
  <2> QED BY ONLY <2>2, <2>3
<1> DEFINE M == Len(disjoint)
<1>6. M \in Nat /\ disjoint \in [1 .. M -> Evidence] /\ ToSet(disjoint) = {disjoint[i] : i \in 1 .. M}
  BY <1>5 DEF ToSet
<1> HIDE DEF disjoint
<1>7. /\ spread \in [1 .. M -> Evidence] /\ Len(spread) = M
      /\ \E p \in [1 .. M -> 1 .. M] : /\ \A i \in 1 .. M : spread[i] = disjoint[p[i]]
                                       /\ \A i, j \in 1 .. M : p[i] = p[j] => i = j
  <2>1. CASE options.preserve
    <3>1. spread = disjoint
      BY <2>1
    <3> DEFINE p == [i \in 1 .. M |-> i]
    <3>2. /\ p \in [1 .. M -> 1 .. M] /\ \A i \in 1 .. M : disjoint[i] = disjoint[p[i]]
          /\ \A i, j \in 1 .. M : p[i] = p[j] => i = j
      OBVIOUS
    <3> HIDE DEF p
    <3> QED BY <1>6, <3>1, <3>2
  <2>2. CASE ~options.preserve
    <3> HIDE DEF spread, M
    <3>1. Rearranges(spread, disjoint, M)
      BY <1>6, <2>2, SpreadIs DEF spread
    <3>2. Len(spread) = M
      BY <1>6, <3>1 DEF Rearranges
    <3>3. /\ spread \in [1 .. M -> Evidence]
          /\ \E p \in [1 .. M -> 1 .. M] : /\ \A i \in 1 .. M : spread[i] = disjoint[p[i]]
                                           /\ \A i, j \in 1 .. M : p[i] = p[j] => i = j
      <4>1. PICK p : Permutes(p, spread, disjoint, M)
        BY <1>6, <3>1, RearrangedIs
      <4> QED BY <1>6, <4>1 DEF Permutes
    <3> QED BY <3>2, <3>3
  <2> QED BY <2>1, <2>2
<1> HIDE DEF spread, M
<1>8. size \in Nat /\ size <= options.limit /\ size <= M
  BY <1>6, <1>7, SmallerIs
<1> HIDE DEF size
<1>9. Len(selectable) = size /\ \A i \in 1 .. size : selectable[i] = spread[i]
  BY <1>6, <1>7, <1>8
<1> HIDE DEF selectable
<1>10. taken \in 0 .. size /\ \A m \in 1 .. taken : text(m) <= budget
  <2> HIDE DEF text, budget
  <2>1. 0 \in fitting /\ fitting \subseteq 0 .. size
    BY <1>8, <1>9
  <2> HIDE DEF fitting
  <2>2. taken \in fitting
    BY <1>8, <2>1, GreatestNumber
  <2> QED BY <1>9, <2>2 DEF fitting
<1> HIDE DEF taken, text, budget
<1>11. Len(chosen) = taken /\ DOMAIN chosen = 1 .. taken /\ \A i \in 1 .. taken : chosen[i] = spread[i] /\ i \in 1 .. M
  BY <1>6, <1>7, <1>8, <1>9, <1>10 DEF selectable
<1> HIDE DEF chosen
<1>12. /\ pack.results = chosen /\ pack.ranked = ranked /\ pack.disjoint = disjoint
       /\ pack.candidates = N /\ pack.tokens = text(taken) /\ pack.budget = budget
       /\ pack.omitted.duplicate = N - M /\ pack.omitted.limit = M - size
       /\ pack.omitted.budget = size - taken
  BY <1>1, <1>2, <1>9 DEF M
<1>13. ASSUME NEW i \in DOMAIN chosen, NEW j \in DOMAIN chosen, i # j
       PROVE  ~Overlap(chosen[i], chosen[j])
  <2>1. PICK p \in [1 .. M -> 1 .. M] : /\ \A m \in 1 .. M : spread[m] = disjoint[p[m]]
                                       /\ \A m, l \in 1 .. M : p[m] = p[l] => m = l
    BY ONLY <1>7
  <2>2. i \in 1 .. M /\ j \in 1 .. M /\ chosen[i] = spread[i] /\ chosen[j] = spread[j]
    BY ONLY <1>11, <1>13
  <2>3. p[i] \in 1 .. M /\ p[j] \in 1 .. M /\ p[i] # p[j]
    BY ONLY <1>13, <2>1, <2>2
  <2>4. ~Overlap(disjoint[p[i]], disjoint[p[j]])
    BY ONLY <1>5, <2>3 DEF M
  <2> QED BY ONLY <2>1, <2>2, <2>4
<1>14. ASSUME NEW x \in ToSet(results) \ ToSet(disjoint)
       PROVE  \E y \in ToSet(disjoint) : Overlap(x, y) /\ Place(ranked, y) < Place(ranked, x)
  <2>1. PICK j \in 1 .. N : ranked[j] = x
    BY <1>2, <1>3
  <2>2. DOMAIN ranked = 1 .. N /\ Len(ranked) = N
    BY <1>3
  <2>3. Place(ranked, x) \in 1 .. N /\ ranked[Place(ranked, x)] = x
    BY <2>1, <2>2, PlaceIs
  <2>4. ~Within(x, disjoint)
    BY <1>6, <1>14 DEF Within, M
  <2>5. PICK i \in 1 .. Place(ranked, x) - 1 : Within(ranked[i], disjoint) /\ Overlap(x, ranked[i])
    BY <1>5, <2>3, <2>4
  <2>6. i \in 1 .. N /\ i < Place(ranked, x)
    BY <2>3
  <2>7. Place(ranked, ranked[i]) \in 1 .. N /\ Place(ranked, ranked[i]) <= i
    BY <2>2, <2>6, PlaceIs
  <2>8. ranked[i] \in ToSet(disjoint)
    BY <1>6, <2>5 DEF Within, M
  <2> QED BY <2>3, <2>5, <2>6, <2>7, <2>8
<1>15. PackHonest(results, options, pack)
  <2>1. pack.candidates = Len(pack.results) + pack.omitted.duplicate + pack.omitted.limit + pack.omitted.budget
    <3>1. taken \in Nat /\ N = taken + (N - M) + (M - size) + (size - taken)
      BY <1>6, <1>8, <1>10
    <3> QED BY ONLY <1>11, <1>12, <3>1
  <2>2. Len(pack.results) <= options.limit
    BY <1>8, <1>10, <1>11, <1>12
  <2>3. pack.results # <<>> => pack.tokens <= pack.budget
    <3>1. ASSUME chosen # <<>> PROVE taken \in 1 .. taken
      <4>1. taken # 0
        BY <1>11, <3>1
      <4> QED BY <1>8, <1>10, <4>1
    <3> QED BY <1>10, <1>12, <3>1
  <2>4. \A x \in ToSet(results) \ ToSet(pack.disjoint) :
          \E y \in ToSet(pack.disjoint) :
            /\ Overlap(x, y)
            /\ SelectInSeq(pack.ranked, LAMBDA z : z = y) < SelectInSeq(pack.ranked, LAMBDA z : z = x)
    BY <1>12, <1>14, Zenon DEF Place
  <2> QED BY <1>12, <1>13, <2>1, <2>2, <2>3, <2>4, Zenon DEF PackHonest
<1>16. ToSet(pack.results) \subseteq ToSet(results)
  <2>1. ASSUME NEW i \in 1 .. taken PROVE chosen[i] \in ToSet(results)
    <3>1. PICK j \in 1 .. M : chosen[i] = disjoint[j]
      <4>1. PICK p \in [1 .. M -> 1 .. M] : \A m \in 1 .. M : spread[m] = disjoint[p[m]]
        BY ONLY <1>7
      <4>2. i \in 1 .. M /\ chosen[i] = spread[i]
        BY ONLY <1>11, i \in 1 .. taken
      <4> QED BY ONLY <4>1, <4>2
    <3>2. PICK m \in 1 .. N : disjoint[j] = ranked[m]
      BY <1>5 DEF M
    <3>3. PICK l \in 1 .. N : ranked[m] = results[l]
      BY <1>3
    <3> QED BY <1>2, <3>1, <3>2, <3>3
  <2>2. ToSet(chosen) = {chosen[i] : i \in 1 .. taken}
    BY <1>11 DEF ToSet
  <2> QED BY <1>12, <2>1, <2>2
<1> QED BY <1>12, <1>15, <1>16 DEF pack

-----------------------------------------------------------------------------
(* The attempts of a request.                                               *)

\* The attempts within the filters come first, and the others ask what one of them asked.
Ordered(P, request) ==
  /\ Len(P) \in Nat /\ DOMAIN P = 1 .. Len(P) /\ P \in Seq(ToSet(P))
  /\ \A i \in DOMAIN P :
       \/ P[i].filters = request.filters /\ P[i].relaxed = {}
       \/ request.filters # {} /\ P[i].filters = {} /\ P[i].relaxed = request.filters
  /\ \A i, j \in DOMAIN P :
       P[i].filters = request.filters /\ P[j].filters # request.filters => i < j
  /\ \A i \in DOMAIN P : \E j \in 1 .. i :
       P[j].filters = request.filters /\ P[j].kind = P[i].kind /\ P[j].query = P[i].query
  /\ request.symbol # NoQuestion => \A i \in DOMAIN P : P[i].kind = "definition"

\* What is asked within the filters, and what is asked again without.
Inside(w, request) ==
  /\ \A i \in 1 .. Len(w) : w[i].filters = request.filters /\ w[i].relaxed = {}
  /\ request.symbol # NoQuestion => \A i \in 1 .. Len(w) : w[i].kind = "definition"

Outside(o, w, request) ==
  \A i \in 1 .. Len(o) :
    /\ request.filters # {} /\ o[i].filters = {} /\ o[i].relaxed = request.filters
    /\ \E j \in 1 .. Len(w) : w[j].kind = o[i].kind /\ w[j].query = o[i].query

\* The one after the other is ordered.
LEMMA OrderedParts ==
  ASSUME NEW X, NEW w \in Seq(X), NEW o \in Seq(X), NEW request,
         Inside(w, request), Outside(o, w, request)
  PROVE  Ordered(w \o o, request)
<1> DEFINE P == w \o o
           m == Len(w)
           n == Len(o)
<1>1. /\ Len(P) = m + n /\ DOMAIN P = 1 .. m + n /\ m \in Nat /\ n \in Nat
      /\ \A i \in 1 .. m : P[i] = w[i]
      /\ \A i \in m + 1 .. m + n : P[i] = o[i - m] /\ i - m \in 1 .. n
  OBVIOUS
<1>2. \A i \in 1 .. m : P[i].filters = request.filters /\ P[i].relaxed = {}
  BY <1>1 DEF Inside
<1>3. \A i \in m + 1 .. m + n :
        /\ request.filters # {} /\ P[i].filters = {} /\ P[i].relaxed = request.filters
        /\ \E j \in 1 .. m : w[j].kind = P[i].kind /\ w[j].query = P[i].query
  BY <1>1 DEF Outside
<1>4. \A i \in m + 1 .. m + n : \E j \in 1 .. m : P[j].kind = P[i].kind /\ P[j].query = P[i].query
  BY <1>1, <1>3
<1>5. request.symbol # NoQuestion => \A i \in 1 .. m : P[i].kind = "definition"
  BY <1>1 DEF Inside
<1>13. SUFFICES Ordered(P, request)
  OBVIOUS
<1> HIDE DEF P, m, n
<1>6. \A i \in 1 .. m + n : i \in 1 .. m \/ i \in m + 1 .. m + n
  BY <1>1
<1>7. \A i \in 1 .. m : i \in 1 .. m + n /\ i \in 1 .. i
  BY <1>1
<1>8. \A i \in m + 1 .. m + n, j \in 1 .. m : j \in 1 .. i /\ j < i
  BY <1>1
<1>9. \A i \in DOMAIN P :
        \/ P[i].filters = request.filters /\ P[i].relaxed = {}
        \/ request.filters # {} /\ P[i].filters = {} /\ P[i].relaxed = request.filters
  BY <1>1, <1>2, <1>3, <1>6
<1>10. \A i, j \in DOMAIN P :
         P[i].filters = request.filters /\ P[j].filters # request.filters => i < j
  BY <1>1, <1>2, <1>3, <1>6, <1>8
<1>11. ASSUME NEW i \in DOMAIN P
       PROVE  \E j \in 1 .. i :
                P[j].filters = request.filters /\ P[j].kind = P[i].kind /\ P[j].query = P[i].query
  <2>1. CASE i \in 1 .. m
    BY <1>2, <1>7, <2>1
  <2>2. CASE i \in m + 1 .. m + n
    BY <1>2, <1>4, <1>8, <2>2
  <2> QED BY <1>1, <1>6, <2>1, <2>2
<1>12. request.symbol # NoQuestion => \A i \in DOMAIN P : P[i].kind = "definition"
  BY <1>1, <1>4, <1>5, <1>6
<1>14. Len(P) \in Nat /\ DOMAIN P = 1 .. Len(P) /\ P \in Seq(ToSet(P))
  <2>1. P \in Seq(X)
    BY DEF P
  <2> QED BY <2>1 DEF ToSet
<1> QED BY <1>9, <1>10, <1>11, <1>12, <1>14 DEF Ordered

\* So is the plan of a request.
LEMMA PlanIs ==
  ASSUME NEW request
  PROVE  Ordered(Plan(request), request)
<1> DEFINE F == request.filters
           symbol == IF request.symbol # NoQuestion THEN request.symbol ELSE request.inferred
           lookup == IF symbol = NoQuestion THEN <<>>
                     ELSE <<Attempt("definition", symbol, F, {})>>
           again == IF F = {} THEN <<>>
                    ELSE <<Attempt("definition", symbol, {}, F)>>
           queries == <<request.query>>
                      \o (IF request.inferred \in {NoQuestion, request.query} THEN <<>>
                          ELSE <<request.inferred>>)
           X == [kind : {"definition", "conceptual"},
                 query : {request.query, request.symbol, request.inferred},
                 filters : {F, {}}, relaxed : {F, {}}]
<1>1. lookup \in Seq(X) /\ again \in Seq(X)
  <2>1. Attempt("definition", symbol, F, {}) \in X /\ Attempt("definition", symbol, {}, F) \in X
    BY DEF Attempt
  <2> HIDE DEF X, symbol
  <2> QED BY <2>1
<1>2. \A i \in 1 .. Len(lookup) :
        lookup[i].filters = F /\ lookup[i].relaxed = {} /\ lookup[i].kind = "definition"
  BY DEF Attempt
<1>3. CASE request.symbol # NoQuestion
  <2>1. Plan(request) = lookup \o again
    BY <1>3, Zenon DEF Plan
  <2>2. \A i \in 1 .. Len(again) :
          /\ F # {} /\ again[i].filters = {} /\ again[i].relaxed = F
          /\ \E j \in 1 .. Len(lookup) : /\ lookup[j].kind = again[i].kind
                                         /\ lookup[j].query = again[i].query
    BY <1>3 DEF Attempt
  <2> HIDE DEF lookup, again, X
  <2>3. Inside(lookup, request) /\ Outside(again, lookup, request)
    BY <1>2, <2>2 DEF Inside, Outside
  <2> QED BY <1>1, <2>1, <2>3, OrderedParts
<1>4. CASE request.symbol = NoQuestion
  <2> DEFINE within == [n \in DOMAIN queries |-> Attempt("conceptual", queries[n], F, {})]
             without == IF F = {} THEN <<>>
                        ELSE [n \in DOMAIN queries |-> Attempt("conceptual", queries[n], {}, F)]
             q == Len(queries)
  <2>1. Plan(request) = lookup \o (within \o without)
    BY <1>4, Zenon DEF Plan, ConceptualAttempts
  <2>2. queries \in [1 .. q -> {request.query, request.symbol, request.inferred}] /\ q \in Nat
    <3> DEFINE Y == {request.query, request.symbol, request.inferred}
    <3>1. queries \in Seq(Y)
      <4>1. request.query \in Y /\ request.inferred \in Y
        OBVIOUS
      <4> HIDE DEF Y
      <4> QED BY <4>1
    <3> HIDE DEF queries, Y
    <3>2. queries \in [1 .. q -> Y] /\ q \in Nat
      BY <3>1
    <3> QED BY <3>2 DEF Y
  <2> HIDE DEF queries, q
  <2>3. /\ within \in [1 .. q -> X]
        /\ \A n \in 1 .. q : within[n] = Attempt("conceptual", queries[n], F, {})
    BY <2>2 DEF Attempt
  <2>4. /\ without \in Seq(X)
        /\ \A n \in 1 .. Len(without) : /\ F # {} /\ n \in 1 .. q
                                        /\ without[n] = Attempt("conceptual", queries[n], {}, F)
    <3>1. \A n \in 1 .. q : Attempt("conceptual", queries[n], {}, F) \in X
      BY <2>2 DEF Attempt
    <3> HIDE DEF X
    <3>2. CASE F = {}
      BY <3>2
    <3>3. CASE F # {}
      <4>1. without = [n \in 1 .. q |-> Attempt("conceptual", queries[n], {}, F)]
        BY <2>2, <3>3
      <4>2. without \in [1 .. q -> X]
        BY <3>1, <4>1
      <4>3. without \in Seq(X) /\ Len(without) = q
        <5> HIDE DEF without
        <5> QED BY <2>2, <4>2
      <4> QED BY <3>3, <4>1, <4>3
    <3> QED BY <3>2, <3>3
  <2> HIDE DEF lookup, within, without, X
  <2> DEFINE w == lookup \o within
  <2>5. within \in Seq(X) /\ Len(within) = q
    BY <2>2, <2>3
  <2>6. /\ w \in Seq(X) /\ Len(w) = Len(lookup) + q /\ Len(lookup) \in Nat
        /\ \A i \in 1 .. Len(lookup) : w[i] = lookup[i]
        /\ \A i \in Len(lookup) + 1 .. Len(lookup) + q : w[i] = within[i - Len(lookup)]
    BY <1>1, <2>2, <2>5
  <2>7. lookup \o (within \o without) = w \o without
    BY <1>1, <2>4, <2>5
  <2> HIDE DEF w
  <2>8. \A i \in 1 .. Len(w) : w[i].filters = F /\ w[i].relaxed = {}
    <3>1. ASSUME NEW i \in Len(lookup) + 1 .. Len(lookup) + q
          PROVE  w[i].filters = F /\ w[i].relaxed = {}
      <4>1. i - Len(lookup) \in 1 .. q
        BY <2>2, <2>6
      <4> QED BY <2>3, <2>6, <4>1 DEF Attempt
    <3>2. \A i \in 1 .. Len(w) : i \in 1 .. Len(lookup) \/ i \in Len(lookup) + 1 .. Len(lookup) + q
      BY <2>2, <2>6
    <3> QED BY <1>2, <2>6, <3>1, <3>2
  <2>9. ASSUME NEW i \in 1 .. Len(without)
        PROVE  /\ F # {} /\ without[i].filters = {} /\ without[i].relaxed = F
               /\ \E j \in 1 .. Len(w) : /\ w[j].kind = without[i].kind
                                         /\ w[j].query = without[i].query
    <3>1. F # {} /\ i \in 1 .. q /\ without[i] = Attempt("conceptual", queries[i], {}, F)
      BY <2>4
    <3> DEFINE j == Len(lookup) + i
    <3>2. j \in Len(lookup) + 1 .. Len(lookup) + q /\ j - Len(lookup) = i /\ j \in 1 .. Len(w)
      BY <2>2, <2>6, <3>1
    <3>3. w[j] = Attempt("conceptual", queries[i], F, {})
      BY <2>3, <2>6, <3>1, <3>2
    <3> HIDE DEF j
    <3> QED BY <3>1, <3>2, <3>3 DEF Attempt
  <2>10. Inside(w, request) /\ Outside(without, w, request)
    BY <1>4, <2>8, <2>9 DEF Inside, Outside
  <2> QED BY <2>1, <2>4, <2>6, <2>7, <2>10, OrderedParts
<1> QED BY <1>3, <1>4

-----------------------------------------------------------------------------
(* The inductive invariant.                                                 *)

\* While attempts are made, those that were found nothing, and the others follow.
Waiting(request, pending, made) ==
  LET P == Plan(request)
      n == Len(made)
  IN /\ n \in Nat /\ made \in Seq({Recorded(P[i], 0) : i \in DOMAIN P})
     /\ \A i \in 1 .. n : i \in DOMAIN P /\ made[i] = Recorded(P[i], 0)
     /\ pending \in Seq(ToSet(P)) /\ n + Len(pending) = Len(P)
     /\ \A i \in 1 .. Len(pending) : pending[i] = P[n + i]

\* What RecoveryHonest says of an answer.
Recovered(c) ==
  LET request == c.request
      asked == {<<a.kind, a.query>> : a \in ToSet(c.made)}
      within == {<<a.kind, a.query>> : a \in {b \in ToSet(c.made) : b.filters = request.filters}}
  IN /\ \A x \in ToSet(c.pack.results) :
          \/ request.filters \subseteq Passes[x]
          \/ /\ c.decisions.relaxed = request.filters
             /\ \A k \in DOMAIN Plan(request) :
                  LET a == Plan(request)[k]
                  IN a.filters = request.filters => <<a.kind, a.query>> \in within
             /\ \A a \in ToSet(c.made) : a.filters = request.filters => a.found = 0
     /\ asked \subseteq within
     /\ request.symbol # NoQuestion => \A a \in ToSet(c.made) : a.kind = "definition"
     /\ c.successful = Len(c.made)
     /\ c.made[c.successful].found = c.pack.candidates
     /\ \A n \in DOMAIN c.made : n < c.successful => c.made[n].found = 0
     /\ PackHonest(c.found, c.options, c.pack)

ContextInv ==
  /\ context.step = "attempts" =>
       /\ context = [step |-> "attempts", request |-> context.request,
                     pending |-> context.pending, made |-> context.made]
       /\ Waiting(context.request, context.pending, context.made)
  /\ context.step = "packed" => Recovered(context)
  /\ ListingFits

\* What an attempt may find passes its filters.
LEMMA AnswerIs ==
  ASSUME NEW filters, NEW results \in Answers(filters), results # <<>>
  PROVE  \E N \in Nat : /\ results \in [1 .. N -> Evidence] /\ Len(results) = N /\ N # 0
                        /\ \A x \in ToSet(results) : filters \subseteq Passes[x]
<1> DEFINE passing == {x \in Evidence : filters \subseteq Passes[x]}
<1>1. PICK N \in 0 .. LongestAnswer : results \in [1 .. N -> passing]
  BY DEF Answers
<1>2. N \in Nat
  BY RequestAssumption
<1>3. Len(results) = N /\ ToSet(results) = {results[i] : i \in 1 .. N}
  BY <1>1, <1>2 DEF ToSet
<1>4. N # 0
  BY <1>1
<1> QED BY <1>1, <1>2, <1>3, <1>4

\* What was asked, and what was asked within the filters.
Asked(made) == {<<a.kind, a.query>> : a \in ToSet(made)}
AskedIn(made, filters) == {<<a.kind, a.query>> : a \in {b \in ToSet(made) : b.filters = filters}}

\* The attempts made are the first n, and the i-th found found[i] results.
MadeOf(made, P, n, found) ==
  DOMAIN made = 1 .. n /\ \A i \in 1 .. n : made[i] = Recorded(P[i], found[i])

\* Everything asked was asked within the filters; all that is to be, when it is asked without.
LEMMA AskedWithin ==
  ASSUME NEW request, NEW P, Ordered(P, request), NEW n \in 1 .. Len(P), NEW made, NEW found,
         MadeOf(made, P, n, found)
  PROVE  /\ Asked(made) \subseteq AskedIn(made, request.filters)
         /\ P[n].filters # request.filters =>
              \A k \in DOMAIN P : P[k].filters = request.filters =>
                                    <<P[k].kind, P[k].query>> \in AskedIn(made, request.filters)
<1> DEFINE within == AskedIn(made, request.filters)
<1>0. DOMAIN made = 1 .. n /\ \A i \in 1 .. n : made[i] = Recorded(P[i], found[i])
  BY DEF MadeOf
<1>1. ToSet(made) = {made[i] : i \in 1 .. n} /\ Len(P) \in Nat /\ DOMAIN P = 1 .. Len(P)
  BY <1>0 DEF ToSet, Ordered
<1>2. \A i \in 1 .. n : /\ made[i].kind = P[i].kind /\ made[i].query = P[i].query
                        /\ made[i].filters = P[i].filters /\ made[i].relaxed = P[i].relaxed
  BY <1>0 DEF Recorded
<1>3. ASSUME NEW j \in 1 .. n, P[j].filters = request.filters
      PROVE  <<P[j].kind, P[j].query>> \in within
  <2>1. made[j] \in {b \in ToSet(made) : b.filters = request.filters}
    BY <1>1, <1>2, <1>3
  <2> QED BY <1>2, <2>1 DEF AskedIn
<1>4. ASSUME NEW a \in ToSet(made) PROVE <<a.kind, a.query>> \in within
  <2>1. PICK i \in 1 .. n : a = made[i]
    BY <1>1
  <2>2. i \in DOMAIN P
    BY <1>1
  <2>3. PICK j \in 1 .. i : /\ P[j].filters = request.filters
                            /\ P[j].kind = P[i].kind /\ P[j].query = P[i].query
    BY <2>2 DEF Ordered
  <2>4. j \in 1 .. n
    BY <2>3
  <2>5. <<P[j].kind, P[j].query>> \in within
    BY <1>3, <2>3, <2>4
  <2> HIDE DEF within
  <2> QED BY <1>2, <2>1, <2>3, <2>5
<1>5. ASSUME P[n].filters # request.filters, NEW k \in DOMAIN P, P[k].filters = request.filters
      PROVE  <<P[k].kind, P[k].query>> \in within
  <2>1. n \in DOMAIN P /\ k \in DOMAIN P
    BY <1>1, <1>5
  <2>2. k < n
    BY <1>5, <2>1 DEF Ordered
  <2>3. k \in 1 .. n
    BY <1>1, <2>1, <2>2
  <2> QED BY <1>3, <1>5, <2>3
<1> QED BY <1>4, <1>5 DEF Asked

\* The attempt that finds something is the one that succeeds.
LEMMA SuccessfulIs ==
  ASSUME NEW n \in Nat, n # 0, NEW made, DOMAIN made = 1 .. n, NEW route,
         made[n].kind = route, made[n].found > 0, \A i \in 1 .. n : i # n => made[i].found = 0
  PROVE  SuccessfulAttempt(route, made) = n
<1> DEFINE found == {i \in DOMAIN made : made[i].kind = route /\ made[i].found > 0}
<1>1. n \in 1 .. n
  OBVIOUS
<1>2. found = {n}
  <2>1. \A i \in 1 .. n : made[i].found = 0 => ~(made[i].found > 0)
    OBVIOUS
  <2> QED BY <1>1, <2>1
<1>3. SuccessfulAttempt(route, made) = Max({n})
  <2>1. SuccessfulAttempt(route, made) = IF found = {} THEN 0 ELSE Max(found)
    BY Zenon DEF SuccessfulAttempt
  <2> HIDE DEF found
  <2> QED BY <1>2, <2>1
<1>4. Max({n}) \in {n}
  BY GreatestNumber
<1> QED BY <1>3, <1>4

\* What was relaxed, when the last attempt left the filters out.
LEMMA RelaxedIs ==
  ASSUME NEW request, NEW P, Ordered(P, request), NEW n \in 1 .. Len(P), NEW made, NEW found,
         MadeOf(made, P, n, found), P[n].filters # request.filters
  PROVE  Decisions(request, made).relaxed = request.filters
<1>1. Len(P) \in Nat /\ DOMAIN P = 1 .. Len(P)
  BY DEF Ordered
<1>2. \A i \in 1 .. n : i \in DOMAIN P /\ made[i].relaxed = P[i].relaxed
  BY <1>1 DEF MadeOf, Recorded
<1>3. \A i \in 1 .. n : made[i].relaxed \subseteq request.filters
  <2>1. \A i \in DOMAIN P : P[i].relaxed = {} \/ P[i].relaxed = request.filters
    BY DEF Ordered
  <2> QED BY <1>2, <2>1
<1>4. n \in 1 .. n /\ made[n].relaxed = request.filters
  <2>1. n \in DOMAIN P /\ n \in 1 .. n
    BY <1>1
  <2>2. P[n].relaxed = request.filters
    BY <2>1 DEF Ordered
  <2> QED BY <1>2, <2>1, <2>2
<1>5. Decisions(request, made).relaxed = UNION {made[i].relaxed : i \in 1 .. n}
  BY DEF MadeOf, Decisions
<1> QED BY <1>3, <1>4, <1>5

\* An attempt that finds something is answered honestly.
LEMMA PackedIs ==
  ASSUME NEW request, NEW pending, NEW made, Waiting(request, pending, made), pending # <<>>,
         NEW results \in Answers(Head(pending).filters), results # <<>>,
         NEW more, more = Append(made, Recorded(Head(pending), Len(results))),
         NEW options, options.limit \in Nat, options.prefer \in BOOLEAN,
         NEW c, c = [step |-> "packed", request |-> request, made |-> more,
                     decisions |-> Decisions(request, more),
                     route |-> Head(pending).kind, found |-> results, options |-> options,
                     successful |-> SuccessfulAttempt(Head(pending).kind, more),
                     pack |-> BuildContextPack(results, options)]
  PROVE  Recovered(c)
<1> DEFINE P == Plan(request)
           n == Len(made) + 1
           pack == BuildContextPack(results, options)
<1>1. Ordered(P, request)
  BY PlanIs
<1>2. /\ Len(made) \in Nat /\ made \in Seq({Recorded(P[i], 0) : i \in DOMAIN P})
      /\ \A i \in 1 .. Len(made) : i \in DOMAIN P /\ made[i] = Recorded(P[i], 0)
      /\ pending \in Seq(ToSet(P)) /\ Len(made) + Len(pending) = Len(P)
      /\ \A i \in 1 .. Len(pending) : pending[i] = P[Len(made) + i]
  BY Zenon DEF Waiting
<1> HIDE DEF P
<1>3. Len(P) \in Nat /\ DOMAIN P = 1 .. Len(P)
  BY <1>1 DEF Ordered
<1>4. Len(pending) \in Nat /\ Len(pending) # 0 /\ Head(pending) = pending[1]
  BY <1>2
<1>5. n \in 1 .. Len(P) /\ Head(pending) = P[n]
  BY <1>2, <1>3, <1>4
<1>6. PICK N \in Nat : /\ results \in [1 .. N -> Evidence] /\ Len(results) = N /\ N # 0
                       /\ \A x \in ToSet(results) : Head(pending).filters \subseteq Passes[x]
  BY AnswerIs
<1> DEFINE found == [i \in 1 .. n |-> IF i = n THEN N ELSE 0]
<1>7. \A i \in 1 .. n : found[i] = IF i = n THEN N ELSE 0
  OBVIOUS
<1> HIDE DEF found
<1>8. /\ DOMAIN more = 1 .. n /\ Len(more) = n /\ n \in Nat /\ n # 0 /\ n \in 1 .. n
      /\ \A i \in 1 .. Len(made) : more[i] = made[i]
      /\ more[n] = Recorded(P[n], N)
  <2>1. /\ Len(more) = Len(made) + 1 /\ DOMAIN more = 1 .. Len(made) + 1
        /\ \A i \in 1 .. Len(made) : more[i] = made[i]
        /\ more[Len(made) + 1] = Recorded(Head(pending), Len(results))
    BY <1>2
  <2> QED BY <1>2, <1>5, <1>6, <2>1
<1> HIDE DEF n
<1>9. ASSUME NEW i \in 1 .. n PROVE more[i] = Recorded(P[i], found[i])
  <2>1. CASE i = n
    BY <1>7, <1>8, <2>1
  <2>2. CASE i # n
    <3>1. i \in 1 .. Len(made)
      BY <1>2, <2>2 DEF n
    <3> QED BY <1>2, <1>7, <1>8, <2>2, <3>1
  <2> QED BY <2>1, <2>2
<1>10. \A i \in 1 .. n : more[i].found = found[i] /\ more[i].kind = P[i].kind /\ more[i].filters = P[i].filters
  <2>1. ASSUME NEW i \in 1 .. n
        PROVE  more[i].found = found[i] /\ more[i].kind = P[i].kind /\ more[i].filters = P[i].filters
    <3>1. more[i] = Recorded(P[i], found[i])
      BY <1>9
    <3> QED BY ONLY <3>1 DEF Recorded
  <2> QED BY <2>1
<1>11. ToSet(more) = {more[i] : i \in 1 .. n}
  BY <1>8 DEF ToSet
<1>12. /\ c.request = request /\ c.made = more /\ c.decisions = Decisions(request, more)
       /\ c.found = results /\ c.options = options /\ c.pack = pack
       /\ c.successful = SuccessfulAttempt(P[n].kind, more)
  BY <1>5
<1>13. /\ PackHonest(results, options, pack) /\ ToSet(pack.results) \subseteq ToSet(results)
       /\ pack.candidates = N
  BY <1>6, BuildFacts
<1> HIDE DEF pack
<1> DEFINE within == AskedIn(more, request.filters)
           asked == Asked(more)
<1>14. /\ asked \subseteq within
       /\ P[n].filters # request.filters =>
            \A k \in DOMAIN P : P[k].filters = request.filters => <<P[k].kind, P[k].query>> \in within
  <2>1. MadeOf(more, P, n, found)
    BY <1>8, <1>9 DEF MadeOf
  <2> QED BY ONLY <1>1, <1>5, <2>1, AskedWithin
<1> HIDE DEF within, asked
<1>15. c.successful = n
  <2>1. more[n].kind = P[n].kind /\ more[n].found > 0 /\ \A i \in 1 .. n : i # n => more[i].found = 0
    BY <1>6, <1>7, <1>8, <1>10
  <2>2. SuccessfulAttempt(P[n].kind, more) = n
    BY ONLY <1>8, <2>1, SuccessfulIs
  <2> QED BY <1>12, <2>2
<1>16. c.made[c.successful].found = c.pack.candidates
  BY <1>7, <1>8, <1>10, <1>12, <1>13, <1>15
<1>17. \A i \in DOMAIN c.made : i < c.successful => c.made[i].found = 0
  BY <1>7, <1>8, <1>10, <1>12, <1>15
<1>18. request.symbol # NoQuestion => \A a \in ToSet(c.made) : a.kind = "definition"
  <2>1. ASSUME request.symbol # NoQuestion, NEW i \in 1 .. n PROVE more[i].kind = "definition"
    <3>1. i \in DOMAIN P
      BY <1>3, <1>5
    <3> QED BY <1>1, <1>10, <2>1, <3>1 DEF Ordered
  <2> QED BY <1>11, <1>12, <2>1
<1>19. ASSUME NEW x \in ToSet(pack.results), ~(request.filters \subseteq Passes[x])
       PROVE  /\ c.decisions.relaxed = request.filters
              /\ \A k \in DOMAIN P : P[k].filters = request.filters => <<P[k].kind, P[k].query>> \in within
              /\ \A a \in ToSet(more) : a.filters = request.filters => a.found = 0
  <2>1. P[n].filters \subseteq Passes[x]
    BY <1>5, <1>6, <1>13, <1>19
  <2>2. P[n].filters # request.filters
    BY <1>19, <2>1
  <2>3. c.decisions.relaxed = request.filters
    <3>1. Decisions(request, more).relaxed = request.filters
      <4>1. MadeOf(more, P, n, found)
        BY <1>8, <1>9 DEF MadeOf
      <4> QED BY ONLY <1>1, <1>5, <2>2, <4>1, RelaxedIs
    <3> QED BY <1>12, <3>1
  <2>4. ASSUME NEW i \in 1 .. n, more[i].filters = request.filters PROVE more[i].found = 0
    BY <1>7, <1>10, <2>2, <2>4
  <2> QED BY <1>11, <1>14, <2>2, <2>3, <2>4
<1>20. /\ P = Plan(request) /\ asked = {<<a.kind, a.query>> : a \in ToSet(more)}
       /\ within = {<<a.kind, a.query>> : a \in {b \in ToSet(more) : b.filters = request.filters}}
  BY DEF P, within, asked, Asked, AskedIn
<1>21. /\ \A x \in ToSet(c.pack.results) :
            \/ c.request.filters \subseteq Passes[x]
            \/ /\ c.decisions.relaxed = c.request.filters
               /\ \A k \in DOMAIN Plan(c.request) :
                    Plan(c.request)[k].filters = c.request.filters =>
                      <<Plan(c.request)[k].kind, Plan(c.request)[k].query>> \in within
               /\ \A a \in ToSet(c.made) : a.filters = c.request.filters => a.found = 0
  BY ONLY <1>12, <1>19, <1>20
<1>22. /\ asked = {<<a.kind, a.query>> : a \in ToSet(c.made)}
       /\ within = {<<a.kind, a.query>> : a \in {b \in ToSet(c.made) : b.filters = c.request.filters}}
  BY ONLY <1>12, <1>20
<1>23. /\ PackHonest(c.found, c.options, c.pack)
       /\ c.request.symbol # NoQuestion => \A a \in ToSet(c.made) : a.kind = "definition"
       /\ c.successful = Len(c.made)
  BY ONLY <1>8, <1>12, <1>13, <1>15, <1>18
<1> QED BY ONLY <1>14, <1>16, <1>17, <1>21, <1>22, <1>23, Zenon DEF Recovered

\* An attempt that finds nothing leaves the others to make.
LEMMA WaitingMore ==
  ASSUME NEW request, NEW pending, NEW made, Waiting(request, pending, made), pending # <<>>
  PROVE  Waiting(request, Tail(pending), Append(made, Recorded(Head(pending), 0)))
<1> DEFINE P == Plan(request)
           R == {Recorded(P[i], 0) : i \in DOMAIN P}
           n == Len(made) + 1
           more == Append(made, Recorded(Head(pending), 0))
           rest == Tail(pending)
<1>1. Ordered(P, request)
  BY PlanIs
<1>2. /\ Len(made) \in Nat /\ made \in Seq(R)
      /\ \A i \in 1 .. Len(made) : i \in DOMAIN P /\ made[i] = Recorded(P[i], 0)
      /\ pending \in Seq(ToSet(P)) /\ Len(made) + Len(pending) = Len(P)
      /\ \A i \in 1 .. Len(pending) : pending[i] = P[Len(made) + i]
  BY Zenon DEF Waiting
<1> HIDE DEF P
<1>3. Len(P) \in Nat /\ DOMAIN P = 1 .. Len(P)
  BY <1>1 DEF Ordered
<1>4. Len(pending) \in Nat /\ Len(pending) # 0 /\ Head(pending) = pending[1]
  BY <1>2
<1>5. n \in DOMAIN P /\ Head(pending) = P[n]
  BY <1>2, <1>3, <1>4
<1>6. Recorded(Head(pending), 0) \in R
  BY <1>5
<1> HIDE DEF R
<1>7. /\ Len(more) = n /\ more \in Seq(R) /\ n \in Nat
      /\ \A i \in 1 .. Len(made) : more[i] = made[i]
      /\ more[n] = Recorded(P[n], 0)
  BY <1>2, <1>5, <1>6
<1>8. /\ rest \in Seq(ToSet(P)) /\ Len(rest) = Len(pending) - 1
      /\ \A i \in 1 .. Len(rest) : rest[i] = pending[i + 1]
  BY <1>2, <1>4
<1> HIDE DEF more, rest
<1>9. ASSUME NEW i \in 1 .. n PROVE i \in DOMAIN P /\ more[i] = Recorded(P[i], 0)
  <2>1. CASE i = n
    BY <1>5, <1>7, <2>1
  <2>2. CASE i # n
    <3>1. i \in 1 .. Len(made)
      BY <1>2, <2>2
    <3> QED BY <1>2, <1>7, <3>1
  <2> QED BY <2>1, <2>2
<1>10. n + Len(rest) = Len(P)
  <2>1. /\ Len(made) \in Nat /\ Len(pending) \in Nat /\ Len(made) + Len(pending) = Len(P)
        /\ Len(rest) = Len(pending) - 1
    BY <1>2, <1>4, <1>8
  <2> QED BY ONLY <2>1
<1>11. ASSUME NEW i \in 1 .. Len(rest) PROVE rest[i] = P[n + i]
  <2>1. i + 1 \in 1 .. Len(pending) /\ Len(made) + (i + 1) = n + i
    BY <1>2, <1>4, <1>8
  <2> QED BY <1>2, <1>8, <2>1
<1> HIDE DEF n
<1>12. /\ Len(more) \in Nat /\ more \in Seq(R)
       /\ \A i \in 1 .. Len(more) : i \in DOMAIN P /\ more[i] = Recorded(P[i], 0)
       /\ rest \in Seq(ToSet(P)) /\ Len(more) + Len(rest) = Len(P)
       /\ \A i \in 1 .. Len(rest) : rest[i] = P[Len(more) + i]
  BY ONLY <1>7, <1>8, <1>9, <1>10, <1>11
<1>13. Waiting(request, rest, more)
  BY <1>12, Zenon DEF Waiting, P, R
<1> QED BY <1>13 DEF rest, more

\* Before the first, nothing was found.
LEMMA WaitingFirst ==
  ASSUME NEW request
  PROVE  Waiting(request, Plan(request), <<>>)
<1> DEFINE P == Plan(request)
<1>1. Len(P) \in Nat /\ DOMAIN P = 1 .. Len(P) /\ P \in Seq(ToSet(P))
  BY PlanIs DEF Ordered
<1> HIDE DEF P
<1>2. /\ Len(<<>>) = 0 /\ <<>> \in Seq({Recorded(P[i], 0) : i \in DOMAIN P})
      /\ 0 + Len(P) = Len(P) /\ \A i \in 1 .. Len(P) : P[i] = P[0 + i]
      /\ 1 .. 0 = {}
  BY <1>1
<1>3. /\ Len(<<>>) \in Nat /\ <<>> \in Seq({Recorded(P[i], 0) : i \in DOMAIN P})
      /\ \A i \in 1 .. Len(<<>>) : i \in DOMAIN P /\ <<>>[i] = Recorded(P[i], 0)
      /\ P \in Seq(ToSet(P)) /\ Len(<<>>) + Len(P) = Len(P)
      /\ \A i \in 1 .. Len(P) : P[i] = P[Len(<<>>) + i]
  BY <1>1, <1>2
<1> QED BY <1>3, Zenon DEF Waiting, P

\* A text of four beginnings, each of some tokens, is cut to one that fits.
LEMMA ListingIs ==
  ASSUME NEW beginning \in [0 .. 3 -> 1 .. 4], NEW tokens, NEW budget
  PROVE  FitHonest(tokens, beginning, budget)
<1>1. ASSUME beginning[0] <= budget PROVE Fitted(tokens, beginning, budget) <= budget
  <2>1. beginning[Truncated(beginning, budget)] <= budget
    <3>1. DOMAIN beginning = 0 .. 3 /\ 3 \in Nat
      OBVIOUS
    <3> QED BY <1>1, <3>1, FitsIn
  <2> QED BY <2>1 DEF Fitted
<1> QED BY <1>1 DEF FitHonest

\* How an attempt ends.
AttemptEnds(attempt, results, made) ==
  IF results = <<>>
  THEN context' = [context EXCEPT !.pending = Tail(@), !.made = made]
  ELSE \E limit \in Limits, budget \in Budgets, prefer \in BOOLEAN :
         /\ attempt.kind = "definition" => ~prefer
         /\ \E options \in
              {[heading |-> HeadingTokens(Decisions(context.request, made)),
                limit |-> limit, budget |-> budget, prefer |-> prefer,
                preserve |-> attempt.kind = "definition",
                handoff |-> attempt.kind = "conceptual"]} :
              context' = [step |-> "packed", request |-> context.request, made |-> made,
                          decisions |-> Decisions(context.request, made),
                          route |-> attempt.kind, found |-> results, options |-> options,
                          successful |-> SuccessfulAttempt(attempt.kind, made),
                          pack |-> BuildContextPack(results, options)]

\* The record of attempts, with others pending and others made.
LEMMA WaitingRecord ==
  ASSUME NEW c, NEW request, NEW pending, NEW made, NEW rest, NEW more,
         c = [step |-> "attempts", request |-> request, pending |-> pending, made |-> made]
  PROVE  [c EXCEPT !.pending = rest, !.made = more] =
           [step |-> "attempts", request |-> request, pending |-> rest, made |-> more]
<1> DEFINE d == [x \in DOMAIN c |-> IF x = "made" THEN more ELSE IF x = "pending" THEN rest ELSE c[x]]
<1>1. DOMAIN c = {"step", "request", "pending", "made"}
  OBVIOUS
<1>2. [c EXCEPT !.pending = rest, !.made = more] = d
  BY <1>1
<1>3. d = [step |-> "attempts", request |-> request, pending |-> rest, made |-> more]
  BY <1>1
<1> QED BY <1>2, <1>3

\* It keeps the invariant.
LEMMA AttemptKeeps ==
  ASSUME context.step = "attempts", context.pending # <<>>, ContextInv,
         NEW results \in Answers(Head(context.pending).filters),
         NEW made, made = Append(context.made, Recorded(Head(context.pending), Len(results))),
         AttemptEnds(Head(context.pending), results, made)
  PROVE  ContextInv'
<1>1. /\ Waiting(context.request, context.pending, context.made)
      /\ context = [step |-> "attempts", request |-> context.request,
                    pending |-> context.pending, made |-> context.made]
  BY DEF ContextInv
<1>2. CASE results = <<>>
  <2>1. context' = [context EXCEPT !.pending = Tail(@), !.made = made]
    BY <1>2 DEF AttemptEnds
  <2>2. context' = [step |-> "attempts", request |-> context.request,
                    pending |-> Tail(context.pending), made |-> made]
    BY <1>1, <2>1, WaitingRecord
  <2>3. Waiting(context.request, Tail(context.pending), made)
    <3>1. made = Append(context.made, Recorded(Head(context.pending), 0))
      BY <1>2
    <3> QED BY <1>1, <3>1, WaitingMore
  <2>4. /\ context'.step = "attempts" /\ context'.request = context.request
        /\ context'.pending = Tail(context.pending) /\ context'.made = made
    BY ONLY <2>2
  <2>5. /\ context' = [step |-> "attempts", request |-> context'.request,
                       pending |-> context'.pending, made |-> context'.made]
        /\ Waiting(context'.request, context'.pending, context'.made)
    BY ONLY <2>2, <2>3, <2>4
  <2> QED BY ONLY <2>4, <2>5 DEF ContextInv, ListingFits
<1>3. CASE results # <<>>
  <2>1. PICK limit \in Limits, budget \in Budgets, prefer \in BOOLEAN :
          \E options \in
            {[heading |-> HeadingTokens(Decisions(context.request, made)),
              limit |-> limit, budget |-> budget, prefer |-> prefer,
              preserve |-> Head(context.pending).kind = "definition",
              handoff |-> Head(context.pending).kind = "conceptual"]} :
            context' = [step |-> "packed", request |-> context.request, made |-> made,
                        decisions |-> Decisions(context.request, made),
                        route |-> Head(context.pending).kind, found |-> results, options |-> options,
                        successful |-> SuccessfulAttempt(Head(context.pending).kind, made),
                        pack |-> BuildContextPack(results, options)]
    BY <1>3, Zenon DEF AttemptEnds
  <2>2. PICK options :
          /\ options.limit = limit /\ options.prefer = prefer
          /\ context' = [step |-> "packed", request |-> context.request, made |-> made,
                         decisions |-> Decisions(context.request, made),
                         route |-> Head(context.pending).kind, found |-> results, options |-> options,
                         successful |-> SuccessfulAttempt(Head(context.pending).kind, made),
                         pack |-> BuildContextPack(results, options)]
    BY ONLY <2>1
  <2>3. options.limit \in Nat /\ options.prefer \in BOOLEAN
    BY <2>2, RequestAssumption
  <2> DEFINE c == context'
  <2>4. c = [step |-> "packed", request |-> context.request, made |-> made,
             decisions |-> Decisions(context.request, made),
             route |-> Head(context.pending).kind, found |-> results, options |-> options,
             successful |-> SuccessfulAttempt(Head(context.pending).kind, made),
             pack |-> BuildContextPack(results, options)]
    BY ONLY <2>2
  <2>5. c.step = "packed"
    BY ONLY <2>4
  <2> HIDE DEF c
  <2>6. Recovered(c)
    BY <1>1, <1>3, <2>3, <2>4, PackedIs
  <2> QED BY ONLY <2>5, <2>6 DEF c, ContextInv, ListingFits
<1> QED BY <1>2, <1>3

\* A step keeps the invariant.
LEMMA ContextInvStep ==
  ASSUME ContextInv, [ContextNext]_contextVars
  PROVE  ContextInv'
<1>1. CASE Requested
  <2>1. PICK request, made : \/ context' = [step |-> "refused", request |-> request, made |-> <<>>]
                             \/ context' = [step |-> "attempts", request |-> request,
                                            pending |-> Plan(request), made |-> <<>>]
    BY <1>1, Zenon DEF Requested
  <2>2. context'.step \notin {"packed", "listed"}
    BY <2>1
  <2>3. context'.step = "attempts" => /\ context'.pending = Plan(context'.request)
                                      /\ context'.made = <<>>
    BY <2>1
  <2>4. CASE context'.step = "attempts"
    <3>1. /\ context' = [step |-> "attempts", request |-> context'.request,
                         pending |-> context'.pending, made |-> context'.made]
          /\ Waiting(context'.request, context'.pending, context'.made)
      <4>1. context' = [step |-> "attempts", request |-> request, pending |-> Plan(request),
                        made |-> <<>>]
        BY <2>1, <2>4
      <4>2. Waiting(context'.request, context'.pending, context'.made)
        BY <2>3, <2>4, WaitingFirst
      <4> QED BY ONLY <4>1, <4>2
    <3> QED BY ONLY <2>4, <3>1 DEF ContextInv, ListingFits
  <2> QED BY <2>2, <2>4 DEF ContextInv, ListingFits
<1>2. CASE Attempts
  <2>1. /\ context.step = "attempts" /\ context.pending # <<>>
        /\ \E attempt \in {Head(context.pending)} : \E results \in Answers(attempt.filters) :
           \E made \in {Append(context.made, Recorded(attempt, Len(results)))} :
             AttemptEnds(attempt, results, made)
    BY <1>2, Zenon DEF Attempts, AttemptEnds
  <2>2. PICK results \in Answers(Head(context.pending).filters) :
          \E made : /\ made = Append(context.made, Recorded(Head(context.pending), Len(results)))
                    /\ AttemptEnds(Head(context.pending), results, made)
    BY <2>1
  <2> QED BY <2>1, <2>2, AttemptKeeps
<1>3. CASE FallsBack
  <2>1. PICK beginning, tokens, budget :
          /\ beginning \in [0 .. 3 -> 1 .. 4]
          /\ context' = [step |-> "listed", request |-> context.request, made |-> context.made,
                         budget |-> budget, tokens |-> tokens, beginning |-> beginning]
    BY <1>3 DEF FallsBack
  <2>2. FitHonest(context'.tokens, context'.beginning, context'.budget)
    BY <2>1, ListingIs
  <2>3. context'.step = "listed"
    BY <2>1
  <2> QED BY <2>2, <2>3 DEF ContextInv, ListingFits
<1>4. CASE ContextEnds
  <2>1. context'.step = "idle"
    BY <1>4 DEF ContextEnds
  <2> QED BY <2>1 DEF ContextInv, ListingFits
<1>5. CASE UNCHANGED contextVars
  BY <1>5 DEF contextVars, ContextInv, ListingFits
<1> QED BY <1>1, <1>2, <1>3, <1>4, <1>5 DEF ContextNext

\* The invariant says what ContextHonest does.
LEMMA ContextInvImplies ==
  ContextInv => ContextHonest
BY Zenon DEF ContextInv, ContextHonest, RecoveryHonest, Recovered

\* An answer says what was tried and what was relaxed, and shows what the attempt it names
\* found, in a pack that fits its budget and accounts for every result; what is listed after
\* a miss fits too: for any evidence, scores, places and costs, any requests and limits.
THEOREM ContextAnswersHonest == ContextSpec => []ContextHonest
<1>1. ContextInit => ContextInv
  BY DEF ContextInit, ContextInv, ListingFits
<1>2. ContextInv /\ [ContextNext]_contextVars => ContextInv'
  BY ContextInvStep
<1> QED BY <1>1, <1>2, ContextInvImplies, PTL DEF ContextSpec
=============================================================================
