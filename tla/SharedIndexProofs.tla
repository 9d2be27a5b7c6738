------------------------- MODULE SharedIndexProofs -------------------------
(***************************************************************************)
(* Four theorems about projects that share one index.                      *)
(*                                                                         *)
(* The operations are first put in a flat form (IndexStores, Collected,    *)
(* RetryStores): what each does to a chunk, a symbol or an edge.  A clear  *)
(* of one project and a health check are both a Collected: they take a set *)
(* out of one branch, and out of the stores what no branch lists after it. *)
(*                                                                         *)
(* GraphStays: a branch lists all the symbols of a file's version or none, *)
(* and the table of edges has exactly the parser's edges of each symbol    *)
(* that some branch lists (Graph).  Calls are resolved within their file,  *)
(* so no step that keeps a file's symbols clears the target of its edges.  *)
(*                                                                         *)
(* StrategyKept: every vector is in some catalog, and is what the table of *)
(* embeddings has; an old embedding of a project's own file is that of a   *)
(* vector in its own catalog, and while there is one the index names its   *)
(* strategy (Strategic).  So a project that is let to run has none.        *)
(*                                                                         *)
(* OthersKept and RunsWhole hold where requests do not fail in an index    *)
(* that clears and health checks collect (CollectionApart).  There what is *)
(* catalogued is in every store (Stored), and the cached hash of a file    *)
(* names the chunks and the symbols that its project lists (Hashing).      *)
(***************************************************************************)
EXTENDS SharedIndex, FiniteSetTheorems, TLAPS

\* Of embeddings.
Strategies == {"old", "new"}

\* The types.
Typed ==
  /\ world \in Worlds
  /\ tree \in [File -> Version \cup {0}] /\ hashes \in [File -> Version \cup {0}]
  /\ Vectors \subseteq Chunk /\ \A c \in Vectors : vec[c] \in Strategies
  /\ DOMAIN emb \subseteq Chunk /\ \A c \in DOMAIN emb : emb[c] \in Strategies
  /\ words \subseteq Chunk /\ rows \subseteq Chunk /\ failed \subseteq Chunk
  /\ catalog \in [Project -> SUBSET Chunk]
  /\ listed \in [Project -> SUBSET Symbol]
  /\ published \in [version : BOOLEAN, legacy : {"none", "old"}]
  /\ strategy \in [Project -> {"none", "new"}]
  /\ forced \in [Project -> BOOLEAN] /\ migrated \in [Project -> BOOLEAN]

-----------------------------------------------------------------------------
(* What the operations do, one fact a line.                                *)

\* What leaves the catalog of p, or the symbols of it, and is in no other.
Dropped(p) == {c \in catalog[p] : \A q \in Project : c \notin catalog'[q]}
DroppedSymbols(p) == {s \in listed[p] : \A q \in Project : s \notin listed'[q]}

\* The symbols and the edges of what a run reads.
Fresh(p) == UNION {SymbolsIn(c) : c \in Parsed(p)}
FreshEdges(p) == UNION {EdgesIn(c) : c \in Parsed(p)}

\* What a run does to the chunks; "fails" are the chunks whose request failed, "done" the others.
IndexStores(p, fails, done) ==
  /\ fails \subseteq Need(p) \ Cached(p, Need(p)) /\ done = Need(p) \ fails
  /\ fails # {} => "failures" \in world /\ (forced[p] => "forcedFailures" \in world)
  /\ catalog' = [catalog EXCEPT ![p] = CatalogAfter(p, fails)]
  /\ Vectors' \subseteq (Vectors \cup done) \ Dropped(p)
  /\ \A c \in (Vectors \cup done) \ Dropped(p) :
       c \in rows \cup Parsed(p) /\ c \in DOMAIN emb \cup done => c \in Vectors'
  /\ \A c \in Vectors' :
       \/ c \in DOMAIN emb \cup done /\ vec'[c] = EmbeddingsAfter(p, done)[c]
       \/ c \notin done /\ vec'[c] = vec[c]
  /\ words' = (words \cup done) \ Dropped(p)
  /\ rows' = (rows \cup Parsed(p)) \ Dropped(p)
  /\ DOMAIN emb' = (DOMAIN emb \cup done) \cap rows'
  /\ \A c \in DOMAIN emb' : emb'[c] = EmbeddingsAfter(p, done)[c]
  /\ failed' = {c \in failed : c[1] \notin Scope[p]} \cup fails
  /\ forced' = [forced EXCEPT ![p] = ForcedAfter(p, Need(p), fails)]
  /\ strategy' = [strategy EXCEPT ![p] = StrategyAfter(p, ForcedAfter(p, Need(p), fails))]
  /\ last' = [op |-> "index", by |-> p, whole |-> fails = {}, rebuilt |-> forced[p]]

\* What it does to the symbols and the edges.
IndexGraph(p) ==
  /\ listed' = [listed EXCEPT ![p] = KeptSymbols(p) \cup Fresh(p)]
  /\ symbols' = GcSymbols(symbols \cup Fresh(p), listed')
  /\ edges' = GcEdges(GcSymbolEdges(ClearTargets(
                PutEdges(EdgesAfterSymbols(edges, Fresh(p)), FreshEdges(p)),
                DroppedSymbols(p)), listed'), symbols')

\* And to the rest.
IndexRest(p) ==
  /\ hashes' = [f \in File |-> IF f \in Scope[p] THEN tree[f] ELSE hashes[f]]
  /\ published' = [published EXCEPT !.version = TRUE]
  /\ migrated' = [migrated EXCEPT ![p] = TRUE]
  /\ tree' = tree /\ world' = world

\* A run is these three.
LEMMA IndexStep ==
  ASSUME NEW p \in Project, Index(p), Typed
  PROVE  /\ \E fails, done : IndexStores(p, fails, done)
         /\ IndexGraph(p) /\ IndexRest(p)
<1> DEFINE edgesNow == PutEdges(EdgesAfterSymbols(edges, Fresh(p)), FreshEdges(p))
<1>1. PICK fails \in Failures(p, Need(p) \ Cached(p, Need(p))) :
        /\ ReplaceCatalog(p,
             [c \in Vectors \cup (Need(p) \ fails) |->
                IF c \in Need(p) \ fails THEN EmbeddingsAfter(p, Need(p) \ fails)[c] ELSE vec[c]],
             words \cup (Need(p) \ fails), rows \cup Parsed(p), EmbeddingsAfter(p, Need(p) \ fails),
             symbols \cup Fresh(p), edgesNow,
             CatalogAfter(p, fails), KeptSymbols(p) \cup Fresh(p))
        /\ failed' = {c \in failed : c[1] \notin Scope[p]} \cup fails
        /\ forced' = [forced EXCEPT ![p] = ForcedAfter(p, Need(p), fails)]
        /\ strategy' = [strategy EXCEPT ![p] = StrategyAfter(p, ForcedAfter(p, Need(p), fails))]
        /\ last' = [op |-> "index", by |-> p, whole |-> fails = {}, rebuilt |-> forced[p]]
  BY Zenon DEF Index, Fresh, FreshEdges
<1> DEFINE done == Need(p) \ fails
           embeddings == EmbeddingsAfter(p, done)
           vectors == [c \in Vectors \cup done |-> IF c \in done THEN embeddings[c] ELSE vec[c]]
           gone == (catalog[p] \ CatalogAfter(p, fails))
                      \ ReferencedBy(catalog[p] \ CatalogAfter(p, fails), catalog')
           goneSymbols == (listed[p] \ (KeptSymbols(p) \cup Fresh(p)))
                             \ ReferencedBy(listed[p] \ (KeptSymbols(p) \cup Fresh(p)), listed')
<1>2. IndexRest(p)
  BY Zenon DEF Index, IndexRest
<1>3. /\ catalog' = [catalog EXCEPT ![p] = CatalogAfter(p, fails)]
      /\ listed' = [listed EXCEPT ![p] = KeptSymbols(p) \cup Fresh(p)]
      /\ vec' = IF gone = {} THEN vectors
                ELSE [c \in (DOMAIN vectors \ gone) \cap (rows \cup Parsed(p)) \cap DOMAIN embeddings
                       |-> embeddings[c]]
      /\ words' = (words \cup done) \ gone
      /\ rows' = (rows \cup Parsed(p)) \ gone
      /\ symbols' = GcSymbols(symbols \cup Fresh(p), listed')
      /\ edges' = GcEdges(GcSymbolEdges(ClearTargets(edgesNow, goneSymbols), listed'), symbols')
      /\ emb' = EmbeddingsOf(embeddings, rows')
  BY <1>1, Zenon DEF ReplaceCatalog
<1>4. gone = Dropped(p) /\ goneSymbols = DroppedSymbols(p)
  <2>1. gone = Dropped(p)
    <3>1. DOMAIN catalog = Project
      BY DEF Typed
    <3>2. catalog'[p] = CatalogAfter(p, fails)
      BY <1>3, <3>1
    <3> QED BY <3>2, Zenon DEF ReferencedBy, Dropped
  <2>2. goneSymbols = DroppedSymbols(p)
    <3>1. DOMAIN listed = Project
      BY DEF Typed
    <3>2. listed'[p] = (KeptSymbols(p) \cup Fresh(p))
      BY <1>3, <3>1
    <3> QED BY <3>2, Zenon DEF ReferencedBy, DroppedSymbols
  <2> QED BY <2>1, <2>2
<1>5. IndexGraph(p)
  BY <1>3, <1>4, Zenon DEF IndexGraph
<1>6. DOMAIN embeddings = DOMAIN emb \cup done /\ DOMAIN vectors = Vectors \cup done
  BY DEF EmbeddingsAfter
<1>7. /\ DOMAIN emb' = (DOMAIN emb \cup done) \cap rows'
      /\ \A c \in DOMAIN emb' : emb'[c] = embeddings[c]
  <2> HIDE DEF embeddings, done
  <2> QED BY <1>3, <1>6 DEF EmbeddingsOf, Restrict
<1>8. /\ Vectors' \subseteq (Vectors \cup done) \ gone
      /\ \A c \in (Vectors \cup done) \ gone :
           c \in rows \cup Parsed(p) /\ c \in DOMAIN emb \cup done => c \in Vectors'
      /\ \A c \in Vectors' :
           \/ c \in DOMAIN emb \cup done /\ vec'[c] = embeddings[c]
           \/ c \notin done /\ vec'[c] = vec[c]
  <2>1. \A c \in DOMAIN vectors : vectors[c] = IF c \in done THEN embeddings[c] ELSE vec[c]
    OBVIOUS
  <2> HIDE DEF embeddings, done, gone, vectors
  <2>2. CASE gone = {}
    BY <1>3, <1>6, <2>1, <2>2 DEF Vectors
  <2>3. CASE gone # {}
    BY <1>3, <1>6, <2>1, <2>3 DEF Vectors
  <2> QED BY <2>2, <2>3
<1>9. /\ fails \subseteq Need(p) \ Cached(p, Need(p))
      /\ fails # {} => "failures" \in world /\ (forced[p] => "forcedFailures" \in world)
  BY DEF Failures
<1>10. IndexStores(p, fails, done)
  <2> HIDE DEF embeddings, gone, vectors
  <2> QED BY <1>1, <1>3, <1>4, <1>7, <1>8, <1>9 DEF IndexStores, embeddings
<1> QED
  BY <1>2, <1>5, <1>10

-----------------------------------------------------------------------------
(* Clears and health checks take chunks and symbols out of one branch and  *)
(* collect what nobody refers to.                                          *)

\* Catalogs list what is in the scope of their project.
Scoped ==
  \A p \in Project :
    /\ \A c \in catalog[p] : c[1] \in Scope[p]
    /\ \A s \in listed[p] : s.file \in Scope[p]

\* Some branch lists the chunk.
Referenced(c) == \E q \in Project : c \in catalog[q]

\* "removed" and "syms" leave the branch of p, and with them what no branch lists then.
Collected(p, removed, syms) ==
  /\ catalog' = [catalog EXCEPT ![p] = @ \ removed]
  /\ listed' = [listed EXCEPT ![p] = @ \ syms]
  /\ \A c \in Vectors' : c \in Vectors /\ (c \in removed => Referenced(c)')
  /\ \A c \in Vectors : c \in rows \cap DOMAIN emb /\ (c \in removed => Referenced(c)') => c \in Vectors'
  /\ \A c \in Vectors' : vec'[c] = vec[c] \/ (c \in rows \cap DOMAIN emb /\ vec'[c] = emb[c])
  /\ words' = {c \in words : c \in removed => Referenced(c)'}
  /\ rows' = {c \in rows : Referenced(c)'}
  /\ DOMAIN emb' \subseteq DOMAIN emb \cap rows
  /\ rows' \cap DOMAIN emb \subseteq DOMAIN emb'
  /\ \A c \in DOMAIN emb' : emb'[c] = emb[c] /\ (c \in removed /\ c[1] \in Root[p] => Referenced(c)')
  /\ symbols' = GcSymbols(symbols, listed')
  /\ edges' = GcEdges(ClearTargets(edges, {s \in syms : \A q \in Project : s \notin listed'[q]}), symbols')

\* What rebuilding the vectors keeps.
LEMMA WithoutKeeps ==
  ASSUME NEW gone, vec' = Without(vec, rows, gone)
  PROVE  /\ \A c \in Vectors' : c \in Vectors /\ c \notin gone
         /\ \A c \in Vectors : c \in rows \cap DOMAIN emb /\ c \notin gone => c \in Vectors'
         /\ \A c \in Vectors' : vec'[c] = vec[c] \/ (c \in rows \cap DOMAIN emb /\ vec'[c] = emb[c])
<1>1. CASE gone = {}
  BY <1>1 DEF Without, Vectors
<1>2. CASE gone # {}
  BY <1>2 DEF Without, Rebuild, Vectors
<1> QED BY <1>1, <1>2

\* A health check.
LEMMA HealthStep ==
  ASSUME NEW p \in Project, Health(p), Typed
  PROVE  Collected(p, {c \in Vectors : tree[c[1]] = 0},
                   {s \in symbols : s.file \in FilesOf({c \in Vectors : tree[c[1]] = 0})})
<1> DEFINE missing == {c \in Vectors : tree[c[1]] = 0}
           syms == {s \in symbols : s.file \in FilesOf(missing)}
           gone == missing \ ReferencedBy(missing, catalog')
<1>1. /\ catalog' = [catalog EXCEPT ![p] = @ \ missing]
      /\ listed' = [listed EXCEPT ![p] = @ \ syms]
      /\ vec' = Without(vec, rows, gone)
      /\ words' = words \ gone
      /\ emb' = EmbeddingsOf(emb, rows \ gone)
      /\ rows' = (rows \ gone) \cap UNION {catalog'[q] : q \in Project}
      /\ symbols' = GcSymbols(symbols, listed')
      /\ edges' = GcEdges(GcSymbolEdges(
           ClearTargets(edges, syms \ ReferencedBy(syms, listed')), listed'), symbols')
  BY Zenon DEF Health
<1>2. \A c : c \in gone <=> c \in missing /\ ~Referenced(c)'
  BY Zenon DEF ReferencedBy, Referenced
<1>3. syms \ ReferencedBy(syms, listed') = {s \in syms : \A q \in Project : s \notin listed'[q]}
  BY Zenon DEF ReferencedBy
<1>4. DOMAIN listed' = Project
  BY <1>1 DEF Typed
<1> HIDE DEF missing, syms, gone
<1>5. /\ \A c \in Vectors' : c \in Vectors /\ (c \in missing => Referenced(c)')
      /\ \A c \in Vectors : c \in rows \cap DOMAIN emb /\ (c \in missing => Referenced(c)') => c \in Vectors'
      /\ \A c \in Vectors' : vec'[c] = vec[c] \/ (c \in rows \cap DOMAIN emb /\ vec'[c] = emb[c])
  BY <1>1, <1>2, WithoutKeeps, Zenon
<1>6. words' = {c \in words : c \in missing => Referenced(c)'} /\ rows' = {c \in rows : Referenced(c)'}
  BY <1>1, <1>2 DEF Referenced
<1>7. /\ DOMAIN emb' = DOMAIN emb \cap (rows \ gone)
      /\ \A c \in DOMAIN emb' : emb'[c] = emb[c]
  BY <1>1 DEF EmbeddingsOf, Restrict
<1>8. edges' = GcEdges(ClearTargets(edges, {s \in syms : \A q \in Project : s \notin listed'[q]}), symbols')
  <2> HIDE <1>3
  <2>1. \A x : GcEdges(GcSymbolEdges(x, listed'), symbols') = GcEdges(x, symbols')
    BY <1>1 DEF GcEdges, GcSymbolEdges, GcSymbols
  <2> QED BY <1>1, <1>3, <2>1, Zenon
<1>9. Collected(p, missing, syms)
  BY <1>1, <1>2, <1>5, <1>6, <1>7, <1>8 DEF Collected
<1> QED BY <1>9 DEF missing, syms

\* What a clear of p takes.
ClearedFiles(p) == (Hashed \cap Scope[p]) \cup FilesOf(In(Scope[p], Vectors))
Removed(p) == In(Scope[p], Vectors) \cup In(ClearedFiles(p), rows)
RemovedSymbols(p) == {s \in symbols : s.file \in ClearedFiles(p)}

\* A clear of a project, beside others.
LEMMA ClearStep ==
  ASSUME NEW p \in Project, ClearProject(p), Typed, Scoped
  PROVE  Collected(p, Removed(p), RemovedSymbols(p))
<1> DEFINE files == ClearedFiles(p)
           removed == Removed(p)
           syms == RemovedSymbols(p)
           keys == CleanupKeys(p, In(Root[p], removed), {s \in syms : s.file \in Root[p]})
           shared == ReferencedBy(removed, catalog')
           sharedFiles == {s.file : s \in ReferencedBy(syms, listed')}
           chunkRows == {c \in rows : c[1] \in files => In({c[1]}, rows) \cap shared # {}}
           kept == {s \in symbols : s.file \in files => s.file \in sharedFiles}
<1>1. /\ catalog' = [q \in Project |-> IF q \in keys THEN catalog[q] \ removed ELSE catalog[q]]
      /\ listed' = [q \in Project |-> IF q \in keys THEN listed[q] \ syms ELSE listed[q]]
      /\ vec' = Without(vec, rows, removed \ shared)
      /\ words' = words \ (removed \ shared)
      /\ symbols' = GcSymbols(kept, listed')
      /\ edges' = GcSymbolEdges(GcEdges(ClearTargets(edges, syms \ ReferencedBy(syms, listed')), kept),
                                listed')
      /\ emb' = EmbeddingsOf(emb, chunkRows)
      /\ rows' = chunkRows \cap UNION {catalog'[q] : q \in Project}
  BY Zenon DEF ClearProject, ClearedFiles, Removed, RemovedSymbols
<1>2. keys = {p}
  <2>1. ASSUME NEW q \in Project, q # p
        PROVE  /\ catalog[q] \cap In(Root[p], removed) = {}
               /\ listed[q] \cap {s \in syms : s.file \in Root[p]} = {}
    <3> HIDE DEF removed, syms
    <3> QED BY <2>1, ScopesAssumption DEF Scoped, In
  <2> HIDE DEF removed, syms
  <2> QED BY <2>1 DEF CleanupKeys
<1> HIDE DEF keys
<1>3. /\ catalog' = [catalog EXCEPT ![p] = @ \ removed]
      /\ listed' = [listed EXCEPT ![p] = @ \ syms]
  <2> HIDE DEF removed, syms
  <2> QED BY <1>1, <1>2 DEF Typed
<1>4. \A c : c \in removed \ shared <=> c \in removed /\ ~Referenced(c)'
  BY Zenon DEF ReferencedBy, Referenced
<1>5. syms \ ReferencedBy(syms, listed') = {s \in syms : \A q \in Project : s \notin listed'[q]}
  BY Zenon DEF ReferencedBy
<1>6. \A c : c \in shared <=> c \in removed /\ Referenced(c)'
  BY Zenon DEF ReferencedBy, Referenced
<1>7. DOMAIN listed' = Project
  BY <1>1
<1>8. \A c \in rows : c[1] \in files => c \in removed
  BY DEF Removed, In
<1> HIDE DEF shared
<1>9. /\ \A c \in Vectors' : c \in Vectors /\ (c \in removed => Referenced(c)')
      /\ \A c \in Vectors : c \in rows \cap DOMAIN emb /\ (c \in removed => Referenced(c)') => c \in Vectors'
      /\ \A c \in Vectors' : vec'[c] = vec[c] \/ (c \in rows \cap DOMAIN emb /\ vec'[c] = emb[c])
  BY <1>1, <1>4, WithoutKeeps, Zenon
<1>10. words' = {c \in words : c \in removed => Referenced(c)'}
  <2> HIDE DEF removed
  <2> QED BY <1>1, <1>4
<1>11. \A c \in rows : Referenced(c)' => c \in chunkRows
  <2> HIDE DEF removed, files
  <2> QED BY <1>6, <1>8 DEF In
<1>12. rows' = {c \in rows : Referenced(c)'}
  BY <1>1, <1>11 DEF Referenced
<1>13. /\ DOMAIN emb' = DOMAIN emb \cap chunkRows
       /\ \A c \in DOMAIN emb' : emb'[c] = emb[c]
  <2> HIDE DEF chunkRows
  <2> QED BY <1>1 DEF EmbeddingsOf, Restrict
<1>14. ASSUME NEW c \in DOMAIN emb', c \in removed, c[1] \in Root[p]
       PROVE  Referenced(c)'
  <2>1. c \in rows /\ (c[1] \in files => In({c[1]}, rows) \cap shared # {})
    BY <1>13
  <2>2. c[1] \in files
    BY <1>14 DEF Removed, ClearedFiles, In, FilesOf
  <2>3. PICK d \in rows : d[1] = c[1] /\ d \in removed /\ Referenced(d)'
    <3> HIDE DEF removed, files
    <3> QED BY <2>1, <2>2, <1>6 DEF In
  <2>4. PICK q \in Project : d \in catalog'[q]
    BY <2>3, Zenon DEF Referenced
  <2>5. q # p
    <3> HIDE DEF removed
    <3> QED BY <1>3, <2>3, <2>4 DEF Typed
  <2>6. d[1] \in Scope[q]
    <3> HIDE DEF removed
    <3> QED BY <1>3, <2>4, <2>5 DEF Scoped, Typed
  <2> QED BY <2>3, <2>5, <2>6, <1>14, ScopesAssumption
<1>15. symbols' = GcSymbols(symbols, listed')
  <2>1. ASSUME NEW s \in symbols, s \in Listed(listed')
        PROVE  s \in kept
    <3>1. s.file \in files => s \in ReferencedBy(syms, listed')
      BY <2>1, <1>7 DEF ReferencedBy, Listed, RemovedSymbols
    <3> QED BY <3>1
  <2> HIDE DEF files, sharedFiles
  <2> QED BY <1>1, <2>1 DEF GcSymbols
<1>16. edges' = GcEdges(ClearTargets(edges, {s \in syms : \A q \in Project : s \notin listed'[q]}), symbols')
  <2> HIDE DEF kept
  <2>1. \A x : GcSymbolEdges(GcEdges(x, kept), listed') = GcEdges(x, symbols')
    BY <1>1 DEF GcEdges, GcSymbolEdges, GcSymbols
  <2> QED BY <1>1, <1>5, <2>1, Zenon
<1>17. \A c \in DOMAIN emb' : emb'[c] = emb[c] /\ (c \in removed /\ c[1] \in Root[p] => Referenced(c)')
  BY <1>13, <1>14
<1> HIDE DEF chunkRows, kept, removed, syms
<1>18. DOMAIN emb' \subseteq DOMAIN emb \cap rows /\ rows' \cap DOMAIN emb \subseteq DOMAIN emb'
  <2>1. chunkRows \subseteq rows
    BY DEF chunkRows
  <2> QED BY <1>11, <1>12, <1>13, <2>1
<1>19. Collected(p, removed, syms)
  BY <1>3, <1>9, <1>10, <1>12, <1>15, <1>16, <1>17, <1>18, Zenon DEF Collected
<1> QED BY <1>19 DEF removed, syms

-----------------------------------------------------------------------------
(* The call graph.                                                         *)

\* The chunk a symbol is in, and its edges there.
At(s) == <<s.file, s.version>>
EdgesFrom(s) == {e \in EdgesIn(At(s)) : e.from = s}

\* A branch lists all the symbols of a file's version or none; the tables have them, with
\* the edges that the parser found.
Graph ==
  /\ \A p \in Project : \A s \in listed[p] :
       /\ s \in symbols /\ s \in SymbolsIn(At(s)) /\ SymbolsIn(At(s)) \subseteq listed[p]
       /\ {e \in edges : e.from = s} = EdgesFrom(s)
  /\ \A s \in symbols : \E p \in Project : s \in listed[p]

\* A symbol is of the chunk it was found in.
LEMMA FoundAt ==
  ASSUME NEW c \in Chunk
  PROVE  \A s \in SymbolsIn(c) : At(s) = c /\ s \in Symbol
BY DEF SymbolsIn, SymbolsOf, At, Chunk, Symbol

\* A call is resolved to a symbol of its file, or to none.
LEMMA ResolvedIn ==
  ASSUME NEW own, NEW name
  PROVE  Resolved(own, name) \in own \cup {NoSymbol}
<1> DEFINE named == {t \in own : NamesMatch(t, t.name, name)}
<1>1. CASE Cardinality(named) = 1
  <2>1. named # {}
    <3> HIDE DEF named
    <3> QED BY <1>1, FS_EmptySet
  <2> QED BY <1>1, <2>1 DEF Resolved
<1>2. CASE Cardinality(named) # 1
  BY <1>2 DEF Resolved
<1> QED BY <1>1, <1>2

\* The edges of a file's version are its calls.
LEMMA EdgesOfCalls ==
  ASSUME NEW own, NEW calls
  PROVE  /\ \A e \in EdgesOf(own, calls) :
              /\ e.from \in own /\ e.to \in own \cup {NoSymbol}
              /\ \E d \in calls : d[1] = e.from.name /\ d[2] = e.callee
         /\ \A s \in own : \A d \in calls : d[1] = s.name =>
              \E e \in EdgesOf(own, calls) : e.from = s /\ e.callee = d[2]
<1>1. ASSUME NEW e \in EdgesOf(own, calls)
      PROVE  /\ e.from \in own /\ e.to \in own \cup {NoSymbol}
             /\ \E d \in calls : d[1] = e.from.name /\ d[2] = e.callee
  <2>1. PICK x \in own \X calls :
          x[1].name = x[2][1] /\ e = [from |-> x[1], callee |-> x[2][2], to |-> Resolved(own, x[2][2])]
    BY <1>1 DEF EdgesOf
  <2> QED BY <2>1, ResolvedIn
<1>2. ASSUME NEW s \in own, NEW d \in calls, d[1] = s.name
      PROVE  \E e \in EdgesOf(own, calls) : e.from = s /\ e.callee = d[2]
  <2>1. [from |-> s, callee |-> d[2], to |-> Resolved(own, d[2])] \in EdgesOf(own, calls)
    <3>1. <<s, d>> \in {y \in own \X calls : y[1].name = y[2][1]}
      BY <1>2
    <3> QED BY <3>1 DEF EdgesOf
  <2> QED BY <2>1
<1> QED BY <1>1, <1>2

\* What is left of the edges of a symbol that stays listed, with those of its file.
LEMMA EdgesStay ==
  ASSUME NEW now, NEW gone \in SUBSET Symbol, NEW kept, NEW s, NEW own,
         s \in own, s \in kept, own \cap gone = {},
         NEW mine, {e \in now : e.from = s} = mine,
         \A e \in mine : e.to \in own \cup {NoSymbol}
  PROVE  {e \in GcEdges(ClearTargets(now, gone), kept) : e.from = s} = mine
<1>1. \A e \in mine : e \in now /\ e.from = s /\ e.to \notin gone
  BY NoSymbolAssumption
<1>2. ASSUME NEW e \in mine
      PROVE  e \in GcEdges(ClearTargets(now, gone), kept)
  <2>1. e \in ClearTargets(now, gone)
    BY <1>1 DEF ClearTargets
  <2> QED BY <2>1, <1>1 DEF GcEdges
<1>3. ASSUME NEW e \in GcEdges(ClearTargets(now, gone), kept), e.from = s
      PROVE  e \in mine
  <2>1. PICK d \in now : e = IF d.to \in gone THEN [d EXCEPT !.to = NoSymbol] ELSE d
    BY <1>3 DEF GcEdges, ClearTargets
  <2>2. CASE d.to \notin gone
    BY <2>1, <2>2, <1>3
  <2>3. CASE d.to \in gone
    <3>1. e.from = d.from
      BY <2>1, <2>3
    <3> QED BY <3>1, <1>1, <1>3, <2>3
  <2> QED BY <2>2, <2>3
<1> QED BY <1>1, <1>2, <1>3

\* The calls of a symbol stay in its file.
LEMMA EdgesFromIn ==
  ASSUME NEW s
  PROVE  \A e \in EdgesFrom(s) : e.to \in SymbolsIn(At(s)) \cup {NoSymbol}
BY EdgesOfCalls, Zenon DEF EdgesFrom, EdgesIn

\* What a step has to show of the symbols listed after it.
LEMMA GraphMoves ==
  ASSUME listed' \in [Project -> SUBSET Symbol], NEW now, NEW gone \in SUBSET Symbol,
         \A q \in Project : \A s \in listed'[q] :
           /\ s \in symbols' /\ s \in SymbolsIn(At(s)) /\ SymbolsIn(At(s)) \subseteq listed'[q]
           /\ {e \in now : e.from = s} = EdgesFrom(s),
         \A s \in gone : \A q \in Project : s \notin listed'[q],
         \A s \in symbols' : \E q \in Project : s \in listed'[q],
         edges' = GcEdges(ClearTargets(now, gone), symbols')
  PROVE  Graph'
<1>1. ASSUME NEW q \in Project, NEW s \in listed'[q]
      PROVE  {e \in edges' : e.from = s} = EdgesFrom(s)
  <2>1. SymbolsIn(At(s)) \cap gone = {}
    BY <1>1
  <2>2. \A e \in EdgesFrom(s) : e.to \in SymbolsIn(At(s)) \cup {NoSymbol}
    BY EdgesFromIn
  <2>3. s \in SymbolsIn(At(s)) /\ s \in symbols' /\ {e \in now : e.from = s} = EdgesFrom(s)
    BY <1>1
  <2>4. {e \in GcEdges(ClearTargets(now, gone), symbols') : e.from = s} = EdgesFrom(s)
    BY <2>1, <2>2, <2>3, EdgesStay
  <2> QED BY <2>4
<1>2. \A q \in Project : \A s \in listed'[q] :
        /\ s \in symbols' /\ s \in SymbolsIn(At(s)) /\ SymbolsIn(At(s)) \subseteq listed'[q]
        /\ {e \in edges' : e.from = s} = EdgesFrom(s)
  BY <1>1
<1> QED BY <1>2, Zenon DEF Graph, EdgesFrom, At

\* Listed, as the tables have it.
LEMMA Listing ==
  ASSUME listed' \in [Project -> SUBSET Symbol], NEW table, symbols' = GcSymbols(table, listed')
  PROVE  /\ \A s \in symbols' : s \in table /\ \E q \in Project : s \in listed'[q]
         /\ \A q \in Project : \A s \in listed'[q] : s \in table => s \in symbols'
BY DEF GcSymbols, Listed

\* A clear or a health check.
LEMMA GraphCollected ==
  ASSUME Typed, Graph, NEW p \in Project, NEW removed, NEW files,
         Collected(p, removed, {s \in symbols : s.file \in files})
  PROVE  Graph'
<1> DEFINE syms == {s \in symbols : s.file \in files}
           gone == {s \in syms : \A q \in Project : s \notin listed'[q]}
<1>1. listed' = [listed EXCEPT ![p] = @ \ syms]
  BY Zenon DEF Collected
<1>2. listed' \in [Project -> SUBSET Symbol]
  <2> HIDE DEF syms
  <2> QED BY <1>1 DEF Typed
<1>3. symbols' = GcSymbols(symbols, listed') /\ edges' = GcEdges(ClearTargets(edges, gone), symbols')
  BY Zenon DEF Collected
<1>4. \A q \in Project : \A s \in listed'[q] : s \in listed[q] /\ (q = p => s.file \notin files)
  BY <1>1 DEF Typed, Graph
<1>5. \A q \in Project : \A s \in listed[q] : (q = p => s.file \notin files) => s \in listed'[q]
  BY <1>1 DEF Typed
<1>6. ASSUME NEW q \in Project, NEW s \in listed'[q]
      PROVE  /\ s \in symbols' /\ s \in SymbolsIn(At(s)) /\ SymbolsIn(At(s)) \subseteq listed'[q]
             /\ {e \in edges : e.from = s} = EdgesFrom(s)
  <2>1. s \in listed[q] /\ (q = p => s.file \notin files)
    BY <1>4
  <2>2. /\ s \in symbols /\ s \in SymbolsIn(At(s)) /\ SymbolsIn(At(s)) \subseteq listed[q]
        /\ {e \in edges : e.from = s} = EdgesFrom(s)
    BY <2>1, Zenon DEF Graph
  <2>3. \A t \in SymbolsIn(At(s)) : t.file = s.file
    BY DEF SymbolsIn, SymbolsOf, At
  <2> QED BY <1>2, <1>3, <1>5, <2>1, <2>2, <2>3, Listing
<1>7. gone \in SUBSET Symbol
  BY DEF Graph, Typed
<1>8. \A s \in symbols' : \E q \in Project : s \in listed'[q]
  BY <1>2, <1>3, Listing
<1>9. \A s \in gone : \A q \in Project : s \notin listed'[q]
  OBVIOUS
<1> HIDE DEF gone
<1> QED BY <1>2, <1>3, <1>6, <1>7, <1>8, <1>9, GraphMoves

\* What a run parses are chunks of files of the scope.
LEMMA ParsedChunks ==
  ASSUME Typed, NEW p \in Project
  PROVE  \A c \in Parsed(p) : c \in Chunk /\ c[1] \in Scope[p] /\ c[1] \notin Unchanged(p) /\ c[2] = tree[c[1]]
BY ScopesAssumption DEF Typed, Parsed, Present, Chunk

\* A run.
LEMMA GraphIndexed ==
  ASSUME Typed, Graph, NEW p \in Project, IndexGraph(p)
  PROVE  Graph' /\ listed' \in [Project -> SUBSET Symbol]
<1> DEFINE now == PutEdges(EdgesAfterSymbols(edges, Fresh(p)), FreshEdges(p))
           gone == DroppedSymbols(p)
<1>1. /\ listed' = [listed EXCEPT ![p] = KeptSymbols(p) \cup Fresh(p)]
      /\ symbols' = GcSymbols(symbols \cup Fresh(p), listed')
      /\ edges' = GcEdges(GcSymbolEdges(ClearTargets(now, gone), listed'), symbols')
  BY Zenon DEF IndexGraph
<1>2. \A s \in Fresh(p) : At(s) \in Parsed(p) /\ s \in SymbolsIn(At(s)) /\ s \in Symbol
  <2>1. ASSUME NEW c \in Parsed(p), NEW s \in SymbolsIn(c)
        PROVE  At(s) \in Parsed(p) /\ s \in SymbolsIn(At(s)) /\ s \in Symbol
    BY <2>1, ParsedChunks, FoundAt
  <2> QED BY <2>1 DEF Fresh
<1>3. \A s \in KeptSymbols(p) : s \in listed[p] /\ s \in symbols /\ s.file \in Unchanged(p)
  <2>1. ASSUME NEW s \in KeptSymbols(p)
        PROVE  s \in listed[p]
    <3>1. s \in symbols /\ (Restricted(p) => s \in listed[p])
      BY DEF KeptSymbols
    <3>2. Restricted(p)
      BY <3>1 DEF Graph, Restricted
    <3> QED BY <3>1, <3>2
  <2> QED BY <2>1 DEF KeptSymbols
<1>4. listed' \in [Project -> SUBSET Symbol]
  <2>1. KeptSymbols(p) \cup Fresh(p) \in SUBSET Symbol
    BY <1>2, <1>3 DEF Typed
  <2> QED BY <1>1, <2>1 DEF Typed
<1>5. /\ listed'[p] = KeptSymbols(p) \cup Fresh(p)
      /\ \A q \in Project : q # p => listed'[q] = listed[q]
  BY <1>1 DEF Typed
<1>6. \A s \in Fresh(p) : {e \in now : e.from = s} = EdgesFrom(s)
  <2>1. ASSUME NEW s \in Fresh(p), NEW e \in now, e.from = s
        PROVE  e \in EdgesFrom(s)
    <3>1. e \in FreshEdges(p)
      BY <2>1 DEF PutEdges, EdgesAfterSymbols
    <3>2. PICK c \in Parsed(p) : e \in EdgesIn(c)
      BY <3>1 DEF FreshEdges
    <3>3. s \in SymbolsIn(c)
      BY <2>1, <3>2, EdgesOfCalls DEF EdgesIn
    <3>4. At(s) = c
      BY <3>2, <3>3, ParsedChunks, FoundAt
    <3> QED BY <3>2, <3>4, <2>1 DEF EdgesFrom
  <2>2. ASSUME NEW s \in Fresh(p), NEW e \in EdgesFrom(s)
        PROVE  e \in now /\ e.from = s
    <3>1. e \in FreshEdges(p)
      BY <1>2 DEF EdgesFrom, FreshEdges
    <3> QED BY <3>1 DEF PutEdges, EdgesFrom
  <2> QED BY <2>1, <2>2
<1>7. \A e \in FreshEdges(p) : e.from \in Fresh(p)
  BY EdgesOfCalls DEF FreshEdges, Fresh, EdgesIn
<1>8. \A q \in Project : \A s \in listed[q] : s \notin Fresh(p) => {e \in now : e.from = s} = EdgesFrom(s)
  <2>1. ASSUME NEW q \in Project, NEW s \in listed[q], s \notin Fresh(p)
        PROVE  {e \in now : e.from = s} = {e \in edges : e.from = s}
    BY <2>1, <1>7 DEF PutEdges, EdgesAfterSymbols
  <2> QED BY <2>1 DEF Graph
<1>9. \A q \in Project : \A s \in listed'[q] : s \in Fresh(p) \/ s \in listed[q]
  BY <1>3, <1>5
<1>10. ASSUME NEW q \in Project, NEW s \in listed'[q]
       PROVE  /\ s \in symbols' /\ s \in SymbolsIn(At(s)) /\ SymbolsIn(At(s)) \subseteq listed'[q]
              /\ {e \in now : e.from = s} = EdgesFrom(s)
  <2>1. s \in symbols \cup Fresh(p)
    BY <1>9 DEF Graph
  <2>2. s \in symbols'
    BY <2>1, <1>1, <1>4, Listing
  <2>3. {e \in now : e.from = s} = EdgesFrom(s)
    <3> HIDE DEF now
    <3> QED BY <1>6, <1>8, <1>9
  <2>4. s \in SymbolsIn(At(s)) /\ SymbolsIn(At(s)) \subseteq listed'[q]
    <3>1. CASE q # p
      BY <3>1, <1>5, Zenon DEF Graph
    <3>2. CASE q = p /\ s \in Fresh(p)
      <4>1. SymbolsIn(At(s)) \subseteq Fresh(p)
        BY <3>2, <1>2 DEF Fresh
      <4> QED BY <3>2, <4>1, <1>2, <1>5
    <3>3. CASE q = p /\ s \in KeptSymbols(p)
      <4>1. s \in listed[p] /\ s.file \in Unchanged(p)
        BY <3>3, <1>3
      <4>2. s \in SymbolsIn(At(s)) /\ SymbolsIn(At(s)) \subseteq listed[p]
        BY <4>1, Zenon DEF Graph
      <4>3. ASSUME NEW t \in SymbolsIn(At(s))
            PROVE  t \in KeptSymbols(p)
        <5>1. t.file = s.file
          BY DEF SymbolsIn, SymbolsOf, At
        <5>2. t \in symbols /\ t \in listed[p]
          BY <4>2, Zenon DEF Graph
        <5> QED BY <4>1, <5>1, <5>2 DEF KeptSymbols
      <4> QED BY <3>3, <4>2, <4>3, <1>5
    <3> QED BY <3>1, <3>2, <3>3, <1>5
  <2> QED BY <2>2, <2>3, <2>4
<1>11. gone \in SUBSET Symbol /\ \A s \in gone : \A q \in Project : s \notin listed'[q]
  BY DEF DroppedSymbols, Typed
<1>12. \A s \in symbols' : \E q \in Project : s \in listed'[q]
  BY <1>1, <1>4, Listing
<1>13. edges' = GcEdges(ClearTargets(now, gone), symbols')
  <2>1. \A x : GcEdges(GcSymbolEdges(x, listed'), symbols') = GcEdges(x, symbols')
    BY <1>1 DEF GcEdges, GcSymbolEdges, GcSymbols
  <2> HIDE DEF now, gone
  <2> QED BY <1>1, <2>1, Zenon
<1>14. Graph'
  <2> HIDE DEF gone, now
  <2> QED BY <1>4, <1>10, <1>11, <1>12, <1>13, GraphMoves
<1> QED BY <1>4, <1>14

-----------------------------------------------------------------------------
(* The operations, with what each leaves alone.                            *)

\* What a clear does besides.
ClearRest(p) ==
  /\ ForgetScope(p)
  /\ published' = published
  /\ \/ Compatible(p) /\ strategy' = strategy /\ forced' = forced
     \/ /\ ~Compatible(p)
        /\ forced' = [forced EXCEPT ![p] = TRUE]
        /\ strategy' = [strategy EXCEPT ![p] = "none"]

OnlyStores == UNCHANGED <<tree, migrated, world>>

\* A step is one of these.
LEMMA Steps ==
  ASSUME [Next]_vars
  PROVE  \/ \E p \in Project : Index(p) /\ world' = world
         \/ \E p \in Project : /\ ClearProject(p) /\ ClearRest(p) /\ OnlyStores /\ "clear" \in world
                               /\ last'.op = "clear" /\ last'.by = p
         \/ \E p \in Project : /\ ~HasForeignData(p) /\ ClearAll(p) /\ OnlyStores /\ "clear" \in world
                               /\ last'.op = "clear" /\ last'.by = p
         \/ \E p \in Project : /\ Health(p) /\ OnlyStores /\ UNCHANGED <<hashes, failed, metadata>>
                               /\ last'.op = "health" /\ last'.by = p
         \/ \E p \in Project : Retry(p) /\ OnlyStores /\ last'.op = "retry" /\ last'.by = p
         \/ \E f \in File : Edit(f) /\ last'.op = "edit"
         \/ UNCHANGED vars
<1>1. CASE Next
  <2>1. ASSUME NEW p \in Project, Index(p)
        PROVE  world' = world
    BY <2>1, Zenon DEF Index
  <2>2. ASSUME NEW p \in Project, Clear(p)
        PROVE  /\ \/ ClearProject(p) /\ ClearRest(p)
                  \/ ~HasForeignData(p) /\ ClearAll(p)
               /\ OnlyStores /\ "clear" \in world /\ last'.op = "clear" /\ last'.by = p
    <3>1. OnlyStores /\ "clear" \in world
      BY <2>2, Zenon DEF Clear, OnlyStores, bounds
    <3>2. last' = [op |-> "clear", by |-> p, whole |-> TRUE, rebuilt |-> FALSE]
      BY <2>2, Zenon DEF Clear
    <3>3. \/ ClearProject(p) /\ ClearRest(p)
          \/ ~HasForeignData(p) /\ ClearAll(p)
      BY <2>2, Zenon DEF Clear, ClearRest
    <3> QED BY <3>1, <3>2, <3>3
  <2>3. ASSUME NEW p \in Project, Health(p)
        PROVE  /\ OnlyStores /\ UNCHANGED <<hashes, failed, metadata>>
               /\ last'.op = "health" /\ last'.by = p
    <3>1. OnlyStores /\ UNCHANGED <<hashes, failed, metadata>>
      BY <2>3, Zenon DEF Health, OnlyStores, bounds, metadata
    <3>2. last' = [op |-> "health", by |-> p, whole |-> TRUE, rebuilt |-> FALSE]
      BY <2>3, Zenon DEF Health
    <3> QED BY <3>1, <3>2
  <2>4. ASSUME NEW p \in Project, Retry(p)
        PROVE  OnlyStores /\ last'.op = "retry" /\ last'.by = p
    <3>1. OnlyStores
      BY <2>4, Zenon DEF Retry, OnlyStores
    <3>2. last' = [op |-> "retry", by |-> p, whole |-> TRUE, rebuilt |-> FALSE]
      BY <2>4, Zenon DEF Retry
    <3> QED BY <3>1, <3>2
  <2>5. ASSUME NEW f \in File, Edit(f)
        PROVE  last'.op = "edit"
    <3>1. last' = [op |-> "edit", by |-> CHOOSE p \in Project : TRUE, whole |-> TRUE, rebuilt |-> FALSE]
      BY <2>5, Zenon DEF Edit
    <3> QED BY <3>1
  <2>6. \/ \E p \in Project : Index(p) \/ Clear(p) \/ Health(p) \/ Retry(p)
        \/ \E f \in File : Edit(f)
    BY <1>1, Zenon DEF Next
  <2> QED BY <2>1, <2>2, <2>3, <2>4, <2>5, <2>6, Zenon
<1>2. CASE UNCHANGED vars
  BY <1>2
<1> QED BY <1>1, <1>2

\* The types, and the scopes.
TypedScoped == Typed /\ Scoped

\* A clear or a health check takes away.
LEMMA CollectedTyped ==
  ASSUME TypedScoped, NEW p \in Project, NEW removed, NEW syms, Collected(p, removed, syms)
  PROVE  /\ Vectors' \subseteq Chunk /\ \A c \in Vectors' : vec'[c] \in Strategies
         /\ DOMAIN emb' \subseteq Chunk /\ \A c \in DOMAIN emb' : emb'[c] \in Strategies
         /\ words' \subseteq Chunk /\ rows' \subseteq Chunk
         /\ catalog' \in [Project -> SUBSET Chunk] /\ listed' \in [Project -> SUBSET Symbol]
         /\ Scoped'
<1>1. catalog' = [catalog EXCEPT ![p] = @ \ removed] /\ listed' = [listed EXCEPT ![p] = @ \ syms]
  BY Zenon DEF Collected
<1>2. \A q \in Project : catalog'[q] \subseteq catalog[q] /\ listed'[q] \subseteq listed[q]
  BY <1>1 DEF TypedScoped, Typed
<1>3. catalog' \in [Project -> SUBSET Chunk] /\ listed' \in [Project -> SUBSET Symbol]
  BY <1>1 DEF TypedScoped, Typed
<1>4. Scoped'
  BY <1>2 DEF TypedScoped, Scoped
<1>5. Vectors' \subseteq Chunk /\ \A c \in Vectors' : vec'[c] \in Strategies
  BY DEF Collected, TypedScoped, Typed
<1>6. DOMAIN emb' \subseteq Chunk /\ \A c \in DOMAIN emb' : emb'[c] \in Strategies
  BY DEF Collected, TypedScoped, Typed
<1>7. words' \subseteq Chunk /\ rows' \subseteq Chunk
  BY DEF Collected, TypedScoped, Typed
<1> QED BY <1>3, <1>4, <1>5, <1>6, <1>7

\* A run puts in chunks of its scope.
LEMMA IndexTyped ==
  ASSUME TypedScoped, NEW p \in Project, Graph, NEW fails, NEW done, IndexStores(p, fails, done),
         IndexGraph(p), IndexRest(p)
  PROVE  TypedScoped'
<1>1. fails \subseteq Chunk /\ done \subseteq Chunk /\ Need(p) \subseteq Chunk
  <2>1. Need(p) \subseteq Chunk
    BY ParsedChunks DEF Need, Retryable, In, TypedScoped, Typed
  <2>2. fails \subseteq Need(p) /\ done = Need(p) \ fails
    BY Zenon DEF IndexStores
  <2> QED BY <2>1, <2>2
<1>2. CatalogAfter(p, fails) \subseteq Chunk /\ \A c \in CatalogAfter(p, fails) : c[1] \in Scope[p]
  BY ParsedChunks DEF CatalogAfter, Current, Existing, Retryable, Unchanged, Present, In, TypedScoped, Typed
<1>3. catalog' = [catalog EXCEPT ![p] = CatalogAfter(p, fails)]
  BY Zenon DEF IndexStores
<1>4. catalog' \in [Project -> SUBSET Chunk]
  BY <1>2, <1>3 DEF TypedScoped, Typed
<1>5. listed' \in [Project -> SUBSET Symbol]
  BY GraphIndexed DEF TypedScoped
<1>6. Scoped'
  <2>1. \A s \in KeptSymbols(p) \cup Fresh(p) : s.file \in Scope[p]
    <3>1. \A s \in KeptSymbols(p) : s.file \in Scope[p]
      BY DEF KeptSymbols, Unchanged, Present
    <3>2. ASSUME NEW c \in Parsed(p), NEW s \in SymbolsIn(c)
          PROVE  s.file \in Scope[p]
      BY ParsedChunks DEF SymbolsIn, SymbolsOf, TypedScoped
    <3> QED BY <3>1, <3>2 DEF Fresh
  <2>2. listed' = [listed EXCEPT ![p] = KeptSymbols(p) \cup Fresh(p)]
    BY Zenon DEF IndexGraph
  <2> QED BY <1>2, <1>3, <2>1, <2>2 DEF TypedScoped, Scoped, Typed
<1>7. \A c \in DOMAIN emb \cup done : EmbeddingsAfter(p, done)[c] \in Strategies
  BY DEF EmbeddingsAfter, Strategies, TypedScoped, Typed, Cached
<1>8. Vectors' \subseteq Chunk /\ \A c \in Vectors' : vec'[c] \in Strategies
  BY <1>1, <1>7 DEF IndexStores, TypedScoped, Typed
<1>9. DOMAIN emb' \subseteq Chunk /\ \A c \in DOMAIN emb' : emb'[c] \in Strategies
  BY <1>1, <1>7 DEF IndexStores, TypedScoped, Typed
<1>10. words' \subseteq Chunk /\ rows' \subseteq Chunk /\ failed' \subseteq Chunk
  BY <1>1, ParsedChunks DEF IndexStores, TypedScoped, Typed
<1>11. strategy' \in [Project -> {"none", "new"}] /\ forced' \in [Project -> BOOLEAN]
  BY DEF IndexStores, StrategyAfter, ForcedAfter, TypedScoped, Typed
<1>12. /\ tree' \in [File -> Version \cup {0}] /\ hashes' \in [File -> Version \cup {0}]
       /\ world' \in Worlds /\ migrated' \in [Project -> BOOLEAN]
       /\ published' \in [version : BOOLEAN, legacy : {"none", "old"}]
  BY DEF IndexRest, TypedScoped, Typed
<1> QED BY <1>4, <1>5, <1>6, <1>8, <1>9, <1>10, <1>11, <1>12 DEF TypedScoped, Typed

\* So does forgetting a scope.
LEMMA ClearTyped ==
  ASSUME TypedScoped, NEW p \in Project, ClearProject(p), ClearRest(p), OnlyStores
  PROVE  TypedScoped'
<1>1. Collected(p, Removed(p), RemovedSymbols(p))
  BY ClearStep DEF TypedScoped
<1>2. /\ Vectors' \subseteq Chunk /\ \A c \in Vectors' : vec'[c] \in Strategies
      /\ DOMAIN emb' \subseteq Chunk /\ \A c \in DOMAIN emb' : emb'[c] \in Strategies
      /\ words' \subseteq Chunk /\ rows' \subseteq Chunk
      /\ catalog' \in [Project -> SUBSET Chunk] /\ listed' \in [Project -> SUBSET Symbol]
      /\ Scoped'
  BY <1>1, CollectedTyped, Zenon
<1>3. hashes' \in [File -> Version \cup {0}] /\ failed' \subseteq Chunk
  BY DEF ClearRest, ForgetScope, TypedScoped, Typed
<1>4. strategy' \in [Project -> {"none", "new"}] /\ forced' \in [Project -> BOOLEAN]
  BY DEF ClearRest, TypedScoped, Typed
<1>5. /\ tree' \in [File -> Version \cup {0}] /\ world' \in Worlds /\ migrated' \in [Project -> BOOLEAN]
      /\ published' \in [version : BOOLEAN, legacy : {"none", "old"}]
  BY DEF ClearRest, OnlyStores, TypedScoped, Typed
<1> QED BY <1>2, <1>3, <1>4, <1>5 DEF TypedScoped, Typed

\* A health check takes only from the stores.
LEMMA HealthTyped ==
  ASSUME TypedScoped, NEW p \in Project, Health(p), OnlyStores, UNCHANGED <<hashes, failed, metadata>>
  PROVE  TypedScoped'
<1>1. Collected(p, {c \in Vectors : tree[c[1]] = 0},
                {s \in symbols : s.file \in FilesOf({c \in Vectors : tree[c[1]] = 0})})
  BY HealthStep, Zenon DEF TypedScoped
<1>2. /\ Vectors' \subseteq Chunk /\ \A c \in Vectors' : vec'[c] \in Strategies
      /\ DOMAIN emb' \subseteq Chunk /\ \A c \in DOMAIN emb' : emb'[c] \in Strategies
      /\ words' \subseteq Chunk /\ rows' \subseteq Chunk
      /\ catalog' \in [Project -> SUBSET Chunk] /\ listed' \in [Project -> SUBSET Symbol]
      /\ Scoped'
  BY <1>1, CollectedTyped, Zenon
<1> QED BY <1>2 DEF OnlyStores, metadata, TypedScoped, Typed

\* With nothing left, nothing is wrong.
LEMMA ClearAllTyped ==
  ASSUME TypedScoped, NEW p \in Project, ClearAll(p), OnlyStores
  PROVE  TypedScoped' /\ Graph'
<1>1. /\ vec' = <<>> /\ emb' = <<>> /\ words' = {} /\ rows' = {} /\ symbols' = {} /\ edges' = {} /\ failed' = {}
      /\ catalog' = [q \in Project |-> {}] /\ listed' = [q \in Project |-> {}]
      /\ hashes' = [f \in File |-> 0]
      /\ published' = [version |-> FALSE, legacy |-> "none"]
      /\ strategy' = [strategy EXCEPT ![p] = "none"]
      /\ forced' = [forced EXCEPT ![p] = FALSE]
  BY Zenon DEF ClearAll
<1>2. Vectors' = {} /\ DOMAIN emb' = {}
  BY <1>1 DEF Vectors
<1>3. Typed'
  BY <1>1, <1>2 DEF OnlyStores, TypedScoped, Typed
<1>4. Scoped' /\ Graph'
  BY <1>1 DEF Scoped, Graph
<1> QED BY <1>3, <1>4 DEF TypedScoped

\* What a retry does.
RetryStores(p, fails, done) ==
  /\ fails \subseteq In(Scope[p], failed) /\ done = In(Scope[p], failed) \ fails
  /\ Vectors' = Vectors \cup done
  /\ \A c \in Vectors' : vec'[c] = IF c \in done THEN "new" ELSE vec[c]
  /\ DOMAIN emb' = DOMAIN emb \cup done
  /\ \A c \in DOMAIN emb' : emb'[c] = IF c \in done THEN "new" ELSE emb[c]
  /\ words' = words \cup done
  /\ catalog' = [catalog EXCEPT ![p] = @ \cup done]
  /\ failed' = {c \in failed : c[1] \notin Scope[p]} \cup fails
  /\ forced' = [forced EXCEPT ![p] = @ /\ fails # {}]
  /\ strategy' = [strategy EXCEPT ![p] = IF forced[p] /\ fails = {} THEN "new" ELSE @]
  /\ published' = [published EXCEPT !.version = @ \/ (forced[p] /\ fails = {})]

\* A retry.
LEMMA RetryStep ==
  ASSUME NEW p \in Project, Retry(p)
  PROVE  /\ In(Scope[p], failed) # {}
         /\ \E fails, done : RetryStores(p, fails, done)
         /\ UNCHANGED <<tree, rows, symbols, edges, listed, hashes, migrated, world>>
<1>1. In(Scope[p], failed) # {} /\ UNCHANGED <<tree, rows, symbols, edges, listed, hashes, migrated, world>>
  BY Zenon DEF Retry
<1>2. PICK fails \in (IF failures < Failing THEN SUBSET In(Scope[p], failed) ELSE {{}}) :
        /\ vec' = [c \in Vectors \cup (In(Scope[p], failed) \ fails) |->
                     IF c \in In(Scope[p], failed) \ fails THEN "new" ELSE vec[c]]
        /\ emb' = [c \in DOMAIN emb \cup (In(Scope[p], failed) \ fails) |->
                     IF c \in In(Scope[p], failed) \ fails THEN "new" ELSE emb[c]]
        /\ words' = words \cup (In(Scope[p], failed) \ fails)
        /\ catalog' = [catalog EXCEPT ![p] = @ \cup (In(Scope[p], failed) \ fails)]
        /\ failed' = {c \in failed : c[1] \notin Scope[p]} \cup fails
        /\ forced' = [forced EXCEPT ![p] = @ /\ fails # {}]
        /\ strategy' = [strategy EXCEPT ![p] = IF forced[p] /\ fails = {} THEN "new" ELSE @]
        /\ published' = [published EXCEPT !.version = @ \/ (forced[p] /\ fails = {})]
  BY Zenon DEF Retry
<1> DEFINE done == In(Scope[p], failed) \ fails
<1>3. fails \subseteq In(Scope[p], failed)
  OBVIOUS
<1>4. RetryStores(p, fails, done)
  <2> HIDE DEF done
  <2>1. done = In(Scope[p], failed) \ fails
    BY DEF done
  <2>2. vec' = [c \in Vectors \cup done |-> IF c \in done THEN "new" ELSE vec[c]]
    BY <1>2, Zenon DEF done
  <2>3. emb' = [c \in DOMAIN emb \cup done |-> IF c \in done THEN "new" ELSE emb[c]]
    BY <1>2, Zenon DEF done
  <2>4. words' = words \cup done /\ catalog' = [catalog EXCEPT ![p] = @ \cup done]
    BY <1>2, Zenon DEF done
  <2>5. /\ Vectors' = Vectors \cup done
        /\ \A c \in Vectors' : vec'[c] = IF c \in done THEN "new" ELSE vec[c]
    BY <2>2 DEF Vectors
  <2>6. /\ DOMAIN emb' = DOMAIN emb \cup done
        /\ \A c \in DOMAIN emb' : emb'[c] = IF c \in done THEN "new" ELSE emb[c]
    BY <2>3
  <2> QED BY <1>2, <1>3, <2>1, <2>4, <2>5, <2>6, Zenon DEF RetryStores
<1> QED BY <1>1, <1>4

\* A retry adds to the stores.
LEMMA RetryTyped ==
  ASSUME TypedScoped, Graph, NEW p \in Project, NEW fails, NEW done, RetryStores(p, fails, done),
         UNCHANGED <<tree, rows, symbols, edges, listed, hashes, migrated, world>>
  PROVE  TypedScoped' /\ Graph'
<1>1. done \subseteq Chunk /\ fails \subseteq Chunk /\ \A c \in done : c[1] \in Scope[p]
  BY DEF RetryStores, In, TypedScoped, Typed
<1>2. catalog' = [catalog EXCEPT ![p] = @ \cup done]
  BY Zenon DEF RetryStores
<1>3. catalog' \in [Project -> SUBSET Chunk] /\ Scoped'
  BY <1>1, <1>2 DEF TypedScoped, Typed, Scoped
<1>4. Vectors' \subseteq Chunk /\ \A c \in Vectors' : vec'[c] \in Strategies
  BY <1>1 DEF RetryStores, TypedScoped, Typed, Strategies
<1>5. DOMAIN emb' \subseteq Chunk /\ \A c \in DOMAIN emb' : emb'[c] \in Strategies
  BY <1>1 DEF RetryStores, TypedScoped, Typed, Strategies
<1>6. words' \subseteq Chunk /\ failed' \subseteq Chunk
  BY <1>1 DEF RetryStores, TypedScoped, Typed
<1>7. /\ strategy' \in [Project -> {"none", "new"}] /\ forced' \in [Project -> BOOLEAN]
      /\ published' \in [version : BOOLEAN, legacy : {"none", "old"}]
  BY DEF RetryStores, TypedScoped, Typed
<1>8. Graph'
  BY DEF Graph
<1> QED BY <1>3, <1>4, <1>5, <1>6, <1>7, <1>8 DEF TypedScoped, Typed

\* An edit changes a file.
LEMMA EditStep ==
  ASSUME TypedScoped, Graph, NEW f \in File, Edit(f)
  PROVE  /\ \E v \in Version \cup {0} : tree' = [tree EXCEPT ![f] = v]
         /\ tree[f] # 0
         /\ UNCHANGED <<vec, words, tables, hashes, failed, metadata, world>>
         /\ TypedScoped' /\ Graph'
<1>1. tree[f] # 0 /\ UNCHANGED <<vec, words, tables, hashes, failed, metadata, world>>
  BY Zenon DEF Edit
<1>2. PICK v \in (IF "health" \in world THEN Version \cup {0} ELSE Version) \ {tree[f]} :
        tree' = [tree EXCEPT ![f] = v]
  BY Zenon DEF Edit
<1>3. v \in Version \cup {0}
  OBVIOUS
<1>4. tree' \in [File -> Version \cup {0}]
  BY <1>2, <1>3 DEF TypedScoped, Typed
<1>5. TypedScoped' /\ Graph'
  BY <1>1, <1>4 DEF tables, metadata, TypedScoped, Typed, Scoped, Graph, Vectors
<1> QED BY <1>1, <1>2, <1>3, <1>5

\* What holds at the beginning: the stores, of what an older release has built.
InitStores(old, chunks) ==
  /\ chunks = IF old THEN {<<f, 1>> : f \in File} ELSE {}
  /\ tree = [f \in File |-> 1]
  /\ vec = [c \in chunks |-> "old"] /\ emb = vec
  /\ words = chunks /\ rows = chunks
  /\ catalog = [p \in Project |-> In(Scope[p], chunks)]
  /\ symbols = UNION {SymbolsIn(c) : c \in chunks}
  /\ edges = UNION {EdgesIn(c) : c \in chunks}
  /\ listed = [p \in Project |-> {s \in symbols : s.file \in Scope[p]}]
  /\ hashes = [f \in File |-> IF old THEN 1 ELSE 0]
  /\ published = [version |-> old, legacy |-> IF old THEN "old" ELSE "none"]
  /\ failed = {}
  /\ strategy = [p \in Project |-> "none"]
  /\ forced = [p \in Project |-> FALSE]
  /\ migrated = [p \in Project |-> FALSE]

\* The beginning is one of two.
LEMMA InitStep ==
  ASSUME Init
  PROVE  /\ world \in Worlds
         /\ \E old \in BOOLEAN : \E chunks \in SUBSET Chunk :
              InitStores(old, chunks) /\ (old => "upgrade" \in world)
         /\ last.op = "edit"
<1>1. InitStores("upgrade" \in world, IF "upgrade" \in world THEN {<<f, 1>> : f \in File} ELSE {})
  BY Zenon DEF Init, InitStores
<1>2. {<<f, 1>> : f \in File} \subseteq Chunk
  BY VersionAssumption DEF Chunk
<1>3. world \in Worlds /\ last.op = "edit"
  BY DEF Init
<1>4. CASE "upgrade" \in world
  <2>1. InitStores(TRUE, {<<f, 1>> : f \in File})
    BY <1>1, <1>4
  <2> QED BY <1>2, <1>3, <1>4, <2>1
<1>5. CASE "upgrade" \notin world
  <2>1. InitStores("upgrade" \in world, {})
    BY <1>1, <1>5
  <2>2. ("upgrade" \in world) = FALSE
    BY <1>5
  <2>3. InitStores(FALSE, {})
    BY <2>1, <2>2, Zenon
  <2> QED BY <1>3, <1>5, <2>3
<1> QED BY <1>4, <1>5

\* The types, the scopes and the call graph at the beginning.
LEMMA InitGraph ==
  ASSUME world \in Worlds, NEW old \in BOOLEAN, NEW chunks \in SUBSET Chunk, InitStores(old, chunks)
  PROVE  TypedScoped /\ Graph
<1>1. Vectors = chunks /\ DOMAIN emb = chunks /\ \A c \in chunks : vec[c] = "old" /\ emb[c] = "old"
  BY DEF InitStores, Vectors
<1>2. \A s \in symbols : At(s) \in chunks /\ s \in SymbolsIn(At(s)) /\ s \in Symbol
  <2>1. ASSUME NEW c \in chunks, NEW s \in SymbolsIn(c)
        PROVE  At(s) \in chunks /\ s \in SymbolsIn(At(s)) /\ s \in Symbol
    BY <2>1, FoundAt
  <2>2. symbols = UNION {SymbolsIn(c) : c \in chunks}
    BY Zenon DEF InitStores
  <2> QED BY <2>1, <2>2
<1>3. listed = [p \in Project |-> {s \in symbols : s.file \in Scope[p]}]
  BY Zenon DEF InitStores
<1>4. Typed
  <2>1. tree \in [File -> Version \cup {0}] /\ hashes \in [File -> Version \cup {0}]
    BY VersionAssumption DEF InitStores
  <2>2. catalog \in [Project -> SUBSET Chunk] /\ listed \in [Project -> SUBSET Symbol]
    BY <1>2, <1>3 DEF InitStores, In
  <2>3. /\ words \subseteq Chunk /\ rows \subseteq Chunk /\ failed \subseteq Chunk
        /\ published \in [version : BOOLEAN, legacy : {"none", "old"}]
        /\ strategy \in [Project -> {"none", "new"}]
        /\ forced \in [Project -> BOOLEAN] /\ migrated \in [Project -> BOOLEAN]
    BY DEF InitStores
  <2> QED BY <1>1, <2>1, <2>2, <2>3 DEF Typed, Strategies
<1>5. Scoped
  BY <1>3 DEF InitStores, Scoped, In
<1>6. ASSUME NEW p \in Project, NEW s \in listed[p]
      PROVE  /\ s \in symbols /\ s \in SymbolsIn(At(s)) /\ SymbolsIn(At(s)) \subseteq listed[p]
             /\ {e \in edges : e.from = s} = EdgesFrom(s)
  <2>1. s \in symbols /\ s.file \in Scope[p] /\ At(s) \in chunks /\ s \in SymbolsIn(At(s))
    BY <1>2, <1>3
  <2>2. SymbolsIn(At(s)) \subseteq symbols
    BY <2>1 DEF InitStores
  <2>3. \A t \in SymbolsIn(At(s)) : t.file = s.file
    BY DEF SymbolsIn, SymbolsOf, At
  <2>4. \A e \in edges : e.from = s => e \in EdgesIn(At(s))
    <3>1. ASSUME NEW c \in chunks, NEW e \in EdgesIn(c), e.from = s
          PROVE  c = At(s)
      <4>1. s \in SymbolsIn(c)
        BY <3>1, EdgesOfCalls DEF EdgesIn
      <4> QED BY <4>1, FoundAt
    <3>2. edges = UNION {EdgesIn(c) : c \in chunks}
      BY Zenon DEF InitStores
    <3> QED BY <3>1, <3>2
  <2>5. EdgesIn(At(s)) \subseteq edges
    BY <2>1 DEF InitStores
  <2> QED BY <1>3, <2>1, <2>2, <2>3, <2>4, <2>5 DEF EdgesFrom
<1>7. \A s \in symbols : \E p \in Project : s \in listed[p]
  <2>1. \A s \in Symbol : s.file \in File
    BY DEF Symbol
  <2> QED BY <1>2, <1>3, <2>1, ScopesAssumption
<1>8. Graph
  BY <1>6, <1>7 DEF Graph
<1> QED BY <1>4, <1>5, <1>8 DEF TypedScoped

\* The call graph stays as the parser found it.
LEMMA GraphStep ==
  ASSUME TypedScoped, Graph, [Next]_vars
  PROVE  TypedScoped' /\ Graph'
<1>1. ASSUME NEW p \in Project, Index(p)
      PROVE  TypedScoped' /\ Graph'
  <2>1. (\E fails, done : IndexStores(p, fails, done)) /\ IndexGraph(p) /\ IndexRest(p)
    BY <1>1, IndexStep DEF TypedScoped
  <2> QED BY <2>1, IndexTyped, GraphIndexed DEF TypedScoped
<1>2. ASSUME NEW p \in Project, ClearProject(p), ClearRest(p), OnlyStores
      PROVE  TypedScoped' /\ Graph'
  <2>1. Collected(p, Removed(p), RemovedSymbols(p))
    BY <1>2, ClearStep DEF TypedScoped
  <2>2. Graph'
    BY <2>1, GraphCollected DEF TypedScoped, RemovedSymbols
  <2> QED BY <1>2, <2>2, ClearTyped
<1>3. ASSUME NEW p \in Project, ClearAll(p), OnlyStores
      PROVE  TypedScoped' /\ Graph'
  BY <1>3, ClearAllTyped
<1>4. ASSUME NEW p \in Project, Health(p), OnlyStores, UNCHANGED <<hashes, failed, metadata>>
      PROVE  TypedScoped' /\ Graph'
  <2>1. Graph'
    BY <1>4, HealthStep, GraphCollected DEF TypedScoped
  <2> QED BY <1>4, <2>1, HealthTyped
<1>5. ASSUME NEW p \in Project, Retry(p)
      PROVE  TypedScoped' /\ Graph'
  BY <1>5, RetryStep, RetryTyped
<1>6. ASSUME NEW f \in File, Edit(f)
      PROVE  TypedScoped' /\ Graph'
  BY <1>6, EditStep
<1>7. CASE UNCHANGED vars
  BY <1>7 DEF vars, tables, metadata, bounds, TypedScoped, Typed, Scoped, Graph, Vectors
<1> QED BY <1>1, <1>2, <1>3, <1>4, <1>5, <1>6, <1>7, Steps, Zenon

\* What the table of edges answers is what the branch's sources say.
LEMMA GraphAnswers == TypedScoped /\ Graph => GraphClosed
<1> SUFFICES ASSUME TypedScoped, Graph PROVE GraphClosed
  OBVIOUS
<1> SUFFICES ASSUME NEW p \in Project
             PROVE  /\ listed[p] \subseteq symbols
                    /\ \A e \in edges : e.from \in listed[p] => e.to \in listed[p] \cup {NoSymbol}
                    /\ \A n \in UNION {Names[f][v] : f \in File, v \in Version} :
                         {<<e.from, e.callee>> : e \in Callers(symbols, edges, listed[p], n)} =
                         UNION {{<<s, c[2]>> : c \in {d \in CallsIn[s.file][s.version] :
                                        d[1] = s.name /\ NamesMatch(s, d[2], n)}} : s \in listed[p]}
  BY DEF GraphClosed
<1>1. listed[p] \subseteq symbols
  BY DEF Graph
<1>2. ASSUME NEW e \in edges, e.from \in listed[p]
      PROVE  /\ e.to \in listed[p] \cup {NoSymbol}
             /\ \E d \in CallsIn[e.from.file][e.from.version] : d[1] = e.from.name /\ d[2] = e.callee
  <2>1. e \in EdgesFrom(e.from) /\ SymbolsIn(At(e.from)) \subseteq listed[p]
    BY <1>2 DEF Graph
  <2>2. e \in EdgesOf(SymbolsIn(At(e.from)), CallsIn[e.from.file][e.from.version])
    BY <2>1 DEF EdgesFrom, EdgesIn, At
  <2> QED BY <2>1, <2>2, EdgesOfCalls
<1>3. ASSUME NEW s \in listed[p], NEW d \in CallsIn[s.file][s.version], d[1] = s.name
      PROVE  \E e \in edges : e.from = s /\ e.callee = d[2]
  <2>1. s \in SymbolsIn(At(s)) /\ EdgesFrom(s) \subseteq edges
    BY DEF Graph
  <2>2. \E e \in EdgesOf(SymbolsIn(At(s)), CallsIn[s.file][s.version]) : e.from = s /\ e.callee = d[2]
    BY <1>3, <2>1, EdgesOfCalls
  <2>3. EdgesIn(At(s)) = EdgesOf(SymbolsIn(At(s)), CallsIn[s.file][s.version])
    BY DEF EdgesIn, At
  <2> QED BY <2>1, <2>2, <2>3 DEF EdgesFrom
<1>4. ASSUME NEW n
      PROVE  {<<e.from, e.callee>> : e \in Callers(symbols, edges, listed[p], n)} =
             UNION {{<<s, c[2]>> : c \in {d \in CallsIn[s.file][s.version] :
                                        d[1] = s.name /\ NamesMatch(s, d[2], n)}} : s \in listed[p]}
  <2>1. \A e : e \in Callers(symbols, edges, listed[p], n) <=>
               e \in edges /\ e.from \in listed[p] /\ NamesMatch(e.from, e.callee, n)
    BY <1>1 DEF Callers
  <2>2. ASSUME NEW e \in Callers(symbols, edges, listed[p], n)
        PROVE  \E s \in listed[p] : \E d \in CallsIn[s.file][s.version] :
                 d[1] = s.name /\ NamesMatch(s, d[2], n) /\ <<s, d[2]>> = <<e.from, e.callee>>
    BY <1>2, <2>1, <2>2
  <2>3. ASSUME NEW s \in listed[p], NEW d \in CallsIn[s.file][s.version], d[1] = s.name, NamesMatch(s, d[2], n)
        PROVE  \E e \in Callers(symbols, edges, listed[p], n) : <<e.from, e.callee>> = <<s, d[2]>>
    BY <1>3, <2>1, <2>3
  <2> QED BY <2>2, <2>3
<1> QED BY <1>1, <1>2, <1>4

\* The call graph of a branch is closed, and answers as its sources say, whatever else
\* is indexed, cleared, collected or retried.
THEOREM GraphStays == Spec => []GraphClosed
<1>1. Init => TypedScoped /\ Graph
  BY InitStep, InitGraph, Zenon
<1>2. TypedScoped /\ Graph /\ [Next]_vars => (TypedScoped /\ Graph)'
  BY GraphStep
<1>3. TypedScoped /\ Graph => GraphClosed
  BY GraphAnswers
<1> QED BY <1>1, <1>2, <1>3, PTL DEF Spec

-----------------------------------------------------------------------------
(* The embedding strategy.                                                 *)

\* A vector is in some catalog, and is the embedding that the table has.
VectorsBacked ==
  /\ \A c \in Vectors : Referenced(c)
  /\ \A c \in Vectors \cap DOMAIN emb : vec[c] = emb[c]
\* An embedding of the old strategy, of a project's own file, is that of a vector in its catalog.
OldOnes ==
  \A p \in Project : \A c \in DOMAIN emb : c[1] \in Root[p] /\ emb[c] = "old" => c \in catalog[p] \cap Vectors
\* There are some only while the index names their strategy.
LegacyNamed ==
  /\ published.legacy = "none" =>
       (\A c \in Vectors : vec[c] = "new") /\ (\A c \in DOMAIN emb : emb[c] = "new")
  /\ published.legacy = "old" => published.version
\* A project that names the new strategy, or is forced, has no vector of the old one.
OwnVectorsNew(p) == \A c \in Vectors : c[1] \in Root[p] => vec[c] = "new"
NamesNew == \A p \in Project : strategy[p] = "new" \/ forced[p] => OwnVectorsNew(p)

Strategic == VectorsBacked /\ OldOnes /\ LegacyNamed /\ NamesNew

\* A chunk of a project's own file is in no other catalog.
LEMMA OwnCatalog ==
  ASSUME Scoped, NEW p \in Project, NEW c, c[1] \in Root[p], Referenced(c)
  PROVE  c \in catalog[p]
BY ScopesAssumption DEF Scoped, Referenced

\* A project that may run has nothing of the old strategy.
LEMMA CompatibleNew ==
  ASSUME TypedScoped, Strategic, NEW p \in Project, Compatible(p)
  PROVE  OwnVectorsNew(p) /\ \A c \in DOMAIN emb : c[1] \in Root[p] => emb[c] = "new"
<1>1. OwnVectorsNew(p)
  <2>1. CASE strategy[p] = "new" \/ forced[p]
    BY <2>1 DEF Strategic, NamesNew
  <2>2. CASE ~(strategy[p] = "new" \/ forced[p])
    <3> SUFFICES ASSUME NEW c \in Vectors, c[1] \in Root[p], vec[c] # "new" PROVE FALSE
      BY DEF OwnVectorsNew
    <3>1. catalog[p] # {}
      BY OwnCatalog DEF Strategic, VectorsBacked, TypedScoped
    <3>2. published.legacy = "old" /\ published.version
      BY DEF Strategic, LegacyNamed, TypedScoped, Typed
    <3>3. strategy[p] = "none" /\ ~forced[p]
      BY <2>2 DEF TypedScoped, Typed
    <3>4. HasScopedData(p)
      BY <3>1, <3>3 DEF HasScopedData
    <3>5. StoredStrategy(p) = "old"
      BY <3>2, <3>3, <3>4 DEF StoredStrategy
    <3> QED BY <3>2, <3>5 DEF Compatible
  <2> QED BY <2>1, <2>2
<1>2. ASSUME NEW c \in DOMAIN emb, c[1] \in Root[p], emb[c] # "new"
      PROVE  FALSE
  <2>1. emb[c] = "old"
    BY <1>2 DEF TypedScoped, Typed, Strategies
  <2>2. c \in Vectors
    BY <1>2, <2>1 DEF Strategic, OldOnes
  <2>3. vec[c] = "old"
    BY <2>1, <2>2 DEF Strategic, VectorsBacked
  <2> QED BY <1>1, <1>2, <2>2, <2>3 DEF OwnVectorsNew
<1> QED BY <1>1, <1>2

\* A run embeds what it does not find.
LEMMA StrategicIndexed ==
  ASSUME TypedScoped, Strategic, NEW p \in Project, Compatible(p),
         NEW fails, NEW done, IndexStores(p, fails, done), IndexRest(p)
  PROVE  Strategic'
<1>1. \A c \in done : c \in Chunk /\ c[1] \in Scope[p] /\ c \in Current(p) /\ c \notin fails /\ c \in Need(p)
  <2>1. \A c \in Need(p) : c \in Chunk /\ c[1] \in Scope[p] /\ c \in Current(p)
    BY ParsedChunks DEF Need, Current, Retryable, In, Unchanged, Present, TypedScoped, Typed
  <2>2. done = Need(p) \ fails
    BY Zenon DEF IndexStores
  <2> QED BY <2>1, <2>2
<1>2. OwnVectorsNew(p) /\ \A c \in DOMAIN emb : c[1] \in Root[p] => emb[c] = "new"
  BY CompatibleNew
<1>3. /\ \A c \in DOMAIN emb \cup done : c \notin done => EmbeddingsAfter(p, done)[c] = emb[c]
      /\ \A c \in done : EmbeddingsAfter(p, done)[c] = "new"
                         \/ (c \in DOMAIN emb /\ EmbeddingsAfter(p, done)[c] = emb[c])
  BY <1>1 DEF EmbeddingsAfter, Cached
<1> DEFINE E == EmbeddingsAfter(p, done)
<1>4. /\ Vectors' \subseteq (Vectors \cup done) \ Dropped(p)
      /\ \A c \in (Vectors \cup done) \ Dropped(p) :
           c \in rows \cup Parsed(p) /\ c \in DOMAIN emb \cup done => c \in Vectors'
      /\ \A c \in Vectors' : \/ c \in DOMAIN emb \cup done /\ vec'[c] = E[c]
                             \/ c \notin done /\ vec'[c] = vec[c]
      /\ rows' = (rows \cup Parsed(p)) \ Dropped(p)
      /\ DOMAIN emb' = (DOMAIN emb \cup done) \cap rows'
      /\ \A c \in DOMAIN emb' : emb'[c] = E[c]
  BY Zenon DEF IndexStores
<1>5. /\ catalog'[p] = CatalogAfter(p, fails)
      /\ \A q \in Project : q # p => catalog'[q] = catalog[q]
  BY DEF IndexStores, TypedScoped, Typed
<1> HIDE DEF E
<1>6. \A c \in Vectors' : Referenced(c)'
  <2>1. ASSUME NEW c \in Vectors', c \in done
        PROVE  Referenced(c)'
    <3>1. c \in CatalogAfter(p, fails)
      BY <1>1, <2>1 DEF CatalogAfter
    <3> QED BY <1>5, <3>1 DEF Referenced
  <2>2. ASSUME NEW c \in Vectors', c \notin done
        PROVE  Referenced(c)'
    <3>1. c \in Vectors /\ c \notin Dropped(p)
      BY <1>4, <2>2
    <3>2. Referenced(c)
      BY <3>1 DEF Strategic, VectorsBacked
    <3> QED BY <1>5, <3>1, <3>2 DEF Referenced, Dropped
  <2> QED BY <2>1, <2>2
<1>7. \A c \in Vectors' : c \notin done => c \in Vectors /\ vec'[c] = vec[c]
  BY <1>3, <1>4 DEF E, Strategic, VectorsBacked
<1>8. VectorsBacked'
  <2>1. ASSUME NEW c \in Vectors', c \in DOMAIN emb'
        PROVE  vec'[c] = emb'[c]
    <3>1. CASE c \in done
      BY <3>1, <1>4, <2>1
    <3>2. CASE c \notin done
      BY <3>2, <1>3, <1>4, <1>7, <2>1 DEF E, Strategic, VectorsBacked
    <3> QED BY <3>1, <3>2
  <2> QED BY <1>6, <2>1 DEF VectorsBacked
<1>9. \A c \in DOMAIN emb' : c[1] \in Root[p] => emb'[c] = "new"
  BY <1>2, <1>3, <1>4 DEF E
<1>10. \A q \in Project : q # p => \A c \in done : c[1] \notin Root[q]
  BY <1>1, ScopesAssumption
<1>11. OldOnes'
  <2>1. ASSUME NEW q \in Project, NEW c \in DOMAIN emb', c[1] \in Root[q], emb'[c] = "old"
        PROVE  c \in catalog'[q] \cap Vectors'
    <3>1. q # p
      BY <2>1, <1>9
    <3>2. c \notin done /\ c \in DOMAIN emb /\ emb[c] = "old"
      BY <3>1, <1>3, <1>4, <1>10, <2>1 DEF E
    <3>3. c \in catalog[q] \cap Vectors
      BY <3>2, <2>1 DEF Strategic, OldOnes
    <3>4. c \in catalog'[q] /\ c \notin Dropped(p)
      BY <3>1, <3>3, <1>5 DEF Dropped
    <3> QED BY <3>2, <3>3, <3>4, <1>4, <2>1
  <2> QED BY <2>1 DEF OldOnes
<1>12. LegacyNamed'
  <2>1. published' = [published EXCEPT !.version = TRUE]
    BY Zenon DEF IndexRest
  <2>2. published'.legacy = published.legacy /\ published'.version
    BY <2>1 DEF TypedScoped, Typed
  <2>3. ASSUME published.legacy = "none"
        PROVE  (\A c \in Vectors' : vec'[c] = "new") /\ (\A c \in DOMAIN emb' : emb'[c] = "new")
    <3>1. (\A c \in Vectors : vec[c] = "new") /\ (\A c \in DOMAIN emb : emb[c] = "new")
      BY <2>3 DEF Strategic, LegacyNamed
    <3>2. \A c \in DOMAIN emb \cup done : E[c] = "new"
      BY <3>1, <1>3 DEF E
    <3> QED BY <3>1, <3>2, <1>4
  <2> QED BY <2>2, <2>3 DEF LegacyNamed
<1>13. OwnVectorsNew(p)'
  <2>1. ASSUME NEW c \in Vectors', c[1] \in Root[p]
        PROVE  vec'[c] = "new"
    <3>1. CASE c \in done
      BY <3>1, <1>2, <1>3, <1>4, <2>1 DEF E
    <3>2. CASE c \notin done
      BY <3>2, <1>2, <1>7, <2>1 DEF OwnVectorsNew
    <3> QED BY <3>1, <3>2
  <2> QED BY <2>1 DEF OwnVectorsNew
<1>14. NamesNew'
  <2>1. ASSUME NEW q \in Project, q # p, strategy'[q] = "new" \/ forced'[q]
        PROVE  OwnVectorsNew(q)'
    <3>1. strategy[q] = "new" \/ forced[q]
      BY <2>1 DEF IndexStores, TypedScoped, Typed
    <3>2. OwnVectorsNew(q)
      BY <3>1 DEF Strategic, NamesNew
    <3> QED BY <3>2, <2>1, <1>7, <1>10 DEF OwnVectorsNew
  <2> QED BY <2>1, <1>13 DEF NamesNew
<1> QED BY <1>8, <1>11, <1>12, <1>14 DEF Strategic

\* What is collected is no catalog's.
LEMMA StrategicCollected ==
  ASSUME TypedScoped, Strategic, NEW p \in Project, NEW removed, NEW syms, Collected(p, removed, syms)
  PROVE  /\ VectorsBacked' /\ OldOnes'
         /\ \A q \in Project : OwnVectorsNew(q) => OwnVectorsNew(q)'
         /\ LegacyNamed /\ published' = published => LegacyNamed'
<1>1. Scoped'
  BY CollectedTyped, Zenon
<1>2. /\ \A q \in Project : q # p => catalog'[q] = catalog[q]
      /\ catalog'[p] = catalog[p] \ removed
  BY DEF Collected, TypedScoped, Typed
<1>3. \A c \in Vectors' : c \in Vectors /\ vec'[c] = vec[c] /\ (c \in removed => Referenced(c)')
  BY DEF Collected, Strategic, VectorsBacked
<1>4. \A c \in DOMAIN emb' : /\ c \in DOMAIN emb /\ emb'[c] = emb[c] /\ c \in rows
                             /\ c \in removed /\ c[1] \in Root[p] => Referenced(c)'
  BY DEF Collected
<1>5. VectorsBacked'
  <2>1. ASSUME NEW c \in Vectors'
        PROVE  Referenced(c)'
    <3>1. c \in removed => Referenced(c)'
      BY <1>3
    <3>2. Referenced(c)
      BY <1>3 DEF Strategic, VectorsBacked
    <3> QED BY <1>2, <3>1, <3>2 DEF Referenced
  <2>2. \A c \in Vectors' \cap DOMAIN emb' : vec'[c] = emb'[c]
    BY <1>3, <1>4 DEF Strategic, VectorsBacked
  <2> QED BY <2>1, <2>2 DEF VectorsBacked
<1>6. OldOnes'
  <2>1. ASSUME NEW q \in Project, NEW c \in DOMAIN emb', c[1] \in Root[q], emb'[c] = "old"
        PROVE  c \in catalog'[q] \cap Vectors'
    <3>1. c \in catalog[q] \cap Vectors
      BY <1>4, <2>1 DEF Strategic, OldOnes
    <3>2. c \in catalog'[q]
      <4>1. CASE q # p
        BY <4>1, <1>2, <3>1
      <4>2. CASE q = p /\ c \in removed
        BY <4>2, <1>1, <1>4, <2>1, ScopesAssumption DEF Referenced, Scoped
      <4>3. CASE q = p /\ c \notin removed
        BY <4>3, <1>2, <3>1
      <4> QED BY <4>1, <4>2, <4>3
    <3>3. Referenced(c)'
      BY <3>2 DEF Referenced
    <3> QED BY <3>1, <3>2, <3>3, <1>4 DEF Collected
  <2> QED BY <2>1 DEF OldOnes
<1>7. \A q \in Project : OwnVectorsNew(q) => OwnVectorsNew(q)'
  BY <1>3 DEF OwnVectorsNew
<1>8. ASSUME LegacyNamed, published' = published PROVE LegacyNamed'
  BY <1>3, <1>4, <1>8 DEF LegacyNamed
<1> QED BY <1>5, <1>6, <1>7, <1>8

\* The steps, and the beginning.
LEMMA StrategicStep ==
  ASSUME TypedScoped, Strategic, [Next]_vars
  PROVE  Strategic'
<1>1. ASSUME NEW p \in Project, Index(p)
      PROVE  Strategic'
  <2>1. Compatible(p)
    BY <1>1, Zenon DEF Index
  <2>2. (\E fails, done : IndexStores(p, fails, done)) /\ IndexRest(p)
    BY <1>1, IndexStep DEF TypedScoped
  <2> QED BY <2>1, <2>2, StrategicIndexed
<1>2. ASSUME NEW p \in Project, ClearProject(p), ClearRest(p), OnlyStores
      PROVE  Strategic'
  <2>1. Collected(p, Removed(p), RemovedSymbols(p))
    BY <1>2, ClearStep DEF TypedScoped
  <2>2. /\ VectorsBacked' /\ OldOnes'
        /\ \A q \in Project : OwnVectorsNew(q) => OwnVectorsNew(q)'
        /\ LegacyNamed'
    BY <1>2, <2>1, StrategicCollected DEF ClearRest, Strategic
  <2>3. NamesNew'
    <3>1. CASE strategy' = strategy /\ forced' = forced
      BY <2>2, <3>1 DEF NamesNew, Strategic
    <3>2. CASE forced' = [forced EXCEPT ![p] = TRUE] /\ strategy' = [strategy EXCEPT ![p] = "none"]
      <4>1. OwnVectorsNew(p)'
        <5> SUFFICES ASSUME NEW c \in Vectors', c[1] \in Root[p] PROVE FALSE
          BY DEF OwnVectorsNew
        <5>1. c \in Vectors
          BY <2>1 DEF Collected
        <5>2. c \in Removed(p)
          BY <5>1, ScopesAssumption DEF Removed, In
        <5>3. Scoped'
          BY <2>1, CollectedTyped, Zenon
        <5>4. Referenced(c)'
          BY <5>2, <2>1 DEF Collected
        <5>5. c \in catalog'[p]
          BY <5>3, <5>4, ScopesAssumption DEF Scoped, Referenced
        <5> QED BY <5>2, <5>5, <2>1 DEF Collected, TypedScoped, Typed
      <4>2. \A q \in Project : q # p => forced'[q] = forced[q] /\ strategy'[q] = strategy[q]
        BY <3>2 DEF TypedScoped, Typed
      <4> QED BY <2>2, <4>1, <4>2 DEF NamesNew, Strategic
    <3> QED BY <1>2, <3>1, <3>2 DEF ClearRest
  <2> QED BY <2>2, <2>3 DEF Strategic
<1>3. ASSUME NEW p \in Project, ClearAll(p)
      PROVE  Strategic'
  <2>1. vec' = <<>> /\ emb' = <<>> /\ published' = [version |-> FALSE, legacy |-> "none"]
    BY <1>3, Zenon DEF ClearAll
  <2>2. Vectors' = {} /\ DOMAIN emb' = {} /\ published'.legacy = "none"
    BY <2>1 DEF Vectors
  <2> QED BY <2>2 DEF Strategic, VectorsBacked, OldOnes, LegacyNamed, NamesNew, OwnVectorsNew
<1>4. ASSUME NEW p \in Project, Health(p), OnlyStores, UNCHANGED <<hashes, failed, metadata>>
      PROVE  Strategic'
  <2>1. /\ VectorsBacked' /\ OldOnes'
        /\ \A q \in Project : OwnVectorsNew(q) => OwnVectorsNew(q)'
        /\ LegacyNamed /\ published' = published => LegacyNamed'
    BY <1>4, HealthStep, StrategicCollected DEF TypedScoped
  <2>2. published' = published /\ strategy' = strategy /\ forced' = forced
    BY <1>4 DEF metadata
  <2> QED BY <2>1, <2>2 DEF Strategic, NamesNew
<1>5. ASSUME NEW p \in Project, Retry(p)
      PROVE  Strategic'
  <2>1. PICK fails, done : RetryStores(p, fails, done)
    BY <1>5, RetryStep
  <2>2. /\ Vectors' = Vectors \cup done
        /\ \A c \in Vectors' : vec'[c] = IF c \in done THEN "new" ELSE vec[c]
        /\ DOMAIN emb' = DOMAIN emb \cup done
        /\ \A c \in DOMAIN emb' : emb'[c] = IF c \in done THEN "new" ELSE emb[c]
    BY <2>1, Zenon DEF RetryStores
  <2>3. catalog'[p] = catalog[p] \cup done /\ \A q \in Project : q # p => catalog'[q] = catalog[q]
    BY <2>1 DEF RetryStores, TypedScoped, Typed
  <2>4. VectorsBacked'
    <3>1. \A c \in Vectors' : Referenced(c)'
      BY <2>2, <2>3 DEF Strategic, VectorsBacked, Referenced
    <3>2. \A c \in Vectors' \cap DOMAIN emb' : vec'[c] = emb'[c]
      BY <2>2 DEF Strategic, VectorsBacked
    <3> QED BY <3>1, <3>2 DEF VectorsBacked
  <2>5. OldOnes'
    BY <2>2, <2>3 DEF Strategic, OldOnes
  <2>6. LegacyNamed'
    <3>1. published'.legacy = published.legacy /\ (published.version => published'.version)
      BY <2>1 DEF RetryStores, TypedScoped, Typed
    <3> QED BY <2>2, <3>1 DEF Strategic, LegacyNamed
  <2>7. \A q \in Project : OwnVectorsNew(q) => OwnVectorsNew(q)'
    BY <2>2 DEF OwnVectorsNew
  <2>8. \A q \in Project : strategy'[q] = "new" \/ forced'[q] => strategy[q] = "new" \/ forced[q]
    BY <2>1 DEF RetryStores, TypedScoped, Typed
  <2> QED BY <2>4, <2>5, <2>6, <2>7, <2>8 DEF Strategic, NamesNew
<1>6. ASSUME NEW f \in File, Edit(f)
      PROVE  Strategic'
  <2>1. UNCHANGED <<vec, words, tables, hashes, failed, metadata, world>>
    BY <1>6, Zenon DEF Edit
  <2> QED BY <2>1 DEF tables, metadata, Strategic, VectorsBacked, Referenced, OldOnes, LegacyNamed, NamesNew,
                      OwnVectorsNew, Vectors
<1>7. CASE UNCHANGED vars
  BY <1>7 DEF vars, tables, metadata, Strategic, VectorsBacked, Referenced, OldOnes, LegacyNamed, NamesNew,
              OwnVectorsNew, Vectors
<1> QED BY <1>1, <1>2, <1>3, <1>4, <1>5, <1>6, <1>7, Steps, Zenon

\* The beginning: an older release's index names its strategy.
LEMMA StrategicInit ==
  ASSUME NEW old \in BOOLEAN, NEW chunks \in SUBSET Chunk, InitStores(old, chunks)
  PROVE  Strategic
<1>1. Vectors = chunks /\ DOMAIN emb = chunks /\ \A c \in chunks : vec[c] = "old" /\ emb[c] = "old"
  BY DEF InitStores, Vectors
<1>2. \A p \in Project : \A c \in chunks : c[1] \in Scope[p] => c \in catalog[p]
  BY DEF InitStores, In
<1>3. \A c \in chunks : c[1] \in File
  BY DEF Chunk
<1>4. VectorsBacked
  BY <1>1, <1>2, <1>3, ScopesAssumption DEF VectorsBacked, Referenced
<1>5. OldOnes
  BY <1>1, <1>2, ScopesAssumption DEF OldOnes
<1>6. LegacyNamed
  BY <1>1 DEF InitStores, LegacyNamed
<1>7. NamesNew
  BY DEF InitStores, NamesNew
<1> QED BY <1>4, <1>5, <1>6, <1>7 DEF Strategic

\* A project that names the current strategy has no vector of the old one for its own files.
THEOREM StrategyKept == Spec => []StrategyHonest
<1>1. Init => TypedScoped /\ Graph /\ Strategic
  BY InitStep, InitGraph, StrategicInit, Zenon
<1>2. TypedScoped /\ Graph /\ Strategic /\ [Next]_vars => (TypedScoped /\ Graph /\ Strategic)'
  BY GraphStep, StrategicStep
<1>3. Strategic => StrategyHonest
  BY DEF Strategic, NamesNew, OwnVectorsNew, StrategyHonest, In
<1> QED BY <1>1, <1>2, <1>3, PTL DEF Spec

-----------------------------------------------------------------------------
(* What is catalogued can be found.                                        *)

\* Requests do not fail where clears and health checks collect: a collection takes the row of
\* a chunk whose request has failed, and the retry does not restore it.
CollectionApart == \A w \in Worlds : "failures" \in w => "clear" \notin w /\ "health" \notin w

\* The stores have the same chunks, and catalogs list only those.
StoresAgree ==
  /\ Vectors \subseteq rows /\ Vectors \subseteq DOMAIN emb /\ words = Vectors
  /\ \A p \in Project : catalog[p] \subseteq Vectors
\* A failed chunk is in no store but the table.
FailedApart == failed \subseteq rows /\ failed \cap Vectors = {}
\* Where requests fail nothing is collected and nothing is forced; elsewhere nothing has failed.
ByWorld ==
  /\ "failures" \in world => "clear" \notin world /\ "health" \notin world
  /\ "failures" \in world => \A p \in Project : ~forced[p]
  /\ "failures" \notin world => failed = {}

Stored == StoresAgree /\ FailedApart /\ ByWorld

\* A run.
LEMMA StoredIndexed ==
  ASSUME TypedScoped, VectorsBacked, Stored, NEW p \in Project,
         NEW fails, NEW done, IndexStores(p, fails, done), IndexRest(p)
  PROVE  Stored'
<1>1. fails \subseteq Need(p) /\ done = Need(p) \ fails /\ (fails # {} => "failures" \in world)
  BY Zenon DEF IndexStores
<1>2. \A c \in Retryable(p) : c \in failed /\ c[1] \in Scope[p]
  BY DEF Retryable, In, Unchanged, Present
<1>3. \A c \in Need(p) : c[1] \in Scope[p] /\ c \in rows \cup Parsed(p)
  BY <1>2, ParsedChunks DEF Need, Stored, FailedApart, TypedScoped
<1>4. \A c \in fails : c \notin Vectors
  <2> SUFFICES ASSUME NEW c \in fails, c \in Vectors PROVE FALSE
    OBVIOUS
  <2>1. ~forced[p]
    BY <1>1 DEF Stored, ByWorld
  <2>2. c \notin Retryable(p)
    BY <1>2 DEF Stored, FailedApart
  <2>3. c \in Parsed(p) \ Existing(p) /\ c[1] \in Scope[p]
    BY <1>1, <1>3, <2>2 DEF Need
  <2>4. Referenced(c)
    BY DEF VectorsBacked
  <2>5. c[1] \in Root[p] => c \in catalog[p]
    BY <2>4, OwnCatalog DEF TypedScoped
  <2> QED BY <2>1, <2>3, <2>5 DEF Existing, In
<1>5. \A c \in CatalogAfter(p, fails) : c \in Vectors \/ c \in done
  <2> SUFFICES ASSUME NEW c \in CatalogAfter(p, fails), c \notin Vectors PROVE c \in done
    OBVIOUS
  <2>1. c \notin Existing(p)
    BY DEF Existing, In
  <2>2. c \in Current(p) /\ c \notin fails
    BY <2>1 DEF CatalogAfter
  <2>3. c \in Need(p)
    BY <2>1, <2>2 DEF Current, Need, In
  <2> QED BY <1>1, <2>2, <2>3
<1>6. /\ catalog'[p] = CatalogAfter(p, fails)
      /\ \A q \in Project : q # p => catalog'[q] = catalog[q]
  BY DEF IndexStores, TypedScoped, Typed
<1>7. Vectors' = (Vectors \cup done) \ Dropped(p)
  <2>1. \A c \in (Vectors \cup done) \ Dropped(p) : c \in rows \cup Parsed(p) /\ c \in DOMAIN emb \cup done
    BY <1>1, <1>3 DEF Stored, StoresAgree
  <2> QED BY <2>1 DEF IndexStores
<1>8. /\ words' = (words \cup done) \ Dropped(p)
      /\ rows' = (rows \cup Parsed(p)) \ Dropped(p)
      /\ DOMAIN emb' = (DOMAIN emb \cup done) \cap rows'
      /\ failed' = {c \in failed : c[1] \notin Scope[p]} \cup fails
  BY Zenon DEF IndexStores
<1>9. StoresAgree'
  <2>1. Vectors' \subseteq rows' /\ Vectors' \subseteq DOMAIN emb' /\ words' = Vectors'
    BY <1>1, <1>3, <1>7, <1>8 DEF Stored, StoresAgree
  <2>2. ASSUME NEW q \in Project, NEW c \in catalog'[q]
        PROVE  c \in Vectors'
    <3>1. c \notin Dropped(p)
      BY <2>2 DEF Dropped
    <3>2. c \in Vectors \cup done
      BY <1>5, <1>6, <2>2 DEF Stored, StoresAgree
    <3> QED BY <1>7, <3>1, <3>2
  <2> QED BY <2>1, <2>2 DEF StoresAgree
<1>10. \A c \in Dropped(p) : c \in Vectors
  BY DEF Dropped, Stored, StoresAgree
<1>11. FailedApart'
  <2>1. ASSUME NEW c \in failed'
        PROVE  c \in rows' /\ c \notin Vectors'
    <3>1. CASE c \in failed /\ c[1] \notin Scope[p]
      BY <3>1, <1>1, <1>3, <1>7, <1>8, <1>10 DEF Stored, FailedApart
    <3>2. CASE c \in fails
      BY <3>2, <1>1, <1>3, <1>4, <1>7, <1>8, <1>10
    <3> QED BY <3>1, <3>2, <1>8
  <2> QED BY <2>1 DEF FailedApart
<1>12. ByWorld'
  <2>1. world' = world
    BY DEF IndexRest
  <2>2. forced' = [forced EXCEPT ![p] = ForcedAfter(p, Need(p), fails)]
    BY Zenon DEF IndexStores
  <2>3. ASSUME "failures" \in world, NEW q \in Project PROVE ~forced'[q]
    BY <2>2, <2>3 DEF ForcedAfter, Stored, ByWorld, TypedScoped, Typed
  <2>4. "failures" \notin world => failed' = {}
    BY <1>1, <1>8 DEF Stored, ByWorld
  <2> QED BY <2>1, <2>3, <2>4 DEF Stored, ByWorld
<1> QED BY <1>9, <1>11, <1>12 DEF Stored

\* A clear or a health check.
LEMMA StoredCollected ==
  ASSUME TypedScoped, VectorsBacked', Stored, NEW p \in Project, NEW removed, NEW syms,
         Collected(p, removed, syms)
  PROVE  StoresAgree'
<1>1. /\ \A c \in Vectors' : c \in Vectors /\ (c \in removed => Referenced(c)')
      /\ \A c \in Vectors : c \in rows \cap DOMAIN emb /\ (c \in removed => Referenced(c)') => c \in Vectors'
      /\ words' = {c \in words : c \in removed => Referenced(c)'}
      /\ rows' = {c \in rows : Referenced(c)'}
      /\ rows' \cap DOMAIN emb \subseteq DOMAIN emb'
  BY Zenon DEF Collected
<1>2. \A q \in Project : catalog'[q] \subseteq catalog[q]
  BY DEF Collected, TypedScoped, Typed
<1>3. words' = Vectors'
  BY <1>1 DEF Stored, StoresAgree
<1>4. Vectors' \subseteq rows' /\ Vectors' \subseteq DOMAIN emb'
  BY <1>1 DEF Stored, StoresAgree, VectorsBacked
<1>5. ASSUME NEW q \in Project, NEW c \in catalog'[q]
      PROVE  c \in Vectors'
  <2>1. Referenced(c)'
    BY <1>5 DEF Referenced
  <2>2. c \in Vectors /\ c \in rows \cap DOMAIN emb
    BY <1>2, <1>5 DEF Stored, StoresAgree
  <2> QED BY <1>1, <2>1, <2>2
<1> QED BY <1>3, <1>4, <1>5 DEF StoresAgree

\* Every step.
LEMMA StoredStep ==
  ASSUME TypedScoped, Strategic, Strategic', Stored, [Next]_vars
  PROVE  Stored'
<1>1. ASSUME NEW p \in Project, Index(p)
      PROVE  Stored'
  <2>1. (\E fails, done : IndexStores(p, fails, done)) /\ IndexRest(p)
    BY <1>1, IndexStep DEF TypedScoped
  <2> QED BY <2>1, StoredIndexed DEF Strategic
<1>2. ASSUME NEW p \in Project, ClearProject(p), ClearRest(p), OnlyStores, "clear" \in world
      PROVE  Stored'
  <2>1. StoresAgree'
    BY <1>2, ClearStep, StoredCollected DEF TypedScoped, Strategic
  <2>2. failed' = {} /\ "failures" \notin world
    BY <1>2 DEF ClearRest, ForgetScope, Stored, ByWorld
  <2> QED BY <1>2, <2>1, <2>2 DEF Stored, FailedApart, ByWorld, OnlyStores
<1>3. ASSUME NEW p \in Project, ClearAll(p), OnlyStores, "clear" \in world
      PROVE  Stored'
  <2>1. vec' = <<>> /\ emb' = <<>> /\ words' = {} /\ failed' = {} /\ catalog' = [q \in Project |-> {}]
    BY <1>3, Zenon DEF ClearAll
  <2>2. Vectors' = {} /\ DOMAIN emb' = {}
    BY <2>1 DEF Vectors
  <2>3. "failures" \notin world /\ world' = world
    BY <1>3 DEF Stored, ByWorld, OnlyStores
  <2> QED BY <2>1, <2>2, <2>3 DEF Stored, StoresAgree, FailedApart, ByWorld
<1>4. ASSUME NEW p \in Project, Health(p), OnlyStores, UNCHANGED <<hashes, failed, metadata>>
      PROVE  Stored'
  <2>1. StoresAgree'
    BY <1>4, HealthStep, StoredCollected DEF TypedScoped, Strategic
  <2>2. "health" \in world
    BY <1>4, Zenon DEF Health
  <2>3. failed' = {} /\ "failures" \notin world
    BY <1>4, <2>2 DEF Stored, ByWorld
  <2> QED BY <1>4, <2>1, <2>3 DEF Stored, FailedApart, ByWorld, OnlyStores
<1>5. ASSUME NEW p \in Project, Retry(p)
      PROVE  Stored'
  <2>1. PICK fails, done : RetryStores(p, fails, done)
    BY <1>5, RetryStep
  <2>2. /\ fails \subseteq In(Scope[p], failed) /\ done = In(Scope[p], failed) \ fails
        /\ Vectors' = Vectors \cup done
        /\ DOMAIN emb' = DOMAIN emb \cup done
        /\ words' = words \cup done
        /\ failed' = {c \in failed : c[1] \notin Scope[p]} \cup fails
    BY <2>1, Zenon DEF RetryStores
  <2>3. rows' = rows /\ world' = world /\ In(Scope[p], failed) # {}
    BY <1>5, RetryStep
  <2>4. catalog'[p] = catalog[p] \cup done /\ \A q \in Project : q # p => catalog'[q] = catalog[q]
    BY <2>1 DEF RetryStores, TypedScoped, Typed
  <2>5. done \subseteq failed /\ fails \subseteq failed /\ \A c \in done : c[1] \in Scope[p] /\ c \notin fails
    BY <2>2 DEF In
  <2>6. StoresAgree'
    BY <2>2, <2>3, <2>4, <2>5 DEF Stored, StoresAgree, FailedApart
  <2>7. FailedApart'
    BY <2>2, <2>3, <2>5 DEF Stored, FailedApart
  <2>8. "failures" \in world
    BY <2>3 DEF In, Stored, ByWorld
  <2>9. \A q \in Project : ~forced'[q]
    BY <2>1, <2>8 DEF RetryStores, Stored, ByWorld, TypedScoped, Typed
  <2> QED BY <2>3, <2>6, <2>7, <2>8, <2>9 DEF Stored, ByWorld
<1>6. ASSUME NEW f \in File, Edit(f)
      PROVE  Stored'
  <2>1. UNCHANGED <<vec, words, tables, hashes, failed, metadata, world>>
    BY <1>6, Zenon DEF Edit
  <2> QED BY <2>1 DEF tables, metadata, Stored, StoresAgree, FailedApart, ByWorld, Vectors
<1>7. CASE UNCHANGED vars
  BY <1>7 DEF vars, tables, metadata, bounds, Stored, StoresAgree, FailedApart, ByWorld, Vectors
<1> QED BY <1>1, <1>2, <1>3, <1>4, <1>5, <1>6, <1>7, Steps, Zenon

\* The beginning.
LEMMA StoredInit ==
  ASSUME CollectionApart, world \in Worlds,
         NEW old \in BOOLEAN, NEW chunks \in SUBSET Chunk, InitStores(old, chunks)
  PROVE  Stored
<1>1. Vectors = chunks /\ DOMAIN emb = chunks
  BY DEF InitStores, Vectors
<1>2. StoresAgree
  BY <1>1 DEF InitStores, StoresAgree, In
<1>3. FailedApart /\ ByWorld
  BY DEF InitStores, FailedApart, ByWorld, CollectionApart
<1> QED BY <1>2, <1>3 DEF Stored

-----------------------------------------------------------------------------
(* The data of other projects.                                             *)

\* What one step keeps of a project's data.
KeptOf(q) ==
  /\ catalog'[q] = catalog[q] /\ listed'[q] = listed[q]
  /\ \A c \in catalog[q] : Searchable(c) => Searchable(c)'
  /\ \A s \in listed[q] \cap symbols :
       /\ s \in symbols'
       /\ {e \in edges' : e.from = s} = {e \in edges : e.from = s}

\* What a catalog lists is searchable, and what a branch lists has the edges of its sources:
\* the lists that stay keep what they name.
LEMMA ListsKeep ==
  ASSUME Graph, Graph', Stored', NEW q \in Project, catalog'[q] = catalog[q], listed'[q] = listed[q]
  PROVE  KeptOf(q)
<1>1. \A c \in catalog[q] : Searchable(c)'
  BY DEF Stored, StoresAgree, Searchable
<1>2. ASSUME NEW s \in listed[q]
      PROVE  s \in symbols' /\ {e \in edges' : e.from = s} = {e \in edges : e.from = s}
  <2>1. {e \in edges : e.from = s} = EdgesFrom(s)
    BY DEF Graph
  <2>2. s \in symbols' /\ {e \in edges' : e.from = s} = EdgesFrom(s)
    BY DEF Graph, EdgesFrom, At
  <2> QED BY <2>1, <2>2
<1> QED BY <1>1, <1>2 DEF KeptOf

\* An index is cleared for everyone only when nobody else has anything in it.
LEMMA NobodyElse ==
  ASSUME TypedScoped, NEW p \in Project, ~HasForeignData(p), NEW q \in Project, q # p
  PROVE  catalog[q] = {} /\ listed[q] = {}
<1> DEFINE files == Root[p] \cap (Hashed \cup FilesOf(Vectors))
           syms == {s \in symbols : s.file \in files}
<1>1. ~(/\ catalog[q] # {} \/ listed[q] # {}
        /\ catalog[q] \cap In(files, rows) = {} /\ listed[q] \cap syms = {})
  BY Zenon DEF HasForeignData, ForeignBranchData
<1>2. catalog[q] \cap In(files, rows) = {}
  BY ScopesAssumption DEF TypedScoped, Scoped, In
<1>3. listed[q] \cap syms = {}
  BY ScopesAssumption DEF TypedScoped, Scoped
<1> QED BY <1>1, <1>2, <1>3

\* A step by another project leaves the lists of a project alone.
LEMMA ListsStay ==
  ASSUME TypedScoped, [Next]_vars, vars' # vars, NEW q \in Project, last'.by # q, last'.op # "edit"
  PROVE  catalog'[q] = catalog[q] /\ listed'[q] = listed[q]
<1>1. ASSUME NEW p \in Project, Index(p)
      PROVE  catalog'[q] = catalog[q] /\ listed'[q] = listed[q]
  <2>1. PICK fails, done : IndexStores(p, fails, done)
    BY <1>1, IndexStep DEF TypedScoped
  <2>2. last'.by = p /\ catalog' = [catalog EXCEPT ![p] = CatalogAfter(p, fails)]
    BY <2>1 DEF IndexStores
  <2>3. listed' = [listed EXCEPT ![p] = KeptSymbols(p) \cup Fresh(p)]
    BY <1>1, IndexStep, Zenon DEF TypedScoped, IndexGraph
  <2> QED BY <2>2, <2>3 DEF TypedScoped, Typed
<1>2. ASSUME NEW p \in Project, last'.by = p, NEW removed, NEW syms, Collected(p, removed, syms)
      PROVE  catalog'[q] = catalog[q] /\ listed'[q] = listed[q]
  <2>1. catalog' = [catalog EXCEPT ![p] = @ \ removed] /\ listed' = [listed EXCEPT ![p] = @ \ syms]
    BY <1>2, Zenon DEF Collected
  <2> QED BY <2>1, <1>2 DEF TypedScoped, Typed
<1>3. ASSUME NEW p \in Project, ~HasForeignData(p), ClearAll(p), last'.by = p
      PROVE  catalog'[q] = catalog[q] /\ listed'[q] = listed[q]
  <2>1. catalog' = [r \in Project |-> {}] /\ listed' = [r \in Project |-> {}]
    BY <1>3, Zenon DEF ClearAll
  <2> QED BY <1>3, <2>1, NobodyElse
<1>4. ASSUME NEW p \in Project, Retry(p), last'.by = p
      PROVE  catalog'[q] = catalog[q] /\ listed'[q] = listed[q]
  <2>1. listed' = listed /\ \E fails, done : RetryStores(p, fails, done)
    BY <1>4, RetryStep
  <2>2. \E done : catalog' = [catalog EXCEPT ![p] = @ \cup done]
    BY <2>1, Zenon DEF RetryStores
  <2> QED BY <1>4, <2>1, <2>2 DEF TypedScoped, Typed
<1>5. ASSUME NEW p \in Project, ClearProject(p), last'.by = p
      PROVE  catalog'[q] = catalog[q] /\ listed'[q] = listed[q]
  BY <1>2, <1>5, ClearStep DEF TypedScoped
<1>6. ASSUME NEW p \in Project, Health(p), last'.by = p
      PROVE  catalog'[q] = catalog[q] /\ listed'[q] = listed[q]
  BY <1>2, <1>6, HealthStep DEF TypedScoped
<1> QED BY <1>1, <1>3, <1>4, <1>5, <1>6, Steps

\* What one project does takes nothing from another: where requests do not fail beside
\* clears and health checks.
THEOREM OthersKept ==
  ASSUME CollectionApart PROVE Spec => ForeignKept
<1> DEFINE Inv == TypedScoped /\ Graph /\ Strategic /\ Stored
<1>1. Init => Inv
  BY CollectionApart, InitStep, InitGraph, StrategicInit, StoredInit, Zenon
<1>2. Inv /\ [Next]_vars => Inv'
  BY GraphStep, StrategicStep, StoredStep
<1>3. Inv /\ Inv' /\ [Next]_vars =>
        [\A p \in Project : last'.by # p /\ last'.op # "edit" => KeptOf(p)]_vars
  <2>1. ASSUME Inv, Inv', [Next]_vars, vars' # vars,
               NEW p \in Project, last'.by # p, last'.op # "edit"
        PROVE  KeptOf(p)
    BY <2>1, ListsStay, ListsKeep
  <2> QED BY <2>1
<1>4. Spec => [][\A p \in Project : last'.by # p /\ last'.op # "edit" => KeptOf(p)]_vars
  BY <1>1, <1>2, <1>3, PTL DEF Spec
<1> QED BY <1>4 DEF ForeignKept, KeptOf

-----------------------------------------------------------------------------
(* A run without a failed request leaves the catalog as the tree.          *)

\* The cached hash of a file that is there names a chunk that has a vector, or a record.
HashesBacked ==
  \A f \in File : tree[f] # 0 /\ hashes[f] # 0 => <<f, hashes[f]>> \in Vectors \cup failed
\* Of a project's own files the catalog has the chunks of the cached hash only; so have the records.
CatalogHashed == \A p \in Project : \A c \in catalog[p] : c[1] \in Root[p] => c[2] = hashes[c[1]]
FailedHashed == \A c \in failed : c[2] = hashes[c[1]]
\* The same of the symbols: those of the cached hash, and all of them.
SymbolsHashed ==
  \A p \in Project :
    /\ \A s \in listed[p] : s.file \in Root[p] => s.version = hashes[s.file]
    /\ \A f \in Root[p] : tree[f] # 0 /\ hashes[f] # 0 => SymbolsIn(<<f, hashes[f]>>) \subseteq listed[p]
\* A project that is to be rebuilt, or is of the old strategy, has not run since, or has no files.
ToRebuild(p) == forced[p] \/ (strategy[p] = "none" /\ published.legacy = "old")
Rebuilding == \A p \in Project : ToRebuild(p) /\ migrated[p] => Present(p) = {}

Hashing == HashesBacked /\ CatalogHashed /\ FailedHashed /\ SymbolsHashed /\ Rebuilding

\* What a run finds: the chunk of every file's current version is catalogued or embedded.
LEMMA NowCurrent ==
  ASSUME TypedScoped, VectorsBacked, HashesBacked, Rebuilding, NEW p \in Project, NEW f \in Present(p)
  PROVE  <<f, tree[f]>> \in Current(p)
<1>1. f \in File /\ f \in Scope[p] /\ tree[f] # 0
  BY ScopesAssumption DEF Present
<1>2. CASE f \notin Unchanged(p)
  BY <1>2 DEF Current, Parsed
<1>3. CASE f \in Unchanged(p)
  <2> DEFINE c == <<f, tree[f]>>
  <2>1. hashes[f] = tree[f] /\ migrated[p]
    BY <1>3 DEF Unchanged
  <2>2. c \in Vectors \cup failed /\ c[1] = f
    BY <1>1, <2>1 DEF HashesBacked
  <2>3. ~forced[p]
    BY <2>1 DEF Rebuilding, ToRebuild
  <2> HIDE DEF c
  <2>4. ASSUME c \in failed PROVE c \in Current(p)
    BY <1>3, <2>2, <2>4 DEF Current, Retryable, In
  <2>5. ASSUME c \in Vectors PROVE c \in Current(p)
    <3>1. f \in Root[p] => c \in catalog[p]
      BY <2>2, <2>5, OwnCatalog DEF TypedScoped, VectorsBacked
    <3>2. c \in Existing(p)
      BY <1>1, <2>2, <2>3, <2>5, <3>1 DEF Existing, In
    <3> QED BY <1>3, <2>2, <3>2 DEF Current, In
  <2>6. c \in Current(p)
    BY <2>2, <2>4, <2>5
  <2> QED BY <2>6 DEF c
<1> QED BY <1>2, <1>3

\* And of the project's own files no other.
LEMMA OwnCurrent ==
  ASSUME TypedScoped, VectorsBacked, CatalogHashed, FailedHashed, NEW p \in Project,
         NEW c \in Current(p), c[1] \in Root[p]
  PROVE  c \in Chunk /\ c[1] \in Present(p) /\ c[2] = tree[c[1]]
<1>1. CASE c \in Parsed(p)
  BY <1>1, ParsedChunks DEF TypedScoped, Parsed
<1>2. CASE c \in In(Unchanged(p), Existing(p))
  <2>1. c \in Vectors /\ c[1] \in Present(p) /\ hashes[c[1]] = tree[c[1]]
    BY <1>2 DEF In, Existing, Unchanged
  <2>2. c \in catalog[p]
    BY <2>1, OwnCatalog DEF TypedScoped, VectorsBacked
  <2> QED BY <2>1, <2>2 DEF CatalogHashed, TypedScoped, Typed
<1>3. CASE c \in Retryable(p)
  BY <1>3 DEF Retryable, In, Unchanged, FailedHashed, TypedScoped, Typed
<1> QED BY <1>1, <1>2, <1>3 DEF Current

\* The same of the symbols.
LEMMA OwnSymbols ==
  ASSUME TypedScoped, Graph, SymbolsHashed, NEW p \in Project, IndexGraph(p)
  PROVE  /\ \A s \in listed'[p] : s.file \in Root[p] =>
              s.file \in Present(p) /\ s.version = tree[s.file] /\ s \in SymbolsIn(At(s))
         /\ \A f \in Present(p) : f \in Root[p] => SymbolsIn(<<f, tree[f]>>) \subseteq listed'[p]
<1>1. listed'[p] = KeptSymbols(p) \cup Fresh(p)
  BY DEF IndexGraph, TypedScoped, Typed
<1>2. \A s \in KeptSymbols(p) : s \in listed[p] /\ s.file \in Unchanged(p)
  <2>1. ASSUME NEW s \in KeptSymbols(p)
        PROVE  s \in listed[p] /\ s.file \in Unchanged(p)
    <3>1. s \in symbols /\ s.file \in Unchanged(p) /\ (Restricted(p) => s \in listed[p])
      BY DEF KeptSymbols
    <3>2. Restricted(p)
      BY <3>1 DEF Graph, Restricted
    <3> QED BY <3>1, <3>2
  <2> QED BY <2>1
<1>3. ASSUME NEW s \in listed'[p], s.file \in Root[p]
      PROVE  s.file \in Present(p) /\ s.version = tree[s.file] /\ s \in SymbolsIn(At(s))
  <2>1. CASE s \in KeptSymbols(p)
    BY <1>2, <1>3, <2>1 DEF SymbolsHashed, Unchanged, Graph
  <2>2. CASE s \in Fresh(p)
    <3>1. PICK c \in Parsed(p) : s \in SymbolsIn(c)
      BY <2>2 DEF Fresh
    <3>2. c \in Chunk /\ c[1] \in Present(p) /\ c[2] = tree[c[1]]
      BY ParsedChunks DEF TypedScoped, Parsed
    <3>3. At(s) = c
      BY <3>1, <3>2, FoundAt
    <3>4. s.file = c[1] /\ s.version = c[2]
      BY <3>2, <3>3 DEF At, Chunk
    <3> QED BY <3>1, <3>2, <3>3, <3>4
  <2> QED BY <1>1, <1>3, <2>1, <2>2
<1>4. ASSUME NEW f \in Present(p), f \in Root[p]
      PROVE  SymbolsIn(<<f, tree[f]>>) \subseteq listed'[p]
  <2>1. CASE f \notin Unchanged(p)
    <3>1. <<f, tree[f]>> \in Parsed(p)
      BY <2>1 DEF Parsed
    <3> QED BY <1>1, <3>1 DEF Fresh
  <2>2. CASE f \in Unchanged(p)
    <3>1. tree[f] # 0 /\ hashes[f] = tree[f]
      BY <2>2 DEF Unchanged, Present
    <3>2. SymbolsIn(<<f, tree[f]>>) \subseteq listed[p]
      BY <1>4, <3>1 DEF SymbolsHashed
    <3>3. \A s \in SymbolsIn(<<f, tree[f]>>) : s.file = f
      BY DEF SymbolsIn, SymbolsOf
    <3>4. \A s \in SymbolsIn(<<f, tree[f]>>) : s \in KeptSymbols(p)
      BY <2>2, <3>2, <3>3 DEF KeptSymbols, Graph
    <3> QED BY <1>1, <3>4
  <2> QED BY <2>1, <2>2
<1> QED BY <1>3, <1>4

\* A run caches the hashes of what it has read.
LEMMA HashingIndexed ==
  ASSUME TypedScoped, Graph, VectorsBacked, Stored, Stored', Hashing, NEW p \in Project,
         NEW fails, NEW done, IndexStores(p, fails, done), IndexGraph(p), IndexRest(p)
  PROVE  Hashing'
<1>1. /\ \A f \in File : hashes'[f] = IF f \in Scope[p] THEN tree[f] ELSE hashes[f]
      /\ tree' = tree
  BY DEF IndexRest
<1>2. \A q \in Project : q # p => \A f \in Root[q] : f \in File /\ hashes'[f] = hashes[f]
  BY <1>1, ScopesAssumption
<1>3. \A f \in Root[p] : f \in File /\ hashes'[f] = tree[f]
  BY <1>1, ScopesAssumption
<1>4. /\ catalog'[p] = CatalogAfter(p, fails)
      /\ \A q \in Project : q # p => catalog'[q] = catalog[q]
  BY DEF IndexStores, TypedScoped, Typed
<1>5. /\ failed' = {c \in failed : c[1] \notin Scope[p]} \cup fails
      /\ fails \subseteq Need(p) \ Cached(p, Need(p))
  BY Zenon DEF IndexStores
<1>6. \A c \in Current(p) : c \in fails \/ c \in catalog'[p]
  BY <1>4 DEF CatalogAfter
<1>7. HashesBacked'
  <2>1. ASSUME NEW f \in File, tree[f] # 0, f \in Scope[p]
        PROVE  <<f, tree[f]>> \in Vectors' \cup failed'
    <3>1. <<f, tree[f]>> \in Current(p)
      BY <2>1, NowCurrent DEF Present, Hashing
    <3> QED BY <3>1, <1>5, <1>6 DEF Stored, StoresAgree
  <2>2. ASSUME NEW f \in File, tree[f] # 0, hashes[f] # 0, f \notin Scope[p]
        PROVE  <<f, hashes[f]>> \in Vectors' \cup failed'
    <3> DEFINE c == <<f, hashes[f]>>
    <3>1. c \in Vectors \cup failed /\ c[1] = f
      BY <2>2 DEF Hashing, HashesBacked
    <3> HIDE DEF c
    <3>2. ASSUME c \in failed PROVE c \in failed'
      BY <2>2, <3>1, <3>2, <1>5
    <3>3. ASSUME c \in Vectors PROVE c \in Vectors'
      <4>1. PICK q \in Project : c \in catalog[q]
        BY <3>3 DEF VectorsBacked, Referenced
      <4>2. q # p
        BY <4>1, <3>1, <2>2 DEF TypedScoped, Scoped
      <4> QED BY <4>1, <4>2, <1>4 DEF Stored, StoresAgree
    <3>4. c \in Vectors' \cup failed'
      BY <3>1, <3>2, <3>3
    <3> QED BY <3>4 DEF c
  <2> QED BY <2>1, <2>2, <1>1 DEF HashesBacked
<1>8. CatalogHashed'
  <2>1. ASSUME NEW c \in catalog'[p], c[1] \in Root[p]
        PROVE  c[2] = hashes'[c[1]]
    <3>1. c \in Current(p)
      BY <2>1, <1>4 DEF CatalogAfter
    <3>2. c[2] = tree[c[1]]
      BY <2>1, <3>1, OwnCurrent DEF Hashing
    <3> QED BY <2>1, <3>2, <1>3
  <2>2. ASSUME NEW q \in Project, q # p, NEW c \in catalog'[q], c[1] \in Root[q]
        PROVE  c[2] = hashes'[c[1]]
    BY <2>2, <1>2, <1>4 DEF Hashing, CatalogHashed
  <2> QED BY <2>1, <2>2 DEF CatalogHashed
<1>9. FailedHashed'
  <2>1. ASSUME NEW c \in failed, c[1] \notin Scope[p]
        PROVE  c[2] = hashes'[c[1]]
    BY <2>1, <1>1 DEF Hashing, FailedHashed, TypedScoped, Typed, Chunk
  <2>2. ASSUME NEW c \in fails
        PROVE  c[2] = hashes'[c[1]]
    <3>1. CASE c \in Parsed(p)
      BY <3>1, <1>1, ParsedChunks DEF TypedScoped, Chunk
    <3>2. CASE c \in Retryable(p)
      BY <3>2, <1>1 DEF Retryable, In, Unchanged, Present, Hashing, FailedHashed, TypedScoped, Typed, Chunk
    <3> QED BY <1>5, <3>1, <3>2 DEF Need
  <2> QED BY <2>1, <2>2, <1>5 DEF FailedHashed
<1>10. SymbolsHashed'
  <2>1. \A q \in Project : q # p => listed'[q] = listed[q]
    BY DEF IndexGraph, TypedScoped, Typed
  <2>2. ASSUME NEW q \in Project
        PROVE  /\ \A s \in listed'[q] : s.file \in Root[q] => s.version = hashes'[s.file]
               /\ \A f \in Root[q] : tree'[f] # 0 /\ hashes'[f] # 0
                                       => SymbolsIn(<<f, hashes'[f]>>) \subseteq listed'[q]
    <3>1. CASE q # p
      BY <3>1, <2>1, <1>1, <1>2 DEF Hashing, SymbolsHashed
    <3>2. CASE q = p
      <4>1. \A s \in listed'[p] : s.file \in Root[p] => s.version = tree[s.file]
        BY OwnSymbols DEF Hashing
      <4>2. \A f \in Present(p) : f \in Root[p] => SymbolsIn(<<f, tree[f]>>) \subseteq listed'[p]
        BY OwnSymbols DEF Hashing
      <4>3. \A f \in Root[p] : tree[f] # 0 => f \in Present(p)
        BY ScopesAssumption DEF Present
      <4> QED BY <3>2, <4>1, <4>2, <4>3, <1>1, <1>3
    <3> QED BY <3>1, <3>2
  <2> QED BY <2>2 DEF SymbolsHashed, SymbolsIn
<1>11. Rebuilding'
  <2>1. published'.legacy = published.legacy
    BY DEF IndexRest, TypedScoped, Typed
  <2>2. \A q \in Project : Present(q)' = Present(q)
    BY <1>1 DEF Present
  <2>3. ASSUME NEW q \in Project, q # p
        PROVE  forced'[q] = forced[q] /\ strategy'[q] = strategy[q] /\ migrated'[q] = migrated[q]
    BY <2>3 DEF IndexStores, IndexRest, TypedScoped, Typed
  <2>4. ASSUME ToRebuild(p)'
        PROVE  Present(p) = {}
    <3>1. /\ forced'[p] = ForcedAfter(p, Need(p), fails)
          /\ strategy'[p] = StrategyAfter(p, forced'[p])
      BY DEF IndexStores, TypedScoped, Typed
    <3>2. forced[p] /\ (Need(p) = {} \/ fails # {})
      BY <2>4, <3>1 DEF ToRebuild, StrategyAfter, ForcedAfter
    <3>3. Need(p) = {}
      BY <3>2, <1>5 DEF IndexStores, Stored, ByWorld
    <3>4. Existing(p) = {}
      BY <3>2 DEF Existing
    <3>5. Parsed(p) = {}
      BY <3>3, <3>4 DEF Need
    <3>6. Present(p) \subseteq Unchanged(p)
      BY <3>5 DEF Parsed
    <3>7. ASSUME NEW f \in Present(p)
          PROVE  FALSE
      <4>1. migrated[p]
        BY <3>6, <3>7 DEF Unchanged
      <4> QED BY <4>1, <3>2, <3>7 DEF Hashing, Rebuilding, ToRebuild
    <3> QED BY <3>7
  <2>5. \A q \in Project : q # p => (ToRebuild(q)' <=> ToRebuild(q))
    BY <2>1, <2>3 DEF ToRebuild
  <2> QED BY <2>2, <2>3, <2>4, <2>5 DEF Hashing, Rebuilding
<1> QED BY <1>7, <1>8, <1>9, <1>10, <1>11 DEF Hashing

\* A clear of a project forgets what it takes.
LEMMA HashingCleared ==
  ASSUME TypedScoped, Graph, VectorsBacked, Stored, Stored', Hashing, NEW p \in Project,
         Collected(p, Removed(p), RemovedSymbols(p)), ClearRest(p), OnlyStores
  PROVE  Hashing'
<1>1. /\ \A f \in File : hashes'[f] = IF f \in Scope[p] THEN 0 ELSE hashes[f]
      /\ failed' = {c \in failed : c[1] \notin Scope[p]}
      /\ tree' = tree /\ migrated' = migrated /\ published' = published
  BY DEF ClearRest, ForgetScope, OnlyStores
<1>2. \A q \in Project : q # p => \A f \in Root[q] : f \in File /\ hashes'[f] = hashes[f]
  BY <1>1, ScopesAssumption
<1>3. \A f \in Root[p] : f \in File /\ hashes'[f] = 0
  BY <1>1, ScopesAssumption
<1>4. /\ catalog' = [catalog EXCEPT ![p] = @ \ Removed(p)]
      /\ listed' = [listed EXCEPT ![p] = @ \ RemovedSymbols(p)]
  BY Zenon DEF Collected
<1>5. /\ catalog'[p] = catalog[p] \ Removed(p) /\ listed'[p] = listed[p] \ RemovedSymbols(p)
      /\ \A q \in Project : q # p => catalog'[q] = catalog[q] /\ listed'[q] = listed[q]
  BY <1>4 DEF TypedScoped, Typed
<1>6. HashesBacked'
  <2> SUFFICES ASSUME NEW f \in File, tree[f] # 0, hashes[f] # 0, f \notin Scope[p]
               PROVE  <<f, hashes[f]>> \in Vectors' \cup failed'
    BY <1>1 DEF HashesBacked
  <2> DEFINE c == <<f, hashes[f]>>
  <2>1. c \in Vectors \cup failed /\ c[1] = f
    BY DEF Hashing, HashesBacked
  <2> HIDE DEF c
  <2>2. ASSUME c \in failed PROVE c \in failed'
    BY <2>1, <2>2, <1>1
  <2>3. ASSUME c \in Vectors PROVE c \in Vectors'
    <3>1. PICK q \in Project : c \in catalog[q]
      BY <2>3 DEF VectorsBacked, Referenced
    <3>2. q # p
      BY <3>1, <2>1 DEF TypedScoped, Scoped
    <3> QED BY <3>1, <3>2, <1>5 DEF Stored, StoresAgree
  <2>4. c \in Vectors' \cup failed'
    BY <2>1, <2>2, <2>3
  <2> QED BY <2>4 DEF c
<1>7. CatalogHashed'
  <2>1. ASSUME NEW c \in catalog'[p], c[1] \in Root[p]
        PROVE  FALSE
    <3>1. c \in Vectors /\ c \notin Removed(p)
      BY <1>5 DEF Stored, StoresAgree
    <3> QED BY <2>1, <3>1, ScopesAssumption DEF Removed, In
  <2> QED BY <2>1, <1>2, <1>5 DEF Hashing, CatalogHashed
<1>8. FailedHashed'
  BY <1>1 DEF Hashing, FailedHashed, TypedScoped, Typed, Chunk
<1>9. SymbolsHashed'
  <2>1. ASSUME NEW s \in listed'[p], s.file \in Root[p]
        PROVE  FALSE
    <3>1. s \in listed[p] /\ s \in symbols /\ s \notin RemovedSymbols(p)
      BY <1>5 DEF Graph
    <3>2. s.version \in Version /\ s.version = hashes[s.file]
      BY <2>1, <3>1 DEF Hashing, SymbolsHashed, TypedScoped, Typed, Symbol
    <3>3. s.file \in Hashed \cap Scope[p]
      BY <2>1, <3>2, VersionAssumption, ScopesAssumption DEF Hashed
    <3> QED BY <3>1, <3>3 DEF RemovedSymbols, ClearedFiles
  <2>2. ASSUME NEW q \in Project
        PROVE  /\ \A s \in listed'[q] : s.file \in Root[q] => s.version = hashes'[s.file]
               /\ \A f \in Root[q] : tree'[f] # 0 /\ hashes'[f] # 0
                                       => SymbolsIn(<<f, hashes'[f]>>) \subseteq listed'[q]
    <3>1. CASE q # p
      BY <3>1, <1>1, <1>2, <1>5 DEF Hashing, SymbolsHashed
    <3>2. CASE q = p
      BY <3>2, <2>1, <1>3
    <3> QED BY <3>1, <3>2
  <2> QED BY <2>2 DEF SymbolsHashed, SymbolsIn
<1>10. Rebuilding'
  <2>1. \A q \in Project : Present(q)' = Present(q)
    BY <1>1 DEF Present
  <2>2. ASSUME NEW q \in Project, ToRebuild(q)'
        PROVE  ToRebuild(q)
    <3>1. CASE strategy' = strategy /\ forced' = forced
      BY <3>1, <2>2, <1>1 DEF ToRebuild
    <3>2. CASE /\ ~Compatible(p) /\ forced' = [forced EXCEPT ![p] = TRUE]
               /\ strategy' = [strategy EXCEPT ![p] = "none"]
      <4>1. CASE q # p
        BY <4>1, <3>2, <2>2, <1>1 DEF ToRebuild, TypedScoped, Typed
      <4>2. ToRebuild(p)
        <5>1. StoredStrategy(p) = "old"
          BY <3>2 DEF Compatible
        <5>2. ~forced[p] /\ strategy[p] = "none" /\ published.legacy = "old"
          BY <5>1 DEF StoredStrategy, TypedScoped, Typed
        <5> QED BY <5>2 DEF ToRebuild
      <4> QED BY <4>1, <4>2
    <3> QED BY <3>1, <3>2 DEF ClearRest
  <2> QED BY <2>1, <2>2, <1>1 DEF Hashing, Rebuilding
<1> QED BY <1>6, <1>7, <1>8, <1>9, <1>10 DEF Hashing

\* A health check takes what is of missing files.
LEMMA HashingChecked ==
  ASSUME TypedScoped, Graph, VectorsBacked, Stored, Stored', Hashing, NEW p \in Project, Health(p),
         OnlyStores, UNCHANGED <<hashes, failed, metadata>>
  PROVE  Hashing'
<1> DEFINE missing == {c \in Vectors : tree[c[1]] = 0}
           syms == {s \in symbols : s.file \in FilesOf(missing)}
<1>1. Collected(p, missing, syms)
  BY HealthStep DEF TypedScoped
<1>2. /\ hashes' = hashes /\ failed' = failed /\ tree' = tree /\ migrated' = migrated
      /\ published' = published /\ strategy' = strategy /\ forced' = forced
  BY DEF OnlyStores, metadata
<1>3. catalog' = [catalog EXCEPT ![p] = @ \ missing] /\ listed' = [listed EXCEPT ![p] = @ \ syms]
  BY <1>1, Zenon DEF Collected
<1>4. \A c \in missing : tree[c[1]] = 0
  OBVIOUS
<1>5. \A s \in syms : tree[s.file] = 0
  BY DEF FilesOf
<1> HIDE DEF missing, syms
<1>6. \A q \in Project : /\ catalog'[q] \subseteq catalog[q] /\ listed'[q] \subseteq listed[q]
                         /\ \A c \in catalog[q] : tree[c[1]] # 0 => c \in catalog'[q]
                         /\ \A s \in listed[q] : tree[s.file] # 0 => s \in listed'[q]
  BY <1>3, <1>4, <1>5 DEF TypedScoped, Typed
<1>7. HashesBacked'
  <2> SUFFICES ASSUME NEW f \in File, tree[f] # 0, hashes[f] # 0
               PROVE  <<f, hashes[f]>> \in Vectors' \cup failed
    BY <1>2 DEF HashesBacked
  <2> DEFINE c == <<f, hashes[f]>>
  <2>1. c \in Vectors \cup failed /\ c[1] = f
    BY DEF Hashing, HashesBacked
  <2> HIDE DEF c
  <2>2. ASSUME c \in Vectors PROVE c \in Vectors'
    <3>1. PICK q \in Project : c \in catalog[q]
      BY <2>2 DEF VectorsBacked, Referenced
    <3> QED BY <3>1, <2>1, <1>6 DEF Stored, StoresAgree
  <2>3. c \in Vectors' \cup failed
    BY <2>1, <2>2
  <2> QED BY <2>3 DEF c
<1>8. CatalogHashed' /\ FailedHashed'
  BY <1>2, <1>6 DEF Hashing, CatalogHashed, FailedHashed
<1>9. SymbolsHashed'
  <2>1. ASSUME NEW q \in Project
        PROVE  /\ \A s \in listed'[q] : s.file \in Root[q] => s.version = hashes[s.file]
               /\ \A f \in Root[q] : tree[f] # 0 /\ hashes[f] # 0
                                       => SymbolsIn(<<f, hashes[f]>>) \subseteq listed'[q]
    <3>1. ASSUME NEW f \in Root[q], tree[f] # 0, hashes[f] # 0
          PROVE  SymbolsIn(<<f, hashes[f]>>) \subseteq listed'[q]
      <4>1. SymbolsIn(<<f, hashes[f]>>) \subseteq listed[q]
        BY <3>1 DEF Hashing, SymbolsHashed
      <4>2. \A s \in SymbolsIn(<<f, hashes[f]>>) : s.file = f
        BY DEF SymbolsIn, SymbolsOf
      <4> QED BY <3>1, <4>1, <4>2, <1>6
    <3> QED BY <3>1, <1>6 DEF Hashing, SymbolsHashed
  <2> QED BY <2>1, <1>2 DEF SymbolsHashed, SymbolsIn
<1>10. Rebuilding'
  BY <1>2 DEF Hashing, Rebuilding, ToRebuild, Present
<1> QED BY <1>7, <1>8, <1>9, <1>10 DEF Hashing

\* A retry catalogues what it embeds.
LEMMA HashingRetried ==
  ASSUME TypedScoped, Stored, Hashing, NEW p \in Project, Retry(p)
  PROVE  Hashing'
<1>1. /\ In(Scope[p], failed) # {} /\ \E fails, done : RetryStores(p, fails, done)
      /\ UNCHANGED <<tree, rows, symbols, edges, listed, hashes, migrated, world>>
  BY RetryStep
<1>2. PICK fails, done : RetryStores(p, fails, done)
  BY <1>1
<1>3. /\ fails \subseteq In(Scope[p], failed) /\ done = In(Scope[p], failed) \ fails
      /\ Vectors' = Vectors \cup done
      /\ failed' = {c \in failed : c[1] \notin Scope[p]} \cup fails
  BY <1>2, Zenon DEF RetryStores
<1>4. /\ catalog'[p] = catalog[p] \cup done /\ \A q \in Project : q # p => catalog'[q] = catalog[q]
      /\ forced'[p] = (forced[p] /\ fails # {}) /\ \A q \in Project : q # p => forced'[q] = forced[q]
      /\ published'.legacy = published.legacy
      /\ strategy'[p] = (IF forced[p] /\ fails = {} THEN "new" ELSE strategy[p])
      /\ \A q \in Project : q # p => strategy'[q] = strategy[q]
  BY <1>2 DEF RetryStores, TypedScoped, Typed
<1>5. HashesBacked'
  BY <1>1, <1>3 DEF Hashing, HashesBacked, In
<1>6. CatalogHashed' /\ FailedHashed'
  BY <1>1, <1>3, <1>4 DEF Hashing, CatalogHashed, FailedHashed, In
<1>7. SymbolsHashed'
  BY <1>1 DEF Hashing, SymbolsHashed, SymbolsIn
<1>8. Rebuilding'
  <2>1. \A q \in Project : ToRebuild(q)' => ToRebuild(q)
    BY <1>4 DEF ToRebuild, TypedScoped, Typed
  <2> QED BY <1>1, <2>1 DEF Hashing, Rebuilding, Present
<1> QED BY <1>5, <1>6, <1>7, <1>8 DEF Hashing

\* The others, and the beginning.
LEMMA HashingStep ==
  ASSUME TypedScoped, Graph, Strategic, Stored, Stored', Hashing, [Next]_vars
  PROVE  Hashing'
<1>1. ASSUME NEW p \in Project, Index(p)
      PROVE  Hashing'
  <2>1. (\E fails, done : IndexStores(p, fails, done)) /\ IndexGraph(p) /\ IndexRest(p)
    BY <1>1, IndexStep DEF TypedScoped
  <2> QED BY <2>1, HashingIndexed DEF Strategic
<1>2. ASSUME NEW p \in Project, ClearProject(p), ClearRest(p), OnlyStores
      PROVE  Hashing'
  BY <1>2, ClearStep, HashingCleared DEF TypedScoped, Strategic
<1>3. ASSUME NEW p \in Project, ClearAll(p), OnlyStores
      PROVE  Hashing'
  <2>1. /\ failed' = {} /\ catalog' = [q \in Project |-> {}] /\ listed' = [q \in Project |-> {}]
        /\ hashes' = [f \in File |-> 0] /\ published' = [version |-> FALSE, legacy |-> "none"]
        /\ forced' = [forced EXCEPT ![p] = FALSE]
    BY <1>3, Zenon DEF ClearAll
  <2>2. \A q \in Project : ToRebuild(q)' => ToRebuild(q)
    BY <2>1 DEF ToRebuild, TypedScoped, Typed
  <2>3. Rebuilding'
    BY <1>3, <2>2 DEF OnlyStores, Hashing, Rebuilding, Present
  <2>4. HashesBacked' /\ CatalogHashed' /\ FailedHashed'
    BY <2>1 DEF HashesBacked, CatalogHashed, FailedHashed
  <2>5. SymbolsHashed'
    BY <2>1, ScopesAssumption DEF SymbolsHashed
  <2> QED BY <2>3, <2>4, <2>5 DEF Hashing
<1>4. ASSUME NEW p \in Project, Health(p), OnlyStores, UNCHANGED <<hashes, failed, metadata>>
      PROVE  Hashing'
  BY <1>4, HashingChecked DEF Strategic
<1>5. ASSUME NEW p \in Project, Retry(p)
      PROVE  Hashing'
  BY <1>5, HashingRetried
<1>6. ASSUME NEW f \in File, Edit(f)
      PROVE  Hashing'
  <2>1. UNCHANGED <<vec, words, tables, hashes, failed, metadata, world>> /\ UNCHANGED migrated
    BY <1>6, Zenon DEF Edit, metadata
  <2>2. tree[f] # 0 /\ \E v : tree' = [tree EXCEPT ![f] = v]
    BY <1>6, Zenon DEF Edit
  <2>3. \A g \in File : tree'[g] # 0 => tree[g] # 0
    BY <2>2 DEF TypedScoped, Typed
  <2>4. \A q \in Project : Present(q) = {} => Present(q)' = {}
    BY <2>3, ScopesAssumption DEF Present
  <2>5. HashesBacked' /\ CatalogHashed' /\ FailedHashed'
    BY <2>1, <2>3 DEF tables, Vectors, Hashing, HashesBacked, CatalogHashed, FailedHashed
  <2>6. SymbolsHashed'
    BY <2>1, <2>3, ScopesAssumption DEF tables, Hashing, SymbolsHashed, SymbolsIn
  <2>7. Rebuilding'
    BY <2>1, <2>4 DEF metadata, Hashing, Rebuilding, ToRebuild
  <2> QED BY <2>5, <2>6, <2>7 DEF Hashing
<1>7. CASE UNCHANGED vars
  BY <1>7 DEF vars, tables, metadata, Vectors, Present, Hashing, HashesBacked, CatalogHashed, FailedHashed,
              SymbolsHashed, SymbolsIn, Rebuilding, ToRebuild
<1> QED BY <1>1, <1>2, <1>3, <1>4, <1>5, <1>6, <1>7, Steps, Zenon

\* The beginning: an older release has hashed what it has built.
LEMMA HashingInit ==
  ASSUME NEW old \in BOOLEAN, NEW chunks \in SUBSET Chunk, InitStores(old, chunks)
  PROVE  Hashing
<1>1. Vectors = chunks /\ chunks = IF old THEN {<<f, 1>> : f \in File} ELSE {}
  BY DEF InitStores, Vectors
<1>2. hashes = [f \in File |-> IF old THEN 1 ELSE 0] /\ failed = {}
      /\ catalog = [p \in Project |-> In(Scope[p], chunks)]
      /\ migrated = [p \in Project |-> FALSE]
  BY Zenon DEF InitStores
<1>3. HashesBacked
  BY <1>1, <1>2 DEF HashesBacked
<1>4. CatalogHashed /\ FailedHashed
  BY <1>1, <1>2, ScopesAssumption DEF CatalogHashed, FailedHashed, In
<1>5. Rebuilding
  BY <1>2 DEF Rebuilding
<1>6. /\ symbols = UNION {SymbolsIn(c) : c \in chunks}
      /\ listed = [p \in Project |-> {s \in symbols : s.file \in Scope[p]}]
  BY Zenon DEF InitStores
<1>7. \A c : \A s \in SymbolsIn(c) : s.file = c[1] /\ s.version = c[2]
  BY DEF SymbolsIn, SymbolsOf
<1>8. SymbolsHashed
  <2>1. ASSUME NEW p \in Project, NEW s \in listed[p], s.file \in Root[p]
        PROVE  s.version = hashes[s.file]
    <3>1. PICK c \in chunks : s \in SymbolsIn(c)
      BY <1>6
    <3> QED BY <3>1, <1>1, <1>2, <1>7
  <2>2. ASSUME NEW p \in Project, NEW f \in Root[p], hashes[f] # 0
        PROVE  SymbolsIn(<<f, hashes[f]>>) \subseteq listed[p]
    <3>1. f \in File /\ f \in Scope[p]
      BY ScopesAssumption
    <3>2. <<f, hashes[f]>> \in chunks
      BY <1>1, <1>2, <2>2, <3>1
    <3> QED BY <1>6, <1>7, <3>1, <3>2
  <2> QED BY <2>1, <2>2 DEF SymbolsHashed
<1> QED BY <1>3, <1>4, <1>5, <1>8 DEF Hashing

\* What a whole run leaves.
LEMMA WholeIndexed ==
  ASSUME TypedScoped, TypedScoped', Graph, Strategic, Stored', Hashing, NEW p \in Project,
         NEW fails, NEW done, IndexStores(p, fails, done), IndexGraph(p), IndexRest(p)
  PROVE  IndexedWhole'
<1> SUFFICES ASSUME fails = {}
             PROVE  LET now == {<<f, tree'[f]>> : f \in Present(p)'}
                    IN  /\ now \subseteq catalog'[p]
                        /\ In(Root[p], catalog'[p]) \subseteq now
                        /\ \A c \in now : Searchable(c)'
                        /\ {s \in listed'[p] : s.file \in Root[p]} =
                             UNION {SymbolsIn(c) : c \in In(Root[p], now)}
  <2>1. last'.by = p /\ (last'.whole <=> fails = {})
    BY DEF IndexStores
  <2> QED BY <2>1 DEF IndexedWhole, In, SymbolsIn
<1> DEFINE now == {<<f, tree[f]>> : f \in Present(p)}
<1>1. tree' = tree /\ Present(p)' = Present(p)
  BY DEF IndexRest, Present
<1>2. catalog'[p] = CatalogAfter(p, fails)
  BY DEF IndexStores, TypedScoped, Typed
<1>3. \A c : c \in catalog'[p] <=> c \in Current(p)
  BY <1>2 DEF CatalogAfter
<1>4. now \subseteq catalog'[p]
  BY <1>3, NowCurrent DEF Strategic, Hashing
<1>5. \A c \in catalog'[p] : c[1] \in Root[p] => c \in now
  <2> SUFFICES ASSUME NEW c \in catalog'[p], c[1] \in Root[p] PROVE c \in now
    OBVIOUS
  <2>1. c \in Chunk /\ c[1] \in Present(p) /\ c[2] = tree[c[1]]
    BY <1>3, OwnCurrent DEF Strategic, Hashing
  <2>2. c = <<c[1], tree[c[1]]>>
    BY <2>1 DEF Chunk
  <2> QED BY <2>1, <2>2
<1>6. \A c \in now : Searchable(c)'
  BY <1>4 DEF Searchable, Stored, StoresAgree
<1>7. \A s \in listed'[p] : s.file \in Root[p] =>
        s.file \in Present(p) /\ s.version = tree[s.file] /\ s \in SymbolsIn(At(s))
  BY OwnSymbols DEF Hashing
<1>8. \A f \in Present(p) : f \in Root[p] => SymbolsIn(<<f, tree[f]>>) \subseteq listed'[p]
  BY OwnSymbols DEF Hashing
<1>9. \A c : \A s \in SymbolsIn(c) : s.file = c[1]
  BY DEF SymbolsIn, SymbolsOf
<1>10. \A c : c \in In(Root[p], now) <=> \E f \in Present(p) : f \in Root[p] /\ c = <<f, tree[f]>>
  BY DEF In
<1>11. {s \in listed'[p] : s.file \in Root[p]} = UNION {SymbolsIn(c) : c \in In(Root[p], now)}
  <2> HIDE DEF now
  <2>1. ASSUME NEW s \in listed'[p], s.file \in Root[p]
        PROVE  \E c \in In(Root[p], now) : s \in SymbolsIn(c)
    <3>1. At(s) = <<s.file, tree[s.file]>> /\ s \in SymbolsIn(At(s))
      BY <1>7, <2>1 DEF At
    <3> QED BY <1>7, <1>10, <2>1, <3>1
  <2>2. ASSUME NEW c \in In(Root[p], now), NEW s \in SymbolsIn(c)
        PROVE  s \in listed'[p] /\ s.file \in Root[p]
    <3>1. PICK f \in Present(p) : f \in Root[p] /\ c = <<f, tree[f]>>
      BY <1>10
    <3> QED BY <1>8, <1>9, <3>1
  <2> QED BY <2>1, <2>2
<1> QED BY <1>1, <1>4, <1>5, <1>6, <1>11 DEF In

\* After a run without a failed request the catalog of a project is its tree: where requests
\* do not fail beside clears and health checks.
THEOREM RunsWhole ==
  ASSUME CollectionApart PROVE Spec => []IndexedWhole
<1> DEFINE Inv == TypedScoped /\ Graph /\ Strategic /\ Stored /\ Hashing /\ IndexedWhole
<1>1. Init => Inv
  <2>1. Init => IndexedWhole
    BY InitStep DEF IndexedWhole
  <2> QED BY <2>1, CollectionApart, InitStep, InitGraph, StrategicInit, StoredInit, HashingInit, Zenon
<1>2. Inv /\ [Next]_vars => Inv'
  <2> SUFFICES ASSUME Inv, [Next]_vars PROVE Inv'
    OBVIOUS
  <2>1. (TypedScoped /\ Graph /\ Strategic /\ Stored)'
    BY GraphStep, StrategicStep, StoredStep
  <2>2. Hashing'
    BY <2>1, HashingStep
  <2>3. ASSUME UNCHANGED vars PROVE IndexedWhole'
    <3>1. last' = last /\ tree' = tree /\ vec' = vec /\ words' = words /\ rows' = rows
          /\ catalog' = catalog /\ listed' = listed
      BY <2>3 DEF vars, tables
    <3> QED BY <3>1 DEF IndexedWhole, Present, In, Searchable, Vectors, SymbolsIn
  <2>4. ASSUME NEW p \in Project, Index(p)
        PROVE  IndexedWhole'
    <3>1. (\E fails, done : IndexStores(p, fails, done)) /\ IndexGraph(p) /\ IndexRest(p)
      BY <2>4, IndexStep DEF TypedScoped
    <3> QED BY <2>1, <3>1, WholeIndexed
  <2>5. ASSUME last'.op # "index" PROVE IndexedWhole'
    BY <2>5, Zenon DEF IndexedWhole
  <2>6. IndexedWhole'
    BY <2>3, <2>4, <2>5, Steps
  <2> QED BY <2>1, <2>2, <2>6
<1>3. Inv => IndexedWhole
  OBVIOUS
<1> QED BY <1>1, <1>2, <1>3, PTL DEF Spec
====
