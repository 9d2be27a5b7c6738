------------------------------- MODULE Search -------------------------------
(***************************************************************************)
(* One search of an Indexer (src/src/indexer/index.ts: search,             *)
(* keywordSearch, findSimilar, searchCandidatesWithBranchPrefilter).       *)
(*                                                                         *)
(* A search takes the stores and the database, awaits the embedding of the *)
(* query, collects its candidates without a pause, awaits the external     *)
(* reranker and then adds, tiers, filters and cuts.  In both pauses runs   *)
(* of this process change the stores and the catalogues it will read, and  *)
(* the current branch.  Scores are the orders they give: each search of a  *)
(* store draws one.  What only orders the candidates (fusion, reranking,   *)
(* the community boost) is in Ranking; here the candidates are sets, and a *)
(* cut keeps any of the right number.                                      *)
(***************************************************************************)
EXTENDS Naturals, FiniteSets, Sequences, SequencesExt

CONSTANTS
  FoundChunk, FoundSymbol, \* what a search can find
  CodeItem,                \* those of an implementation path and type
  Named,                   \* those whose name or path has the query's identifiers
  Contents,                \* what a run may find on a branch
  FoundBranch, Default,    \* branches; Default is the one without git
  Overfetch,               \* maxResults * 4
  Limit,                   \* maxResults
  Indexings,               \* bound: runs that change the stores
  Global                   \* config.scope is "global"

Item == FoundChunk \cup FoundSymbol

VARIABLES
  checkedOut, \* the branch git has checked out
  current,   \* currentBranch
  catalogue, \* branch_chunks and branch_symbols
  rows,      \* the chunks and symbols of the database
  vectors,   \* the keys of the vector store
  orphan,    \* the native index holds a vector without a key
  keywords,  \* the chunks of the keyword index
  indexing,  \* a run of this process: the items it has added, or "none"
  indexed,   \* how many runs there were
  search     \* the search

searchVars == <<checkedOut, current, catalogue, rows, vectors, orphan, keywords, indexing, indexed, search>>

stores == <<catalogue, rows, vectors, orphan, keywords, indexing, indexed>>

SmallerOf(m, n) == IF m < n THEN m ELSE n
Cut(seq, n) == SubSeq(seq, 1, SmallerOf(n, Len(seq)))
\* Some of a set, as many as a limit allows.
Picks(S, n) == {T \in SUBSET S : Cardinality(T) = SmallerOf(n, Cardinality(S))}

-----------------------------------------------------------------------------
(* searchCandidatesWithBranchPrefilter.  found[n] is what a search of the   *)
(* store returns with the limit n.                                          *)

\* The results that are in a set, in their order.
Among(results, S) ==
  LET kept[n \in 0 .. Len(results)] ==
        IF n = 0 THEN <<>>
        ELSE IF results[n] \in S THEN Append(kept[n - 1], results[n]) ELSE kept[n - 1]
  IN kept[Len(results)]

\* Seeded fault: a full answer of the store ends the loop.
StopsFull(results, asked, total, allowed, target) ==
  \/ Len(Among(results, allowed)) >= target
  \/ Len(results) <= asked

\* Enough, or the store had no more to give, or was asked for all it has.
Stops(results, asked, total, allowed, target) ==
  \/ Len(Among(results, allowed)) >= target
  \/ Len(results) < asked
  \/ asked >= total

Doubled(asked, total) == SmallerOf(total, IF asked = 0 THEN 1 ELSE asked * 2)

Prefiltered(found, limit, total, allowed, prefilter) ==
  LET target == SmallerOf(limit, Cardinality(allowed \cap FoundChunk))
      from[asked \in 0..total] ==
        IF Stops(found[asked], asked, total, allowed, target) \/ Doubled(asked, total) = asked
        THEN Among(found[asked], allowed)
        ELSE from[Doubled(asked, total)]
  IN IF ~prefilter THEN found[limit]
     ELSE IF target = 0 \/ total = 0 THEN <<>>
     ELSE from[SmallerOf(limit, total)]

\* Finitely many chunks and symbols; a run finds some of them.
ASSUME SearchAssumption ==
  /\ IsFiniteSet(FoundChunk) /\ IsFiniteSet(FoundSymbol)
  /\ Contents \subseteq SUBSET Item
  /\ Overfetch \in Nat /\ Limit \in Nat

\* What a store returns for each limit, when it has its items in this order.
CutAnswers(order) == [n \in 0 .. Overfetch + Cardinality(FoundChunk) + 1 |-> Cut(order, n)]

\* The vectors' order; the one without a key is skipped after the cut.
Stray == "stray"
VectorOrders == SetToSeqs(IF orphan THEN vectors \cup {Stray} ELSE vectors)
VectorAnswers(order) ==
  [n \in DOMAIN CutAnswers(order) |-> Among(CutAnswers(order)[n], FoundChunk)]

\* Some chunks have a term of the query, in the order of their scores.
KeywordOrders == SetToAllKPermutations(keywords)

-----------------------------------------------------------------------------
(* The other functions of the process.                                      *)

ChecksOut(b) ==
  /\ checkedOut' = b
  /\ UNCHANGED <<current, stores, search>>

\* refreshBranchInfo: by the watcher, or where a query or a mutation begins.
RefreshBranch ==
  /\ current # checkedOut
  /\ current' = checkedOut
  /\ UNCHANGED <<checkedOut, stores, search>>

NoRun == [on |-> "none"]

\* A mutation of this Indexer takes the branch and loads the stores, without the strays.
IndexingBegins(items) ==
  /\ indexing = NoRun /\ indexed < Indexings
  /\ indexing' = [on |-> checkedOut, items |-> items, rows |-> rows]
  /\ indexed' = indexed + 1
  /\ current' = checkedOut
  /\ vectors' = rows \cap FoundChunk /\ keywords' = rows \cap FoundChunk
  /\ orphan' = FALSE
  /\ UNCHANGED <<checkedOut, catalogue, rows, search>>

\* The rows of a batch, and then what could be embedded.
IndexingAdds ==
  /\ indexing # NoRun /\ ~(indexing.items \subseteq rows)
  /\ rows' = rows \cup indexing.items
  /\ \/ /\ vectors' = vectors \cup (indexing.items \cap FoundChunk)
        /\ keywords' = keywords \cup (indexing.items \cap FoundChunk)
        /\ UNCHANGED orphan
     \/ orphan' = TRUE /\ UNCHANGED <<vectors, keywords>>
  /\ UNCHANGED <<checkedOut, current, catalogue, indexing, indexed, search>>

\* replaceBranchCatalog: what no branch refers to any more leaves the stores.
IndexingEnds ==
  /\ indexing # NoRun /\ indexing.items \subseteq rows /\ ~orphan
  /\ catalogue' = [catalogue EXCEPT ![indexing.on] = indexing.items]
  /\ rows' = UNION {catalogue'[b] : b \in FoundBranch}
  /\ vectors' = vectors \cap rows' /\ keywords' = keywords \cap rows'
  /\ indexing' = NoRun
  /\ UNCHANGED <<checkedOut, current, orphan, indexed, search>>

\* The transaction is rolled back; the memory keeps what was added.
IndexingStops ==
  /\ indexing # NoRun
  /\ rows' = indexing.rows
  /\ indexing' = NoRun
  /\ UNCHANGED <<checkedOut, current, catalogue, vectors, orphan, keywords, indexed, search>>

-----------------------------------------------------------------------------
(* The search.                                                              *)

NoSearch == [step |-> "idle"]

\* ensureInitialized refreshes the branch; an empty store ends the search.
SearchBegins ==
  /\ search = NoSearch
  /\ current' = checkedOut
  /\ search' = IF vectors = {} THEN NoSearch ELSE [step |-> "embeds"]
  /\ UNCHANGED <<checkedOut, stores>>

Filtered(byBranch) == byBranch /\ (Global \/ current # Default)
\* branchChunkIds and branchSymbolIds; null lets everything through.
Allowed(byBranch) == IF Filtered(byBranch) THEN catalogue[current] ELSE Item

\* getBranchPrefilterState
Prefilters(byBranch) ==
  Filtered(byBranch) /\ (Global \/ \E b \in FoundBranch : catalogue[b] \cap FoundChunk # {})

\* searchSemanticCandidates, when the vectors have this order.
Semantic(near, byBranch) ==
  Prefiltered(VectorAnswers(near), Overfetch, Cardinality(vectors),
              Allowed(byBranch), Prefilters(byBranch))

\* keywordSearch: only hits that have metadata in the vector store.
Keyword(scored, byBranch) ==
  Cut(Among(Prefiltered(CutAnswers(scored), Overfetch, Cardinality(keywords),
                        Allowed(byBranch), Prefilters(byBranch)),
            vectors),
      Overfetch)

\* The query's embedding is there, or it failed and there are only keywords.
Collects ==
  /\ search.step = "embeds"
  /\ \E near \in VectorOrders, scored \in KeywordOrders, embedded, byBranch \in BOOLEAN :
       search' = [step |-> "reranks",
                  allowed |-> Allowed(byBranch), scoped |-> Prefilters(byBranch),
                  candidates |-> ToSet(Keyword(scored, byBranch))
                                 \cup (IF embedded THEN ToSet(Semantic(near, byBranch)) ELSE {})]
  /\ UNCHANGED <<checkedOut, current, stores>>

\* Seeded fault: the catalogue is read again after the pause.
Reread == catalogue[current]
\* branchChunkIds and branchSymbolIds, as they were collected.
Kept == search.allowed

\* What the query asks for: its hard filters let these through; sourceIntent,
\* identifierHints.  They are drawn where they first matter.
Query == [passing : {Item, CodeItem, Item \ CodeItem}, source : BOOLEAN, hints : BOOLEAN]

Candidates(query) == search.candidates \cap query.passing

\* promoteIdentifierMatches: chunks of the database that have a hinted name.
Promoted(query) ==
  IF query.source /\ query.hints /\ Candidates(query) # {}
  THEN rows \cap FoundChunk \cap CodeItem \cap Named \cap Kept ELSE {}

\* buildDeterministicIdentifierPass and buildIdentifierDefinitionLane.
IdentifierLanes(query) ==
  IF query.source THEN Candidates(query) \cap CodeItem \cap Named ELSE {}

\* buildSymbolDefinitionLane: chunks and symbols of the database, else candidates.
SymbolLane(query, wanted) ==
  LET direct == rows \cap CodeItem \cap Named \cap Kept
  IN IF ~wanted THEN {} ELSE IF direct # {} THEN direct ELSE Candidates(query) \cap CodeItem

\* Fusion drops duplicates, the tiers are cut and scores may be too low: any of the
\* candidates can be missing.  Only the filters of the query are certain.
Tiered(query) ==
  (Candidates(query) \cup Promoted(query) \cup IdentifierLanes(query)
   \cup SymbolLane(query, query.source)) \cap query.passing

\* A query for source code has no other results beside it.
Preferred(query, tiered) ==
  IF query.source /\ tiered \cap CodeItem # {} THEN tiered \cap CodeItem ELSE tiered

\* identifierFallback
Fallback(query, results) ==
  IF results = {} /\ query.hints THEN SymbolLane(query, TRUE) \cap query.passing ELSE results

\* The reranker has answered, in whatever way: the answer is put together.
Answered ==
  /\ search.step = "reranks"
  /\ \E query \in Query : \E tiered \in SUBSET Tiered(query) :
       \E results \in Picks(Fallback(query, Preferred(query, tiered)), Limit) :
         search' = [step |-> "answered", query |-> query, allowed |-> search.allowed,
                    scoped |-> search.scoped, answer |-> results]
  /\ UNCHANGED <<checkedOut, current, stores>>

\* findSimilar: the vectors' candidates alone, and no pause after them.
FindsSimilar ==
  /\ search.step = "embeds"
  /\ \E near \in VectorOrders, byBranch \in BOOLEAN, query \in Query :
       \E ranked \in SUBSET (ToSet(Semantic(near, byBranch)) \cap query.passing) :
         \E results \in Picks(ranked, Limit) :
           search' = [step |-> "answered", query |-> query, allowed |-> Allowed(byBranch),
                      scoped |-> Prefilters(byBranch), answer |-> results]
  /\ UNCHANGED <<checkedOut, current, stores>>

SearchEnds ==
  /\ search.step = "answered"
  /\ search' = NoSearch
  /\ UNCHANGED <<checkedOut, current, stores>>

-----------------------------------------------------------------------------
SearchInit ==
  /\ checkedOut \in FoundBranch /\ current = checkedOut
  /\ catalogue = [b \in FoundBranch |-> {}]
  /\ rows = {} /\ vectors = {} /\ orphan = FALSE /\ keywords = {}
  /\ indexing = NoRun /\ indexed = 0
  /\ search = NoSearch

SearchNext ==
  \/ RefreshBranch \/ IndexingAdds \/ IndexingEnds \/ IndexingStops
  \/ SearchBegins \/ Collects \/ Answered \/ FindsSimilar \/ SearchEnds
  \/ \E b \in FoundBranch : ChecksOut(b)
  \/ \E items \in Contents : IndexingBegins(items)

SearchSpec == SearchInit /\ [][SearchNext]_searchVars
-----------------------------------------------------------------------------
(* Properties.                                                              *)

Best(results, reference) ==
  IsPrefix(results, reference) /\ Len(results) >= SmallerOf(Overfetch, Len(reference))

\* The candidates of a store are the best it has on the branch, as many as are asked
\* for, however many better ones other branches have: the search is repeated with a
\* larger limit until they are found (searchCandidatesWithBranchPrefilter,
\* index.ts:4624).  A vector without a key, which a failed addBatch leaves, takes places.
PrefilterBest ==
  search.step = "embeds" /\ Prefilters(TRUE) =>
    /\ ~orphan => \A near \in VectorOrders :
                    Best(Semantic(near, TRUE), Among(near, Allowed(TRUE)))
    /\ keywords \subseteq vectors => \A scored \in KeywordOrders :
                    Best(Keyword(scored, TRUE), Among(scored, Allowed(TRUE)))

\* An answer is of one branch at one moment, although the search pauses twice while the
\* branch, the catalogues and the rows change, and passes the query's filters ("results
\* remain scoped to the active branch", README.md:176).
AnswersScoped ==
  search.step = "answered" =>
    /\ search.scoped => search.answer \subseteq search.allowed
    /\ search.answer \subseteq search.query.passing
    /\ Cardinality(search.answer) <= Limit

\* Both.
SearchHonest == PrefilterBest /\ AnswersScoped
=============================================================================
