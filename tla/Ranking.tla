------------------------------- MODULE Ranking -------------------------------
(***************************************************************************)
(* The order of a search's results (src/src/indexer/search-ranking.ts,     *)
(* intent-aware-ranking.ts; index.ts: rerankCandidatesWithApi,             *)
(* mergeTieredResults).                                                    *)
(*                                                                         *)
(* Fusion of the two stores' lists, the order by intent with its removal   *)
(* of duplicate evidence, the external reranker asked band by band, the    *)
(* tiers and the community boost: each takes a sequence of hits to another.*)
(* Scores are small numbers where they are compared and otherwise the      *)
(* orders they give: the heuristic of scoreCandidate is any order of the   *)
(* head, the reranker's answer any sequence of the hits it was shown.  A   *)
(* hit is the number of its id in the ids' order.                          *)
(***************************************************************************)
EXTENDS Naturals, FiniteSets, Sequences, SequencesExt, FiniteSetsExt

CONSTANTS
  Hit,            \* the hits' ids, 1..n
  FileOf, NameOf, \* a hit's file, and its file and symbol name
  BandOf,         \* the band classifyExternalRerankBand gives it
  Duplicates,     \* the pairs areDuplicateEvidence finds
  ExactHit,       \* the hits whose name is the query's identifier
  RrfK, MaxScore, \* k of reciprocal rank fusion; bound: scores in the lists
  Longest,        \* bound: hits in a store's list
  Pool,           \* maxResults * 4
  HeadSize,       \* rerankTopN
  ApiHead         \* the reranker's topN

VARIABLE ranking

rankingVars == ranking

FirstFew(seq, n) == SubSeq(seq, 1, Min({n, Len(seq)}))
Rest(seq, n) == SubSeq(seq, n + 1, Len(seq))
Place(seq, x) == SelectInSeq(seq, LAMBDA y : y = x)   \* 0 when x is not there
Before(seq, x, y) == Place(seq, x) < Place(seq, y)
Lists == UNION {{s \in [1..n -> Hit] : IsInjective(s)} : n \in 0..Longest}

-----------------------------------------------------------------------------
(* Fusion.  A list is [ids, scores] with scores that do not grow.           *)

Scored == {l \in UNION {[ids : {s}, scores : [DOMAIN s -> 1..MaxScore]] : s \in Lists} :
             \A i, j \in DOMAIN l.ids : i < j => l.scores[i] >= l.scores[j]}

ScoreIn(list, x) == IF Place(list.ids, x) = 0 THEN 0 ELSE list.scores[Place(list.ids, x)]

\* 1 / (k + rank) as a share of a common multiple.
Common == FoldSet(LAMBDA r, acc : acc * (RrfK + r), 1, 1..Longest)
Reciprocal(list, x) ==
  IF Place(list.ids, x) = 0 THEN 0 ELSE Common \div (RrfK + Place(list.ids, x))

\* fuseResultsRrf and fuseResultsWeighted; weight is the keywords' share of two.
Rrf(semantic, keyword) ==
  [x \in Hit |-> Reciprocal(semantic, x) + Reciprocal(keyword, x)]
Weighted(semantic, keyword, weight) ==
  [x \in Hit |-> ScoreIn(semantic, x) * (2 - weight) + ScoreIn(keyword, x) * weight]

Fusion(semantic, keyword, score) ==
  FirstFew(SetToSortSeq(ToSet(semantic.ids) \cup ToSet(keyword.ids),
                        LAMBDA x, y : score[x] > score[y] \/ (score[x] = score[y] /\ x < y)),
           Pool)

Fuses ==
  /\ ranking.step = "idle"
  /\ \E semantic, keyword \in Scored :
       \E score \in {Rrf(semantic, keyword)} \cup {Weighted(semantic, keyword, w) : w \in 0..2} :
         ranking' = [step |-> "fused", semantic |-> semantic, keyword |-> keyword,
                     fused |-> Fusion(semantic, keyword, score)]

-----------------------------------------------------------------------------
(* rankIntentAwareCandidates.                                               *)

\* deduplicateEvidence: what duplicates one kept before is dropped.
Deduplicated(seq) ==
  LET kept[n \in 0..Len(seq)] ==
        IF n = 0 THEN <<>>
        ELSE IF \E x \in ToSet(kept[n - 1]) : {x, seq[n]} \in Duplicates
             THEN kept[n - 1] ELSE Append(kept[n - 1], seq[n])
  IN kept[Len(seq)]

\* The files in the order they first come, and one hit of each in every round.
FilesOf(seq) ==
  LET first == {i \in DOMAIN seq : \A j \in 1 .. i - 1 : FileOf[seq[j]] # FileOf[seq[i]]}
      sorted == SetToSortSeq(first, <)
  IN [n \in DOMAIN sorted |-> FileOf[seq[sorted[n]]]]

Round(groups, r) ==
  LET present == SelectSeq(groups, LAMBDA g : Len(g) >= r)
  IN [n \in DOMAIN present |-> present[n][r]]

ByRounds(groups, longest) == FlattenSeq([r \in 1..longest |-> Round(groups, r)])

OfFile(seq, file) == SelectSeq(seq, LAMBDA x : FileOf[x] = file)

\* diversify: hits that have the query's name exactly stay in front.
DiversifiedByFile(seq, preserve) ==
  LET exact == SelectSeq(seq, LAMBDA x : preserve /\ x \in ExactHit)
      others == SelectSeq(seq, LAMBDA x : ~(preserve /\ x \in ExactHit))
      files == FilesOf(others)
  IN IF Len(seq) <= 2 THEN seq
     ELSE exact \o ByRounds([n \in DOMAIN files |-> OfFile(others, files[n])], Len(others))

\* The head in any order, by its adjusted scores; diversified unless a definition or
\* an implementation is asked for by name.
RanksByIntent ==
  /\ ranking.step = "fused"
  /\ \E head \in SetToSeqs(ToSet(FirstFew(ranking.fused, HeadSize))) :
     \E diversify, preserve \in BOOLEAN :
       /\ preserve => diversify
       /\ \E ordered \in {head \o Rest(ranking.fused, HeadSize)} :
            ranking' = [step |-> "ranked", fused |-> ranking.fused, preserved |-> preserve,
                        diversified |-> diversify, ordered |-> ordered,
                        ranked |-> IF HeadSize = 0 \/ Len(ordered) <= 1 THEN ranking.fused
                                   ELSE IF diversify
                                        THEN DiversifiedByFile(Deduplicated(ordered), preserve)
                                        ELSE Deduplicated(ordered)]

-----------------------------------------------------------------------------
(* rerankCandidatesWithApi: one request for each band of the head.          *)

\* By the query's intent; only documentation, test and config queries differ.
BandOrders ==
  {<<"implementation", "other", "config", "documentation", "test">>,
   <<"documentation", "implementation", "config", "other", "test">>,
   <<"test", "implementation", "other", "documentation", "config">>,
   <<"config", "implementation", "other", "documentation", "test">>}

InBands(seq, order) ==
  SelectSeq([b \in DOMAIN order |-> SelectSeq(seq, LAMBDA x : BandOf[x] = order[b])],
            LAMBDA band : band # <<>>)

\* diversifyGroupBySymbol, diversifyEntriesByFileAndSymbol
BySymbol(group) ==
  LET first(x) == \A y \in ToSet(group) : Before(group, y, x) => NameOf[y] # NameOf[x]
  IN IF Len(group) <= 2 THEN group
     ELSE SelectSeq(group, first) \o SelectSeq(group, LAMBDA x : ~first(x))

Diversified(seq) ==
  LET files == FilesOf(seq)
  IN IF Len(seq) <= 2 THEN seq
     ELSE ByRounds([n \in DOMAIN files |-> BySymbol(OfFile(seq, files[n]))], Len(seq))

\* A hit's rank in the answer is its last place there; hits that are missing come
\* after the others, by score and id: that is, as they were fused.
LastPlace(answer, x) == LET at == {i \in DOMAIN answer : answer[i] = x}
                        IN IF at = {} THEN Len(answer) + 1 ELSE Max(at)
\* Seeded fault: the hits the answer does not name are dropped.
NamedByAnswer(band, answer, fused) ==
  SelectSeq(SetToSortSeq(ToSet(band), LAMBDA x, y : LastPlace(answer, x) < LastPlace(answer, y)
                                       \/ (LastPlace(answer, x) = LastPlace(answer, y) /\ x < y)),
            LAMBDA x : answer = <<>> \/ x \in ToSet(answer))

ByAnswer(band, answer, fused) ==
  IF answer = <<>> THEN band
  ELSE SetToSortSeq(ToSet(band),
         LAMBDA x, y : \/ LastPlace(answer, x) < LastPlace(answer, y)
                       \/ /\ LastPlace(answer, x) = LastPlace(answer, y)
                          /\ Before(fused, x, y))

\* Indices it was not given are dropped; the others may be repeated or missing.
ApiAnswers(band) == UNION {[1..n -> ToSet(band)] : n \in 0..Len(band)}

\* No reranker, a definition, an identifier in a query for source code.
RerankSkips ==
  /\ ranking.step = "ranked"
  /\ ranking' = [step |-> "reranked", ranked |-> ranking.ranked, reranked |-> ranking.ranked,
                 bands |-> <<>>]

RerankBegins ==
  /\ ranking.step = "ranked" /\ Len(ranking.ranked) > 1
  /\ \E order \in BandOrders, hints \in BOOLEAN :
       \E bands \in {InBands(FirstFew(ranking.ranked, ApiHead), order)} :
         ranking' = [step |-> "reranks", fused |-> ranking.fused, ranked |-> ranking.ranked,
                     hints |-> hints, bands |-> bands, pending |-> bands, done |-> <<>>]

BandReranked(band, answer) ==
  IF answer = <<>> THEN band
  ELSE LET sorted == ByAnswer(band, answer, ranking.fused)
       IN IF ranking.hints THEN sorted ELSE Diversified(sorted)

RerankBand ==
  /\ ranking.step = "reranks" /\ ranking.pending # <<>>
  /\ \E band \in {Head(ranking.pending)} :
       \E answer \in IF Len(band) = 1 THEN {<<>>} ELSE ApiAnswers(band) :
         ranking' = [ranking EXCEPT !.pending = Tail(@), !.done = @ \o BandReranked(band, answer)]

\* A request fails or times out: what the earlier bands' requests gave is thrown away.
RerankFails ==
  /\ ranking.step = "reranks"
  /\ \E i \in DOMAIN ranking.pending : Len(ranking.pending[i]) > 1
  /\ ranking' = [step |-> "reranked", ranked |-> ranking.ranked, reranked |-> ranking.ranked,
                 bands |-> <<>>]

RerankEnds ==
  /\ ranking.step = "reranks" /\ ranking.pending = <<>>
  /\ ranking' = [step |-> "reranked", ranked |-> ranking.ranked, bands |-> ranking.bands,
                 reranked |-> ranking.done \o Rest(ranking.ranked, ApiHead)]

-----------------------------------------------------------------------------
(* The tiers and the community boost.                                       *)

Distinct(seq) ==
  LET first == {i \in DOMAIN seq : \A j \in 1 .. i - 1 : seq[j] # seq[i]}
      sorted == SetToSortSeq(first, <)
  IN [n \in DOMAIN sorted |-> seq[sorted[n]]]

MergedTiers(lane, others, limit) ==
  IF lane = <<>> THEN FirstFew(others, limit) ELSE FirstFew(Distinct(lane \o others), limit)

\* Hits found by name come first; the filters let some of all of them through.
Tiers ==
  /\ ranking.step = "reranked"
  /\ \E lane \in Lists, passing \in SUBSET Hit :
       ranking' = [step |-> "tiered", lane |-> lane, others |-> ranking.reranked,
                   tiered |-> SelectSeq(MergedTiers(lane, ranking.reranked, Pool),
                                        LAMBDA x : x \in passing)]

\* applyCommunityBoost with boost 1: doubled scores, and one pass of swaps.
Boosted(seq, same, score) ==
  LET doubled == [x \in DOMAIN score |-> IF x \in same THEN 2 * score[x] ELSE score[x]]
      pass[n \in 1..Len(seq)] ==
        IF n = 1 THEN seq
        ELSE LET result == pass[n - 1] IN
             IF result[n] \in same /\ result[n - 1] \notin same
                /\ doubled[result[n]] > doubled[result[n - 1]]
             THEN [result EXCEPT ![n - 1] = result[n], ![n] = result[n - 1]]
             ELSE result
  IN IF same = {} \/ Len(seq) <= 1 THEN seq ELSE pass[Len(seq)]

Boosts ==
  /\ ranking.step = "tiered"
  /\ \E same \in SUBSET ToSet(ranking.tiered), score \in [ToSet(ranking.tiered) -> 1..MaxScore + 1] :
       ranking' = [step |-> "boosted", tiered |-> ranking.tiered, same |-> same,
                   boosted |-> Boosted(ranking.tiered, same, score)]

\* The results are cut and returned.
RankingEnds ==
  /\ ranking.step = "boosted"
  /\ ranking' = [step |-> "idle"]

RankingInit == ranking = [step |-> "idle"]

RankingNext ==
  \/ Fuses \/ RanksByIntent \/ RerankSkips \/ RerankBegins \/ RerankBand \/ RerankFails
  \/ RerankEnds \/ Tiers \/ Boosts \/ RankingEnds

RankingSpec == RankingInit /\ [][RankingNext]_rankingVars
-----------------------------------------------------------------------------
(* Properties.                                                              *)

Permutes(s, t) == IsInjective(s) /\ Len(s) = Len(t) /\ ToSet(s) = ToSet(t)

\* A hit that both stores score higher than another comes before it.
FusionMonotone ==
  \A x \in Hit, y \in ToSet(ranking.fused) :
    /\ ScoreIn(ranking.semantic, x) > ScoreIn(ranking.semantic, y)
    /\ ScoreIn(ranking.keyword, x) > ScoreIn(ranking.keyword, y)
    => x \in ToSet(ranking.fused) /\ Before(ranking.fused, x, y)

\* Nothing is lost but duplicates of a hit that was kept and came before; one file's
\* second hit does not come before another file's first.
EvidenceKept ==
  LET spread == SelectSeq(ranking.ranked, LAMBDA x : ~(ranking.preserved /\ x \in ExactHit))
  IN /\ IsInjective(ranking.ranked) /\ ToSet(ranking.ranked) \subseteq ToSet(ranking.fused)
     /\ \A x \in ToSet(ranking.ordered) \ ToSet(ranking.ranked) :
          \E y \in ToSet(ranking.ranked) :
            {x, y} \in Duplicates /\ Before(ranking.ordered, y, x)
     /\ ranking.diversified /\ Len(ranking.ranked) > 2 =>
          \A i, j \in DOMAIN spread :
            (\E k \in 1 .. i - 1 : FileOf[spread[k]] = FileOf[spread[i]]) /\ i < j
            => \E k \in 1 .. i : FileOf[spread[k]] = FileOf[spread[j]]

\* Whatever the reranker answers, it only orders the hits within their bands, and
\* nothing behind the head: a failed request leaves all as it was.
BandsHold ==
  /\ Permutes(ranking.reranked, ranking.ranked)
  /\ Rest(ranking.reranked, ApiHead) = Rest(ranking.ranked, ApiHead)
  /\ ranking.bands = <<>> => ranking.reranked = ranking.ranked
  /\ \A b, c \in DOMAIN ranking.bands :
       b < c => \A x \in ToSet(ranking.bands[b]), y \in ToSet(ranking.bands[c]) :
                  Before(ranking.reranked, x, y)

\* The boost only orders, in a single pass: a hit rises by one place at most, and those
\* of the community, like the others, keep their order among each other.
BoostGentle ==
  /\ Permutes(ranking.boosted, ranking.tiered)
  /\ \A x \in ToSet(ranking.tiered) :
       Place(ranking.tiered, x) <= Place(ranking.boosted, x) + 1
  /\ \A x, y \in ToSet(ranking.tiered) :
       (x \in ranking.same <=> y \in ranking.same) =>
         (Before(ranking.tiered, x, y) <=> Before(ranking.boosted, x, y))

\* What each stage of the ranking may do to the hits, for every list, answer and failure
\* of the reranker (search-ranking.ts:62-145, intent-aware-ranking.ts:404-501,
\* index.ts:2475-2565, search-ranking.ts:6-35).
RankingKeeps ==
  CASE ranking.step = "fused"    -> FusionMonotone
    [] ranking.step = "ranked"   -> EvidenceKept
    [] ranking.step = "reranked" -> BandsHold
    [] ranking.step = "tiered"   -> IsInjective(ranking.tiered) /\ Len(ranking.tiered) <= Pool
    [] ranking.step = "boosted"  -> BoostGentle
    [] OTHER -> TRUE
=============================================================================
