----------------------------- MODULE ContextPack -----------------------------
(***************************************************************************)
(* The packing of search results into a text of bounded size               *)
(* (src/src/tools/context-pack.ts).                                        *)
(*                                                                         *)
(* A text is the number of its tokens; a result has its place in a file,   *)
(* its score, and the tokens of its line of evidence.  That a longer text  *)
(* has more tokens is not assumed where the code does not: tokens of the   *)
(* beginnings of a text may be any numbers.                                *)
(***************************************************************************)
EXTENDS Naturals, Sequences, FiniteSets, SequencesExt, FiniteSetsExt

CONSTANTS
  Evidence,        \* the results a search may find
  SpanOf,          \* a result's [file, first, last]
  ScoreOf, CostOf, \* its score, and the tokens of its line
  Implementation,  \* the results whose path is likely an implementation's
  NamedEvidence,   \* those with a name that the exact-search handoff takes
  MinBudget, MaxBudget, DefaultBudget,
  NoBudget         \* undefined, or not a finite number

\* Scores are compared, and so are what they are.
ASSUME EvidenceAssumption == \A x \in Evidence : ScoreOf[x] \in Nat

\* clampContextPackTokenBudget
Budget(asked) ==
  IF asked = NoBudget THEN DefaultBudget ELSE Min({MaxBudget, Max({MinBudget, asked})})

-----------------------------------------------------------------------------
(* fitTextToContextBudget.  beginning[n] is the number of tokens of the     *)
(* text's first n characters with the note of the truncation.               *)

\* The bisection for the longest beginning that fits.
Truncated(beginning, budget) ==
  LET ends == DOMAIN beginning
      between[range \in ends \X ends] ==
        LET lo == range[1] hi == range[2] middle == (lo + hi + 1) \div 2
        IN IF lo >= hi THEN lo
           ELSE IF beginning[middle] <= budget THEN between[<<middle, hi>>]
                                               ELSE between[<<lo, middle - 1>>]
  IN between[<<0, Max(ends)>>]

Fitted(tokens, beginning, budget) ==
  IF tokens <= budget THEN tokens ELSE beginning[Truncated(beginning, budget)]

-----------------------------------------------------------------------------
(* buildContextPack.                                                        *)

\* The members of a set, sorted.
InOrder(S, before(_, _)) ==
  CHOOSE s \in SetToSeqs(S) : \A i, j \in DOMAIN s : i < j => before(s[i], s[j])

\* rankContextCandidates: implementations first if they are preferred, then by score.
RankedEvidence(results, prefer) ==
  LET first(i) == prefer /\ results[i] \in Implementation
      before(i, j) ==
        \/ first(i) /\ ~first(j)
        \/ /\ first(i) = first(j)
           /\ \/ ScoreOf[results[i]] > ScoreOf[results[j]]
              \/ ScoreOf[results[i]] = ScoreOf[results[j]] /\ i < j
      places == InOrder(DOMAIN results, before)
  IN [n \in DOMAIN results |-> results[places[n]]]

Overlap(x, y) ==
  /\ SpanOf[x].file = SpanOf[y].file
  /\ SpanOf[x].first <= SpanOf[y].last /\ SpanOf[y].first <= SpanOf[x].last

\* Seeded fault: a result is only compared with the one before it.
OverlapsLast(accepted, x) == accepted # <<>> /\ Overlap(x, Last(accepted))
Overlaps(accepted, x) == \E y \in ToSet(accepted) : Overlap(x, y)

DisjointEvidence(ranked) ==
  LET accepted[n \in 0..Len(ranked)] ==
        IF n = 0 THEN <<>>
        ELSE LET before == accepted[n - 1]
             IN IF Overlaps(before, ranked[n]) THEN before ELSE Append(before, ranked[n])
  IN accepted[Len(ranked)]

\* diversifyContextCandidates: the first result of each file, then the second of each.
SpreadEvidence(results) ==
  LET nth(i) == Cardinality({j \in 1..i : SpanOf[results[j]].file = SpanOf[results[i]].file})
      opens(i) == CHOOSE j \in 1..i : /\ SpanOf[results[j]].file = SpanOf[results[i]].file
                                      /\ nth(j) = 1
      places == InOrder(DOMAIN results,
                  LAMBDA i, j : nth(i) < nth(j) \/ (nth(i) = nth(j) /\ opens(i) < opens(j)))
  IN [n \in DOMAIN results |-> results[places[n]]]

\* formatContextPack: a note for each kind of omission, and the handoff if it has a name.
PackText(heading, selected, counts, handoff) ==
  heading + FoldLeft(LAMBDA sum, x : sum + CostOf[x], 0, selected)
  + Cardinality({kind \in DOMAIN counts : counts[kind] > 0})
  + (IF handoff /\ ToSet(selected) \cap NamedEvidence # {} THEN 1 ELSE 0)

\* options: heading, limit, budget, and whether to preserve the order, to prefer
\* implementations and to add the handoff.  The text grows by one result at a time and
\* the first that is too long ends it.
BuildContextPack(results, options) ==
  LET ranked == IF options.preserve THEN results ELSE RankedEvidence(results, options.prefer)
      disjoint == DisjointEvidence(ranked)
      spread == IF options.preserve THEN disjoint ELSE SpreadEvidence(disjoint)
      selectable == SubSeq(spread, 1, Min({options.limit, Len(spread)}))
      counts(n) == [duplicate |-> Len(results) - Len(disjoint),
                    limit |-> Len(disjoint) - Len(selectable),
                    budget |-> Len(selectable) - n]
      text(n) == PackText(options.heading, SubSeq(selectable, 1, n), counts(n), options.handoff)
      budget == Budget(options.budget)
      taken == Max({n \in 0..Len(selectable) : \A m \in 1..n : text(m) <= budget})
  IN [results |-> SubSeq(selectable, 1, taken), ranked |-> ranked, disjoint |-> disjoint,
      candidates |-> Len(results), omitted |-> counts(taken), tokens |-> text(taken),
      budget |-> budget]
-----------------------------------------------------------------------------
(* Properties of a pack and of a fitted text.                               *)

\* The counts of the answer's details add up; the evidence is of disjoint places, and
\* whatever was dropped as a duplicate overlaps a result that was ranked before it and
\* kept; no text is longer than the budget unless nothing is selected.
PackHonest(results, options, pack) ==
  /\ pack.candidates =
       Len(pack.results) + pack.omitted.duplicate + pack.omitted.limit + pack.omitted.budget
  /\ Len(pack.results) <= options.limit
  /\ pack.results # <<>> => pack.tokens <= pack.budget
  /\ \A i, j \in DOMAIN pack.results : i # j => ~Overlap(pack.results[i], pack.results[j])
  /\ \A x \in ToSet(results) \ ToSet(pack.disjoint) :
       \E y \in ToSet(pack.disjoint) :
         /\ Overlap(x, y)
         /\ SelectInSeq(pack.ranked, LAMBDA z : z = y) < SelectInSeq(pack.ranked, LAMBDA z : z = x)

\* Whatever tokens the beginnings of a text have, what is returned fits if the note of the
\* truncation does.
FitHonest(tokens, beginning, budget) ==
  beginning[0] <= budget => Fitted(tokens, beginning, budget) <= budget
=============================================================================
