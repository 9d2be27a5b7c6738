---------------------------- MODULE ContextSearch ----------------------------
(***************************************************************************)
(* resolveSearchContext of src/src/tools/context-search.ts: the attempts   *)
(* that follow one another until one finds something, and the answer that  *)
(* says what was tried.                                                    *)
(*                                                                         *)
(* What an attempt finds is any list of the evidence that passes its       *)
(* filters (Search says what a search answers), and a later attempt may    *)
(* find what an earlier one did not: the index changes meanwhile.          *)
(***************************************************************************)
EXTENDS ContextPack

CONSTANTS
  Passes,        \* the filters a result passes: a set of "directory" and "fileType"
  Question,      \* queries and symbols, trimmed
  NoQuestion,    \* undefined, or blank
  LongestAnswer, \* bound: results of an attempt
  Limits, Budgets, Heading

ASSUME RequestAssumption == LongestAnswer \in Nat /\ Limits \subseteq Nat

VARIABLE context

contextVars == context

Filters == SUBSET {"directory", "fileType"}

\* The lists a search may return.
Answers(filters) ==
  LET passing == {x \in Evidence : filters \subseteq Passes[x]}
  IN UNION {{s \in [1..n -> passing] : IsInjective(s)} : n \in 0..LongestAnswer}

\* An attempt, and the filters it is the first to leave out.
Attempt(kind, query, filters, relaxed) ==
  [kind |-> kind, query |-> query, filters |-> filters, relaxed |-> relaxed]

Recorded(attempt, found) ==
  [kind |-> attempt.kind, query |-> attempt.query, filters |-> attempt.filters,
   relaxed |-> attempt.relaxed, found |-> found]

\* Seeded fault: the filters are dropped for the query before the inferred symbol is
\* tried within them.
QueryByQuery(queries, filters) ==
  FlattenSeq([n \in DOMAIN queries |->
    <<Attempt("conceptual", queries[n], filters, {}),
      Attempt("conceptual", queries[n], {}, filters)>>])

\* conceptualAttemptPlan: each query within the filters, then each without.
ConceptualAttempts(queries, filters) ==
  [n \in DOMAIN queries |-> Attempt("conceptual", queries[n], filters, {})]
  \o (IF filters = {} THEN <<>>
      ELSE [n \in DOMAIN queries |-> Attempt("conceptual", queries[n], {}, filters)])

\* The attempts of a request.  A symbol that was given ends with the definitions; one
\* that was inferred from the query is looked up first and searched for last.
Plan(request) ==
  LET symbol == IF request.symbol # NoQuestion THEN request.symbol ELSE request.inferred
      lookup == IF symbol = NoQuestion THEN <<>>
                ELSE <<Attempt("definition", symbol, request.filters, {})>>
      again == IF request.filters = {} THEN <<>>
               ELSE <<Attempt("definition", symbol, {}, request.filters)>>
      queries == <<request.query>>
                 \o (IF request.inferred \in {NoQuestion, request.query} THEN <<>>
                     ELSE <<request.inferred>>)
  IN IF request.symbol # NoQuestion THEN lookup \o again
     ELSE lookup \o ConceptualAttempts(queries, request.filters)

\* A request; a blank one is answered at once.
Requested ==
  /\ context.step = "idle"
  /\ \E query, symbol, inferred \in Question \cup {NoQuestion}, filters \in Filters :
       /\ inferred # NoQuestion => symbol = NoQuestion /\ query # NoQuestion
       /\ \E request \in {[query |-> query, symbol |-> symbol, inferred |-> inferred,
                           filters |-> filters]} :
            context' = IF query = NoQuestion /\ symbol = NoQuestion
                       THEN [step |-> "refused", request |-> request, made |-> <<>>]
                       ELSE [step |-> "attempts", request |-> request,
                             pending |-> Plan(request), made |-> <<>>]

\* The heading names what was relaxed and what was missed: it grows by what it says.
Decisions(request, made) ==
  [relaxed |-> UNION {made[n].relaxed : n \in DOMAIN made},
   missed |-> /\ request.inferred # NoQuestion
              /\ \E n \in DOMAIN made : made[n].kind = "definition" /\ made[n].found = 0,
   inferred |-> \E n \in DOMAIN made :
                  /\ made[n].kind = "conceptual" /\ made[n].query # request.query]

HeadingTokens(decisions) ==
  Heading + Cardinality(decisions.relaxed) + Cardinality({d \in {"missed", "inferred"} : decisions[d]})

\* findSuccessfulAttemptIndex: the last of the route that found something.
SuccessfulAttempt(route, made) ==
  LET found == {n \in DOMAIN made : made[n].kind = route /\ made[n].found > 0}
  IN IF found = {} THEN 0 ELSE Max(found)

\* One attempt, recorded with what it found; the first that finds something is packed.
Attempts ==
  /\ context.step = "attempts" /\ context.pending # <<>>
  /\ \E attempt \in {Head(context.pending)} :
     \E results \in Answers(attempt.filters) :
     \E made \in {Append(context.made, Recorded(attempt, Len(results)))} :
       IF results = <<>>
       THEN context' = [context EXCEPT !.pending = Tail(@), !.made = made]
       ELSE \E limit \in Limits, budget \in Budgets, prefer \in BOOLEAN :
              /\ attempt.kind = "definition" => ~prefer
              /\ \E options \in
                   {[heading |-> HeadingTokens(Decisions(context.request, made)),
                     limit |-> limit, budget |-> budget, prefer |-> prefer,
                     preserve |-> attempt.kind = "definition",
                     handoff |-> attempt.kind = "conceptual"]} :
                   context' = [step |-> "packed", request |-> context.request, made |-> made,
                               decisions |-> Decisions(context.request, made),
                               route |-> attempt.kind, found |-> results, options |-> options,
                               successful |-> SuccessfulAttempt(attempt.kind, made),
                               pack |-> BuildContextPack(results, options)]

\* Nothing was found: the attempts are listed, as far as the budget goes.
FallsBack ==
  /\ context.step = "attempts" /\ context.pending = <<>>
  /\ \E budget \in Budgets, beginning \in [0..3 -> 1..4], tokens \in 1..5 :
       context' = [step |-> "listed", request |-> context.request, made |-> context.made,
                   budget |-> Budget(budget), tokens |-> tokens, beginning |-> beginning]

ContextEnds ==
  /\ context.step \in {"refused", "packed", "listed"}
  /\ context' = [step |-> "idle"]

ContextInit == context = [step |-> "idle"]
ContextNext == Requested \/ Attempts \/ FallsBack \/ ContextEnds
ContextSpec == ContextInit /\ [][ContextNext]_contextVars
-----------------------------------------------------------------------------
(* Properties.                                                              *)

\* A result outside the filters is only given when every question was asked within them
\* and found nothing, and then the answer says which filters were removed; a symbol that
\* was given is never answered by a conceptual search; the attempt that is named as the
\* successful one is the one whose results are shown, and the only one that has any.
RecoveryHonest ==
  context.step = "packed" =>
    LET request == context.request
        asked == {<<a.kind, a.query>> : a \in ToSet(context.made)}
        within == {<<a.kind, a.query>> : a \in {b \in ToSet(context.made) : b.filters = request.filters}}
    IN /\ \A x \in ToSet(context.pack.results) :
            \/ request.filters \subseteq Passes[x]
            \/ /\ context.decisions.relaxed = request.filters
               /\ \A k \in DOMAIN Plan(request) :
                    LET a == Plan(request)[k]
                    IN a.filters = request.filters => <<a.kind, a.query>> \in within
               /\ \A a \in ToSet(context.made) : a.filters = request.filters => a.found = 0
       /\ asked \subseteq within
       /\ request.symbol # NoQuestion => \A a \in ToSet(context.made) : a.kind = "definition"
       /\ context.successful = Len(context.made)
       /\ context.made[context.successful].found = context.pack.candidates
       /\ \A n \in DOMAIN context.made : n < context.successful => context.made[n].found = 0
       /\ PackHonest(context.found, context.options, context.pack)

\* What is listed after a miss fits its budget.
ListingFits ==
  context.step = "listed" => FitHonest(context.tokens, context.beginning, context.budget)

ContextHonest == RecoveryHonest /\ ListingFits
=============================================================================
