----------------------------- MODULE Communities -----------------------------
(***************************************************************************)
(* What the call graph of a branch is asked for besides paths              *)
(* (src/native/src/community.rs): reachability in both directions,         *)
(* communities by label propagation, couplings, centrality, and the impact *)
(* that getPrImpact puts together of them (src/src/indexer/index.ts).      *)
(*                                                                         *)
(* A symbol is the number of its id in the ids' order: 1..n.  The          *)
(* statements join the edges with the branch's symbols, so a graph is the  *)
(* edges of the table and the symbols of the branch, and an edge may name  *)
(* a symbol that only another branch has.  A queue worked from its front   *)
(* visits by depth: a search is the sets of its depths.                    *)
(***************************************************************************)
EXTENDS Naturals, FiniteSets, Sequences, SequencesExt, FiniteSetsExt, TLC

CONSTANTS
  SymbolName,          \* a symbol's name, in lower case
  Unresolved,          \* to_symbol_id is NULL
  Graphs,              \* the edge tables looked at: sets of [from, callee, to]
  BranchSymbols,       \* the branches looked at: sets of symbols
  Changes,             \* the changes looked at: the symbols of the changed files
  PathDepth,           \* maxDepth of a path
  Rounds,              \* rounds of label propagation: 50
  HubThreshold, FewAffected, ManyAffected  \* opts.hubThreshold, 5 and 20

VARIABLE analysis

impactVars == analysis

-----------------------------------------------------------------------------
(* Edges and the searches over them.                                        *)

FromBranch(edges, visible) == {e \in edges : e.from \in visible}
NamedOn(visible, name) == {s \in visible : SymbolName[s] = name}

\* resolve_target_symbol: a stored target or nothing; else the only symbol of the name.
TargetOf(e, visible) ==
  IF e.to # Unresolved THEN {e.to} \cap visible
  ELSE LET named == NamedOn(visible, e.callee)
       IN IF Cardinality(named) = 1 THEN named ELSE {}

\* bfs_callees: the edges that leave a symbol.
CalleesFrom(edges, visible) ==
  [s \in visible |-> UNION {TargetOf(e, visible) : e \in {d \in edges : d.from = s}}]

\* Seeded fault: a name that several symbols have is a call to each of them.
CallersByName(edges, visible) ==
  [s \in visible |-> {e.from : e \in {d \in FromBranch(edges, visible) :
     IF d.to # Unresolved THEN d.to = s ELSE s \in NamedOn(visible, d.callee)}}]

\* bfs_callers: the edges that have the symbol, or its name, as their target.
CallersOf(edges, visible) ==
  [s \in visible |-> {e.from : e \in {d \in FromBranch(edges, visible) :
     /\ d.to = s \/ d.callee = SymbolName[s]
     /\ IF d.to # Unresolved THEN d.to = s ELSE NamedOn(visible, d.callee) = {s}}}]

\* The symbols within a depth of the roots.
Within(roots, next, depth) ==
  LET level[d \in 0..depth] ==
        IF d = 0 THEN roots ELSE LET nearer == level[d - 1]
                                 IN nearer \cup UNION {next[s] : s \in nearer}
  IN level[depth]

DepthIn(s, roots, next, depth) ==
  Min({d \in 0..depth : s \in Within(roots, next, d)})

DepthsFrom(roots, next, depth) ==
  [s \in Within(roots, next, depth) |-> DepthIn(s, roots, next, depth)]

Directions == {"callers", "callees", "both"}

\* get_transitive_reachability: roots of other branches have no part in it.
Reachability(edges, visible, roots, direction, depth) ==
  LET seeds == roots \cap visible
      down == DepthsFrom(seeds, CalleesFrom(edges, visible), depth)
      up == DepthsFrom(seeds, CallersOf(edges, visible), depth)
      found == CASE direction = "callees" -> down
                 [] direction = "callers" -> up
                 [] OTHER -> [s \in DOMAIN down \cup DOMAIN up |->
                                Min({f[s] : f \in {g \in {down, up} : s \in DOMAIN g}})]
  IN IF depth = 0 THEN <<>> ELSE [s \in DOMAIN found \ roots |-> found[s]]

\* findCallPathBySymbolIds on one branch: the queue of symbols with their depths, and the
\* symbol each was reached from; the callees of the head are looked at until the target
\* is one of them.
PathSearch(next, from, to, depth) ==
  LET visit(search, t) ==
        IF to \in DOMAIN search.parent \/ t \in DOMAIN search.parent THEN search
        ELSE [parent |-> (t :> search.at[1]) @@ search.parent, at |-> search.at,
              queue |-> Append(search.queue, <<t, search.at[2] + 1>>)]
      turn[n \in Nat] ==
        IF n = 0 THEN [queue |-> <<<<from, 0>>>>, parent |-> (from :> from), at |-> <<from, 0>>]
        ELSE LET before == turn[n - 1]
             IN IF before.queue = <<>> \/ to \in DOMAIN before.parent THEN before
                ELSE LET head == Head(before.queue)
                         taken == [before EXCEPT !.queue = Tail(@), !.at = head]
                     IN IF head[2] >= depth THEN taken
                        ELSE FoldSet(LAMBDA t, search : visit(search, t), taken, next[head[1]])
  IN turn[Cardinality(DOMAIN next)].parent

CallPath(next, from, to, depth) ==
  LET parent == PathSearch(next, from, to, depth)
      back[n \in Nat] ==
        IF n = 0 THEN <<to>>
        ELSE LET path == back[n - 1]
             IN IF Head(path) = from THEN path ELSE <<parent[Head(path)]>> \o path
  IN IF {from, to} \subseteq DOMAIN next /\ to \in DOMAIN parent
     THEN back[Cardinality(DOMAIN next)] ELSE <<>>

-----------------------------------------------------------------------------
(* detect_communities.                                                      *)

Neighbours(edges, visible) ==
  LET links == {<<e.from, t>> : e \in FromBranch(edges, visible), t \in visible}
      calls == {l \in links : \E e \in FromBranch(edges, visible) :
                  e.from = l[1] /\ l[2] \in TargetOf(e, visible) \ {e.from}}
  IN [s \in visible |-> {t \in visible : <<s, t>> \in calls \/ <<t, s>> \in calls}]

Degree(neighbours, s) == Cardinality(neighbours[s])

\* The symbols asked for and all that is connected with them; or the whole branch.
Component(neighbours, ids) ==
  Within(ids \cap DOMAIN neighbours, neighbours, Cardinality(DOMAIN neighbours))

\* Hubs first.
Order(neighbours, active) ==
  SetToSortSeq(active, LAMBDA s, t : \/ Degree(neighbours, s) > Degree(neighbours, t)
                                     \/ /\ Degree(neighbours, s) = Degree(neighbours, t)
                                        /\ s < t)

\* The label most neighbours have, and the least of those.
CommonLabel(labels, around) ==
  LET votes(l) == Cardinality({n \in around : labels[n] = l})
  IN CHOOSE l \in {labels[n] : n \in around} :
       \A m \in {labels[n] : n \in around} :
         votes(l) > votes(m) \/ (votes(l) = votes(m) /\ l <= m)

\* One round: each symbol in turn sees the labels the symbols before it have taken.
Relabelled(labels, order, neighbours) ==
  LET pass[i \in 0..Len(order)] ==
        IF i = 0 THEN labels
        ELSE LET before == pass[i - 1]
                 around == neighbours[order[i]] \cap DOMAIN labels
             IN IF around = {} THEN before
                ELSE [before EXCEPT ![order[i]] = CommonLabel(before, around)]
  IN pass[Len(order)]

\* Rounds until nothing changes, and no more than 50.
Labels(neighbours, active) ==
  LET order == Order(neighbours, active)
      settled[p \in (1..Rounds) \X [active -> active]] ==
        LET after == Relabelled(p[2], order, neighbours)
        IN IF after = p[2] \/ p[1] = Rounds THEN after ELSE settled[<<p[1] + 1, after>>]
  IN settled[<<1, [s \in active |-> s]>>]

Detected(neighbours, ids) == Labels(neighbours, Component(neighbours, ids))

\* The number of a community, its name and its symbols' links out of it.
CommunityId(labels, s) ==
  Cardinality({l \in Range(labels) : l < labels[s]})
CommunityLabel(neighbours, labels, s) ==
  LET members == {t \in DOMAIN labels : labels[t] = labels[s]}
      hub == CHOOSE h \in members : \A t \in members :
               \/ Degree(neighbours, h) > Degree(neighbours, t)
               \/ Degree(neighbours, h) = Degree(neighbours, t) /\ h <= t
  IN SymbolName[hub]
CrossConnections(neighbours, labels, s) ==
  Cardinality({t \in neighbours[s] \cap DOMAIN labels : labels[t] # labels[s]})

\* resolveSameCommunityCandidateIds: of the symbols a search has found, those in the
\* community of the only symbol that has the name of the query.
SameCommunity(neighbours, name, found) ==
  LET anchors == NamedOn(DOMAIN neighbours, name)
      labels == Detected(neighbours, anchors \cup found)
  IN IF Cardinality(anchors) # 1 THEN {}
     ELSE {s \in found : \A a \in anchors : labels[s] = labels[a]}

-----------------------------------------------------------------------------
(* Couplings, centrality and the impact.                                    *)

\* aggregate_community_couplings: stored targets only, each pair of symbols once.
Crossing(edges, visible, labels) ==
  {<<e.from, e.to>> : e \in {d \in FromBranch(edges, visible) :
     d.to \in visible \ {d.from} /\ labels[d.from] # labels[d.to]}}
Couplings(edges, visible, labels) ==
  [ids \in {{CommunityId(labels, c[1]), CommunityId(labels, c[2])} :
              c \in Crossing(edges, visible, labels)} |->
     Cardinality({c \in Crossing(edges, visible, labels) :
                    {CommunityId(labels, c[1]), CommunityId(labels, c[2])} = ids})]

\* compute_centrality: calls, not callers, are counted.
CallerCount(edges, visible, s) ==
  Cardinality({e \in FromBranch(edges, visible) : s \in TargetOf(e, visible)})

Risk(affected, hubs) ==
  IF affected < FewAffected /\ hubs = 0 THEN "LOW"
  ELSE IF affected > ManyAffected \/ hubs > 1 THEN "HIGH" ELSE "MEDIUM"

\* A branch is indexed: its graph is there.
GraphIndexed ==
  /\ analysis.step = "idle"
  /\ \E edges \in Graphs, visible \in BranchSymbols :
       analysis' = [step |-> "indexed", edges |-> edges, visible |-> visible]

\* getPrImpact, when the changed files have these symbols.  Communities go by their labels.
Assesses ==
  /\ analysis.step = "indexed"
  /\ \E changed \in {c \cap analysis.visible : c \in Changes}, direction \in Directions, depth \in 1..2 :
       \E reached \in {Reachability(analysis.edges, analysis.visible, changed, direction, depth)},
          neighbours \in {Neighbours(analysis.edges, analysis.visible)} :
         \E labels \in {Detected(neighbours, changed \cup DOMAIN reached)},
            hubs \in {{s \in changed :
                         CallerCount(analysis.edges, analysis.visible, s) >= HubThreshold}} :
           \E named \in {[s \in DOMAIN labels |-> CommunityLabel(neighbours, labels, s)]} :
             analysis' =
               [step |-> "assessed", edges |-> analysis.edges, visible |-> analysis.visible,
                changed |-> changed, direction |-> direction, depth |-> depth,
                reached |-> reached, hubs |-> hubs,
                communities |-> [l \in Range(named) |->
                   [size |-> Cardinality({s \in DOMAIN named : named[s] = l}),
                    direct |-> {s \in changed : named[s] = l}]],
                risk |-> Risk(Cardinality(changed \cup DOMAIN reached), Cardinality(hubs))]

Reported ==
  /\ analysis.step = "assessed"
  /\ analysis' = [step |-> "idle"]

ImpactInit == analysis = [step |-> "idle"]
ImpactNext == GraphIndexed \/ Assesses \/ Reported
ImpactSpec == ImpactInit /\ [][ImpactNext]_impactVars
-----------------------------------------------------------------------------
(* Properties.                                                              *)

\* Asking who calls a symbol and asking what a symbol calls, which are two different
\* statements with two ways to resolve a name, give the same graph (community.rs:166-306).
CallersMirrorCallees ==
  LET down == CalleesFrom(analysis.edges, analysis.visible)
      up == CallersOf(analysis.edges, analysis.visible)
  IN \A s, t \in analysis.visible : t \in down[s] <=> s \in up[t]

\* A symbol is in the same community whether the whole branch is asked for or the symbols
\* of a change, or of a search, alone (the Some(ids) case of detect_communities,
\* community.rs:360-375; resolveSameCommunityCandidateIds, index.ts:126).
CommunitiesLocal ==
  LET neighbours == Neighbours(analysis.edges, analysis.visible)
      whole == Labels(neighbours, analysis.visible)
  IN \A s \in analysis.visible :
       LET around == Component(neighbours, {s})
           part == Detected(neighbours, {s})
       IN /\ \A t \in around : part[t] = whole[t]
          /\ SameCommunity(neighbours, SymbolName[s], around) =
               IF Cardinality(NamedOn(analysis.visible, SymbolName[s])) # 1 THEN {}
               ELSE {t \in around : whole[t] = whole[s]}

\* The couplings and the members' links out of their communities agree.
CouplingsBacked ==
  LET neighbours == Neighbours(analysis.edges, analysis.visible)
      labels == Labels(neighbours, analysis.visible)
      couplings == Couplings(analysis.edges, analysis.visible, labels)
  IN \A ids \in DOMAIN couplings :
       \A id \in ids :
         \E s \in analysis.visible : /\ CommunityId(labels, s) = id
                                   /\ CrossConnections(neighbours, labels, s) > 0

\* Every affected symbol is counted in one community, every changed one is named in its
\* community, and a wider search or a larger change never lowers the risk.
ImpactComplete ==
  LET affected == analysis.changed \cup DOMAIN analysis.reached
      total == MapThenSumSet(LAMBDA l : analysis.communities[l].size, DOMAIN analysis.communities)
      listed == UNION {analysis.communities[l].direct : l \in DOMAIN analysis.communities}
      less == {Cardinality(c \cup DOMAIN Reachability(analysis.edges, analysis.visible, c,
                                                       analysis.direction, analysis.depth)) :
                 c \in SUBSET analysis.changed}
  IN /\ total >= Cardinality(affected) /\ listed = analysis.changed
     /\ \A n \in less : n <= Cardinality(affected)

\* The path between two symbols is made of calls and is as short as the callees' depths
\* say, although the two are found by different searches (index.ts:5710, community.rs:166).
PathsShortest ==
  LET next == CalleesFrom(analysis.edges, analysis.visible)
      from == Min(analysis.visible)
      depths == DepthsFrom({from}, next, PathDepth)
  IN \A to \in analysis.visible :
       LET path == CallPath(next, from, to, PathDepth)
       IN /\ Len(path) = IF to \in DOMAIN depths THEN depths[to] + 1 ELSE 0
          /\ \A i \in 1 .. Len(path) - 1 : path[i + 1] \in next[path[i]]

\* What each question about a branch's graph answers agrees with the others.
CommunitiesHonest ==
  CASE analysis.step = "indexed" -> CallersMirrorCallees /\ CommunitiesLocal /\ CouplingsBacked
                                /\ PathsShortest
    [] analysis.step = "assessed" -> ImpactComplete
    [] OTHER -> TRUE
=============================================================================
