-------------------------------- MODULE Index --------------------------------
(***************************************************************************)
(* An index and what is found in it: the artifacts that mutations write,   *)
(* a search while runs change the stores, and the stages between the       *)
(* candidates of a search and its results.  The parts share no variable:   *)
(* in a behaviour one part acts and the others stay where they began.      *)
(***************************************************************************)
EXTENDS IndexStore, Search, Ranking

VARIABLE part   \* the part that acts

Parts == {"artifacts", "search", "ranking"}

\* A part that does not act has one beginning.
One(p, S) == IF part = p THEN S ELSE {CHOOSE x \in S : TRUE}

IndexInit ==
  /\ part \in Parts
  /\ world \in One("artifacts", Worlds) /\ Init
  /\ \A b \in Branch : part # "artifacts" => Present(refs[b]) = {}
  /\ checkedOut \in One("search", FoundBranch) /\ SearchInit
  /\ RankingInit

Still(p) ==
  /\ p # "artifacts" => UNCHANGED vars
  /\ p # "search" => UNCHANGED searchVars
  /\ p # "ranking" => UNCHANGED rankingVars
  /\ UNCHANGED part

IndexNext ==
  \/ part = "artifacts" /\ Next /\ Still("artifacts")
  \/ part = "search" /\ SearchNext /\ Still("search")
  \/ part = "ranking" /\ RankingNext /\ Still("ranking")

IndexSpec == IndexInit /\ [][IndexNext]_<<part, vars, searchVars, rankingVars>>
=============================================================================
