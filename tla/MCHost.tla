------------------------------- MODULE MCHost -------------------------------
(* The instance of Host that TLC checks.                                   *)
EXTENDS Host, MCIndexLock, MCSelection

CONSTANTS u1, u2, v1, v2, w1, w2, s, t

\* IndexLock: two UUIDs of each process, one as good as the other.
MCTokens == {u1, u2, v1, v2, w1, w2}
MCOwner == [x \in MCTokens |-> IF x \in {u1, u2} THEN "p" ELSE IF x \in {v1, v2} THEN "q" ELSE "r"]
Exchanged == Permutations({u1, u2}) \cup Permutations({v1, v2}) \cup Permutations({w1, w2})

\* Configuration: a session in the main checkout and one in a worktree.
MCRootOf == [main |-> "main", tree |-> "tree"]
MCModeOf == [main |-> "codex", tree |-> "codex"]
Written(list, scope, provider) == [bases |-> list, scope |-> scope, provider |-> provider]
MCHandWritten == {Written(<<<<"self", "n">>>>, Unset, "good"),
                  Written(<<<<"outside", "n">>>>, "global", Unset),
                  Written(<<>>, "project", "bad")}
Layout(places, indexes) ==
  [files |-> [p \in Places |->
     IF p \in places THEN Written(<<<<"self", "n">>, <<"tree", "n">>>>, Unset, Unset) ELSE Missing],
   indexes |-> indexes]
MCLayouts == {Layout({}, {}), Layout({}, {<<"main", "opencode">>}),
              Layout({<<"main", "codex">>}, {}), Layout({<<"main", "opencode">>}, {}),
              Layout({<<"main", "opencode">>}, {<<"main", "codex">>, <<"main", "opencode">>}),
              Layout({<<"tree", "opencode">>, <<"main", "codex">>}, {<<"main", "codex">>})}

\* ChunkStores: the term s twice, or s and t once.
MCText == {(s :> 2), (s :> 1) @@ (t :> 1)}
=============================================================================
