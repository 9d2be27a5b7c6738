--------------------------- MODULE MCSharedIndex ---------------------------
(***************************************************************************)
(* Two projects and a knowledge base of both, two versions of each file:   *)
(* calls that resolve in their file, calls to a name of another file, of   *)
(* two files, of none, and a language without case.                        *)
(***************************************************************************)
EXTENDS SharedIndex

MCProject == {"A", "B"}
MCFile == {"a.ts", "b.php", "kb.ts"}
MCRoot == [A |-> {"a.ts"}, B |-> {"b.php"}]
MCScope == [A |-> {"a.ts", "kb.ts"}, B |-> {"b.php", "kb.ts"}]
MCLanguage == [f \in MCFile |-> IF f = "b.php" THEN "php" ELSE "typescript"]
MCInsensitive == {"php", "apex"}
MCFold == [n \in {"main", "run", "help", "Help", "stop", "end"} |-> IF n = "Help" THEN "help" ELSE n]

MCNames ==
  [f \in MCFile |->
    CASE f = "a.ts"  -> <<{"main", "run"}, {"main", "run", "help", "stop"}>>
      [] f = "b.php" -> <<{"main", "help"}, {"run"}>>
      [] f = "kb.ts" -> <<{"help", "run"}, {"Help", "stop"}>>]
MCCalls ==
  [f \in MCFile |->
    CASE f = "a.ts"  -> <<{<<"main", "run">>, <<"run", "help">>}, {<<"main", "run">>, <<"main", "help">>, <<"help", "stop">>,
                           <<"stop", "end">>, <<"run", "end">>}>>
      [] f = "b.php" -> <<{<<"main", "Help">>, <<"help", "run">>}, {<<"run", "help">>}>>
      [] f = "kb.ts" -> <<{<<"help", "main">>, <<"run", "help">>}, {<<"Help", "main">>, <<"Help", "end">>, <<"stop", "Help">>}>>]

\* Garbage collection and failed requests are kept apart: a collection deletes
\* the row of a chunk whose request failed, and the retry does not restore it.
AllWorlds == {{"failures"}, {"clear", "health"}, {"upgrade", "clear", "health"}}
ForcedFailing == {{"upgrade", "clear", "failures", "forcedFailures"}}
=============================================================================
