------------------------------- MODULE MCIndex -------------------------------
(* The instance of Index that TLC checks.                                  *)
EXTENDS Index, MCIndexStore

CONSTANTS c1, c2, c3, s1

\* Search: the chunks and the symbol of a branch at a run.
MCContents == {{c1, s1}, {c2, c3}, {c1, c2, c3, s1}}

\* Ranking: four hits of two files; three are of one declaration.
MCFileOf == <<"f", "g", "f", "f">>
MCNameOf == <<"n", "n", "m", "n">>
MCBandOf == <<"implementation", "implementation", "test", "implementation">>
MCDuplicates == {{1, 3}, {3, 4}}
=============================================================================
