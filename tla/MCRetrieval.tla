----------------------------- MODULE MCRetrieval -----------------------------
(* The instance of Retrieval that TLC checks.                              *)
EXTENDS Retrieval

CONSTANTS q, r

\* Communities: b and c name two symbols each.
MCSymbolName == <<"a", "b", "b", "c", "d", "c">>
Call(x, y) == [from |-> x, callee |-> MCSymbolName[y], to |-> y]
Unknown(x, name) == [from |-> x, callee |-> name, to |-> Unresolved]
Small ==
  ({Call(x, y) : x, y \in 1 .. 4} \ {Call(x, x) : x \in 2 .. 4})
  \cup {Unknown(x, n) : x \in {1, 2, 4}, n \in {"b", "c"}}
Complete == {Call(1, 2), Call(1, 3), Call(1, 4), Call(2, 3), Call(2, 4), Call(3, 4)}
TwoRings == {Call(1, 2), Call(2, 3), Call(3, 1), Call(4, 5), Call(5, 6), Call(6, 4), Call(3, 4)}
MCGraphs ==
  {{}} \cup {{x, y, z} : x, y, z \in Small} \cup SUBSET Complete
  \cup {TwoRings, TwoRings \ {Call(3, 1)}, TwoRings \ {Call(4, 5)},
        TwoRings \cup {Call(2, 5)}, TwoRings \cup {Unknown(6, "a")}}
MCBranchSymbols == {1 .. 4, {1, 2, 4, 5}, 1 .. 6}
MCChanges == {{1}, {1, 3}, {2, 4, 5}}

\* ContextSearch: the first three results follow or overlap each other in a file.
Span(f, a, b) == [file |-> f, first |-> a, last |-> b]
MCSpanOf == <<Span("f", 1, 4), Span("f", 3, 6), Span("f", 6, 7), Span("g", 1, 2)>>
MCScoreOf == <<2, 3, 1, 2>>
MCCostOf == <<2, 1, 1, 2>>
MCPasses == <<{"directory"}, {"directory", "fileType"}, {}, {"fileType"}>>

\* EditContext: "s" is defined in two files, and once again in the first after a change.
Symbol(name, file, line) == [name |-> name, file |-> file, line |-> line]
Edge(from, to, callee) == [from |-> from, to |-> to, callee |-> callee]
MCDefined == <<Symbol("s", "a", 1), Symbol("s", "x/a", 1), Symbol("t", "b", 1), Symbol("s", "a", 2)>>
MCEndsIn == {<<"x/a", "a">>}
MCEdges == {Edge(3, 1, "s"), Edge(3, Unlinked, "s"), Edge(2, 1, "s"), Edge(1, 3, "t"),
            Edge(4, 4, "s")}
Valid(symbols, edges) ==
  /\ \A e \in edges : e.from \in symbols /\ e.to \in symbols \cup {Unlinked}
  /\ \A e, f \in edges : e.from = f.from /\ e.callee = f.callee => e = f
MCIndexes ==
  UNION {{[symbols |-> symbols, edges |-> edges] :
            edges \in {E \in SUBSET MCEdges : Valid(symbols, E)}} :
           symbols \in {S \in SUBSET (1 .. 4) : ~({1, 4} \subseteq S) /\ Cardinality(S) > 1}}
=============================================================================
