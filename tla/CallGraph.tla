----------------------------- MODULE CallGraph -----------------------------
(***************************************************************************)
(* The call graph of native/src/db/call_graph.rs: the tables symbols,      *)
(* call_edges and branch_symbols as sets, its statements as operators on   *)
(* them, and find_shortest_path.  A symbol's id is a hash of its file, the *)
(* file's contents, and its name: here the record of the three.  An edge's *)
(* id is its caller and the name it calls.                                 *)
(***************************************************************************)
EXTENDS Naturals, Sequences, FiniteSets, SequencesExt

CONSTANTS
  LanguageOf,        \* the language of each file
  CaseInsensitive,   \* apex and php
  Fold,              \* a name without its case
  NoSymbol           \* to_symbol_id is NULL

NamesMatch(s, x, y) ==
  IF LanguageOf[s.file] \in CaseInsensitive THEN Fold[x] = Fold[y] ELSE x = y

-----------------------------------------------------------------------------
\* What a file adds to the graph

SymbolsOf(f, v, names) == {[file |-> f, version |-> v, name |-> n] : n \in names}

\* A call is resolved to a symbol of its own file if that has exactly one of the name.
Resolved(own, name) ==
  LET named == {t \in own : NamesMatch(t, t.name, name)}
  IN  IF Cardinality(named) = 1 THEN CHOOSE t \in named : TRUE ELSE NoSymbol

\* A call site belongs to the symbol around it.
EdgesOf(own, calls) ==
  {[from |-> x[1], callee |-> x[2][2], to |-> Resolved(own, x[2][2])]
   : x \in {y \in own \X calls : y[1].name = y[2][1]}}

-----------------------------------------------------------------------------
\* The statements

\* INSERT OR REPLACE INTO symbols: replacing a row deletes the old one, and the
\* edges that leave it with it (ON DELETE CASCADE).
EdgesAfterSymbols(edges, put) == {e \in edges : e.from \notin put}

\* INSERT OR REPLACE INTO call_edges
PutEdges(edges, put) ==
  put \cup {e \in edges : \A n \in put : n.from # e.from \/ n.callee # e.callee}

ClearTargets(edges, gone) ==
  {IF e.to \in gone THEN [e EXCEPT !.to = NoSymbol] ELSE e : e \in edges}

Listed(listed) == UNION {listed[b] : b \in DOMAIN listed}

GcSymbols(symbols, listed) == symbols \cap Listed(listed)
GcSymbolEdges(edges, listed) == {e \in edges : e.from \in Listed(listed)}
GcEdges(edges, symbols) == {e \in edges : e.from \in symbols}

\* Seeded fault: the join on branch_symbols is left out.
CallersAnywhere(symbols, edges, onBranch, name) ==
  {e \in edges : e.from \in symbols /\ NamesMatch(e.from, e.callee, name)}
Callers(symbols, edges, onBranch, name) ==
  {e \in edges : e.from \in symbols \cap onBranch /\ NamesMatch(e.from, e.callee, name)}

Callees(symbols, edges, onBranch, s) ==
  {e \in edges : e.from = s /\ s \in symbols \cap onBranch}

-----------------------------------------------------------------------------
\* find_shortest_path: a breadth-first search from the only symbol of one name
\* to a call of another name.  A state of the search is the queue, the parent
\* of every symbol visited, and the target once it is found.

\* The symbols a name may mean to a caller, on the branch.
Named(caller, visible, name) == {t \in visible : NamesMatch(caller, t.name, name)}

\* The synthetic target of a call to a name that has no symbol on the branch.
External(name) == [file |-> "", version |-> 0, name |-> name]

\* Where an edge goes: its target if the branch has it, or the only symbol of
\* the name.
Resolution(e, visible) ==
  IF e.to # NoSymbol THEN {e.to} \cap visible
  ELSE LET named == Named(e.from, visible, e.callee)
       IN  IF Cardinality(named) = 1 THEN named ELSE {}

\* The symbol that a call of the name sought reaches: none when it is ambiguous.
Target(e, visible, name) ==
  LET named == Named(e.from, visible, name)
  IN  IF named = {} THEN {External(e.callee)}
      ELSE IF e.to # NoSymbol THEN {e.to} \cap named
      ELSE IF Cardinality(named) = 1 THEN named ELSE {}

Seen(search) == {p[1] : p \in search.parent}

\* Seeded fault: the last symbol found is the next to be looked at.
LookDeep(search, e, depth, visible, name) ==
  LET reached == IF NamesMatch(e.from, e.callee, name)
                 THEN Target(e, visible, name) \ Seen(search) ELSE {}
      onward  == Resolution(e, visible) \ Seen(search)
  IN  IF search.found # {} THEN search
      ELSE IF reached # {}
      THEN [search EXCEPT !.found = reached, !.parent = @ \cup {<<t, e.from>> : t \in reached}]
      ELSE [search EXCEPT !.parent = @ \cup {<<t, e.from>> : t \in onward},
                          !.queue = SetToSeq({<<t, depth + 1>> : t \in onward}) \o @]

\* One callee of the symbol in hand.
Look(search, e, depth, visible, name) ==
  LET reached == IF NamesMatch(e.from, e.callee, name)
                 THEN Target(e, visible, name) \ Seen(search) ELSE {}
      onward  == Resolution(e, visible) \ Seen(search)
  IN  IF search.found # {} THEN search
      ELSE IF reached # {}
      THEN [search EXCEPT !.found = reached, !.parent = @ \cup {<<t, e.from>> : t \in reached}]
      ELSE [search EXCEPT !.parent = @ \cup {<<t, e.from>> : t \in onward},
                          !.queue = @ \o SetToSeq({<<t, depth + 1>> : t \in onward})]

\* All the callees of the symbol at the head of the queue.
Expand(search, symbols, edges, visible, name, maxDepth) ==
  LET s == Head(search.queue)[1]
      depth == Head(search.queue)[2]
      callees == SetToSeq(Callees(symbols, edges, visible, s))
      Looked[i \in 0 .. Len(callees)] ==
        IF i = 0 THEN [search EXCEPT !.queue = Tail(@)]
        ELSE LET before == Looked[i - 1] IN Look(before, callees[i], depth, visible, name)
  IN  IF depth >= maxDepth THEN [search EXCEPT !.queue = Tail(@)]
      ELSE Looked[Len(callees)]

\* The path from a symbol back to where the search began.
Back(search, s) ==
  LET Up[i \in Nat] ==
        IF i = 0 THEN <<s>>
        ELSE LET below == Up[i - 1]
                 above == {p \in search.parent : p[1] = below[1] /\ p[2] # NoSymbol}
             IN  IF above = {} THEN below ELSE <<(CHOOSE p \in above : TRUE)[2]>> \o below
  IN  Up[Cardinality(search.parent)]

FindShortestPath(symbols, edges, onBranch, from, to, maxDepth) ==
  LET visible == symbols \cap onBranch
      starts == {s \in visible : NamesMatch(s, s.name, from)}
      start == CHOOSE s \in starts : TRUE
      After[n \in Nat] ==
        IF n = 0 THEN [queue |-> <<<<start, 0>>>>, parent |-> {<<start, NoSymbol>>}, found |-> {}]
        ELSE LET before == After[n - 1]
             IN  IF before.found # {} \/ before.queue = <<>> THEN before
                 ELSE Expand(before, symbols, edges, visible, to, maxDepth)
      end == After[Cardinality(visible)]
  IN  IF Cardinality(starts) # 1 \/ end.found = {} THEN <<>>
      ELSE Back(end, CHOOSE t \in end.found : TRUE)
=============================================================================
