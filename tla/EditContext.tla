----------------------------- MODULE EditContext -----------------------------
(***************************************************************************)
(* The context that is given before an edit (src/src/tools/                *)
(* edit-context.ts) and the call-graph questions it asks (operations.ts,   *)
(* index.ts).  A symbol is resolved by name and file, its callers are      *)
(* read, then its definition and its callees at the same time; the index   *)
(* may be replaced before each read, and each read may fail.               *)
(*                                                                         *)
(* The symbols' ids are the model's numbers; a file that is indexed anew   *)
(* gives its symbols new ids.  Everything is on one branch.                *)
(***************************************************************************)
EXTENDS Naturals, FiniteSets, FiniteSetsExt

CONSTANTS
  Defined,         \* a symbol's [name, file, line], by its id
  EndsIn,          \* pairs of files: the first's path ends in the second's
  Indexes,         \* the contents an index may have: [symbols, edges]
  Target,          \* the name asked for
  NoHint,          \* no filePath in the request
  Unlinked,        \* an edge without a target symbol
  EdgeLimit,       \* callerLimit and calleeLimit
  Reindexings      \* bound: replacements of the index

\* An index has finitely many symbols; a path is never the absence of one.
ASSUME IndexesAssumption ==
  /\ \A i \in Indexes : i.symbols \subseteq DOMAIN Defined /\ IsFiniteSet(i.symbols)
  /\ \A s \in DOMAIN Defined : Defined[s].file # NoHint
  /\ Reindexings \in Nat

VARIABLES
  index,   \* what is published
  reindexed,
  edit     \* the request in progress

editVars == <<index, reindexed, edit>>

FileOfSymbol(s) == Defined[s].file
NamedIn(symbols, name) == {s \in symbols : Defined[s].name = name}

\* filePathMatches: the whole path, or its end if the request is relative.
FileMatches(file, hint) == file = hint \/ <<file, hint>> \in EndsIn
\* pathsMatch: the same in both directions.
PathsMatch(f, g) == FileMatches(f, g) \/ FileMatches(g, f)

\* resolveCallGraphSymbol: only a single match is taken.
Matches(symbols, hint) ==
  {s \in NamedIn(symbols, Target) : hint = NoHint \/ FileMatches(FileOfSymbol(s), hint)}

Resolution(symbols, hint) ==
  LET matches == Matches(symbols, hint)
  IN IF Cardinality(matches) = 1 THEN [status |-> "resolved", symbol |-> CHOOSE s \in matches : TRUE]
     ELSE [status |-> IF matches = {} THEN "not_found" ELSE "ambiguous"]

\* getCallersForSymbol, with the calls of the name that are bound to no symbol if the
\* symbols read before had the name only once.
CallersForSymbol(s, unresolved) ==
  IF s \notin index.symbols THEN {}
  ELSE {e \in index.edges : /\ e.from \in index.symbols /\ e.callee = Defined[s].name
                            /\ e.to = s \/ (unresolved /\ e.to = Unlinked)}

Callees(s) == {e \in index.edges : e.from = s /\ s \in index.symbols}

\* targetSource: no chunk or one, of the file around the line, or else of the name; which one
\* comes first is up to the search.
TargetSource(chunks, s) ==
  LET ofFile == {c \in chunks : PathsMatch(FileOfSymbol(c), FileOfSymbol(s))}
      around == {c \in ofFile : Defined[c].line = Defined[s].line}
      named == {c \in ofFile : Defined[c].name = Defined[s].name}
      first == IF around # {} THEN around ELSE named
  IN IF first = {} THEN {{}} ELSE {{c} : c \in first}

Some(edges) == {part \in SUBSET edges : Cardinality(part) = Min({EdgeLimit, Cardinality(edges)})}

-----------------------------------------------------------------------------
(* Another index is published while a request is in progress.               *)

Reindexed ==
  /\ reindexed < Reindexings /\ reindexed' = reindexed + 1
  /\ \E other \in Indexes \ {index} : index' = other
  /\ edit' = IF edit.step = "idle" THEN edit ELSE [edit EXCEPT !.steady = FALSE]

IndexStays == UNCHANGED <<index, reindexed>>

EditRequested ==
  /\ edit.step = "idle" /\ IndexStays
  /\ \E hint \in {NoHint} \cup {FileOfSymbol(s) : s \in NamedIn(DOMAIN Defined, Target)} :
       edit' = [step |-> "resolves", hint |-> hint, steady |-> TRUE]

\* No symbol in the request: nothing but conceptual evidence.
EditWithoutSymbol ==
  /\ edit.step = "idle" /\ IndexStays
  /\ edit' = [step |-> "fallback", status |-> "not_requested", hint |-> NoHint, steady |-> TRUE]

\* The symbols are read: getCallGraphDataForIndexer in the direction of the callers.
Resolves ==
  /\ edit.step = "resolves" /\ IndexStays
  /\ \E resolution \in {Resolution(index.symbols, edit.hint)} :
       edit' = IF resolution.status # "resolved"
               THEN [step |-> "fallback", status |-> resolution.status, hint |-> edit.hint,
                     steady |-> edit.steady]
               ELSE [step |-> "callers", hint |-> edit.hint, steady |-> edit.steady,
                     symbol |-> resolution.symbol,
                     unresolved |-> Cardinality(NamedIn(index.symbols, Target)) = 1]

ReadsCallers ==
  /\ edit.step = "callers" /\ IndexStays
  /\ edit' = [step |-> "settles", hint |-> edit.hint, steady |-> edit.steady,
              symbol |-> edit.symbol, callers |-> CallersForSymbol(edit.symbol, edit.unresolved),
              definition |-> [at |-> "asked"], callees |-> [at |-> "asked"]]

\* An error before the callers are there: what the definition lookup finds is the evidence.
GraphUnavailable ==
  /\ edit.step \in {"resolves", "callers"} /\ IndexStays
  /\ edit' = [step |-> "fallback", status |-> "graph_unavailable", hint |-> edit.hint,
              steady |-> edit.steady]

\* The definitions: chunks of symbols of the name, as a search finds them.
ReadsDefinition ==
  /\ edit.step = "settles" /\ edit.definition.at = "asked" /\ IndexStays
  /\ \E found \in SUBSET NamedIn(index.symbols, Target) :
     \E source \in TargetSource(found, edit.symbol) :
       edit' = [edit EXCEPT !.definition = [at |-> "read", source |-> source]]

\* It fails: once both have settled the request fails with it.
DefinitionFails ==
  /\ edit.step = "settles" /\ edit.definition.at = "asked" /\ IndexStays
  /\ edit' = [edit EXCEPT !.definition = [at |-> "failed"]]

\* Seeded fault: the callees are asked for by the name alone when no file was given.
ByName(hint, s) == hint
\* The file for the callees is the request's, or that of the symbol it was resolved to.
CalleeFile(hint, s) == IF hint # NoHint THEN hint ELSE FileOfSymbol(s)

\* The symbols are read once more.
ResolvesCallees ==
  /\ edit.step = "settles" /\ edit.callees.at = "asked" /\ IndexStays
  /\ \E resolution \in {Resolution(index.symbols, CalleeFile(edit.hint, edit.symbol))} :
       edit' = [edit EXCEPT !.callees =
                  IF resolution.status = "resolved" THEN [at |-> "resolved", of |-> resolution.symbol]
                                                     ELSE [at |-> "risk"]]

ReadsCallees ==
  /\ edit.step = "settles" /\ edit.callees.at = "resolved" /\ IndexStays
  /\ edit' = [edit EXCEPT !.callees = [at |-> "read", edges |-> Callees(edit.callees.of)]]

CalleesFail ==
  /\ edit.step = "settles" /\ edit.callees.at \in {"asked", "resolved"} /\ IndexStays
  /\ edit' = [edit EXCEPT !.callees = [at |-> "risk"]]

\* Both have settled.
EditAnswered ==
  /\ edit.step = "settles" /\ edit.definition.at # "asked" /\ edit.callees.at \in {"read", "risk"} /\ IndexStays
  /\ IF edit.definition.at = "failed" THEN edit' = [step |-> "idle"]
     ELSE \E callers \in Some(edit.callers),
             callees \in IF edit.callees.at = "risk" THEN {{}} ELSE Some(edit.callees.edges) :
            edit' = [edit EXCEPT !.step = "answered", !.callers = callers,
                                 !.callees = [risk |-> edit.callees.at = "risk", edges |-> callees]]

EditEnds ==
  /\ edit.step \in {"answered", "fallback"} /\ IndexStays
  /\ edit' = [step |-> "idle"]

EditInit ==
  /\ index \in Indexes /\ reindexed = 0
  /\ edit = [step |-> "idle"]

EditNext ==
  \/ Reindexed \/ EditRequested \/ EditWithoutSymbol \/ Resolves \/ ReadsCallers
  \/ GraphUnavailable \/ ReadsDefinition \/ DefinitionFails \/ ResolvesCallees
  \/ ReadsCallees \/ CalleesFail \/ EditAnswered \/ EditEnds

EditSpec == EditInit /\ [][EditNext]_editVars
-----------------------------------------------------------------------------
(* Properties.                                                              *)

\* While the index stays as it is, an answer that names a symbol is about the only one
\* that the request can mean, with as many of its calls, in both directions, as the limits
\* allow or a statement that they are missing; a request that is refused as ambiguous has
\* several symbols to choose from, and one that is not found has none.
SteadyEdit ==
  edit.steady =>
    CASE edit.step = "answered" ->
           /\ Matches(index.symbols, edit.hint) = {edit.symbol}
           /\ edit.callers \in Some(CallersForSymbol(edit.symbol,
                                      Cardinality(NamedIn(index.symbols, Target)) = 1))
           /\ edit.callees.risk \/ edit.callees.edges \in Some(Callees(edit.symbol))
      [] edit.step = "fallback" ->
           /\ edit.status = "ambiguous" => Cardinality(Matches(index.symbols, edit.hint)) > 1
           /\ edit.status = "not_found" => Matches(index.symbols, edit.hint) = {}
      [] OTHER -> TRUE

\* Even when the index changes between the reads, the callers call the symbol that is
\* named, the callees are those of a symbol of the name in a file the request, or else the
\* symbol's own path, allows, and the source is of a file whose path agrees with it.
MovingEdit ==
  edit.step = "answered" =>
    /\ \A e \in edit.callers : e.to \in {edit.symbol, Unlinked} /\ e.callee = Target
    /\ \A e \in edit.callees.edges :
         /\ Defined[e.from].name = Target
         /\ FileMatches(FileOfSymbol(e.from),
                        IF edit.hint = NoHint THEN FileOfSymbol(edit.symbol) ELSE edit.hint)
    /\ \A c \in edit.definition.source : PathsMatch(FileOfSymbol(c), FileOfSymbol(edit.symbol))

EditHonest == edit.step # "idle" => SteadyEdit /\ MovingEdit
=============================================================================
