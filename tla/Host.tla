-------------------------------- MODULE Host --------------------------------
(***************************************************************************)
(* What a process shares with others: the lock of an index, the branches   *)
(* it prepares with git and other runs, the files that it watches and      *)
(* selects while they change, the configuration that others edit too, and  *)
(* the stores that native calls leave half changed.  The parts share no    *)
(* variable, so that their product would say nothing that each of them     *)
(* does not: in a behaviour one part acts and the others stay where they   *)
(* began.                                                                  *)
(***************************************************************************)
EXTENDS IndexLock, BranchPreparation, Watchers, Selection, Configuration, ChunkStores

VARIABLE part   \* the part that acts

Parts ==
  {"lock", "preparation", "watchers", "selection", "configuration", "stores"}

\* A part that does not act has one beginning.
One(p, S) == IF part = p THEN S ELSE {CHOOSE x \in S : TRUE}

HostInit ==
  /\ part \in Parts
  /\ lock \in One("lock", {None, Legacy}) /\ Init
  /\ refs \in One("preparation", FirstRefs) /\ catalog \in One("preparation", FirstCatalogs)
  /\ PreparationInit
  /\ head \in One("watchers", Branches) /\ WatchersInit
  /\ disk \in One("selection", Disks) /\ SelectionInit
  /\ \E layout \in One("configuration", Layouts) : config = layout.files /\ built = layout.indexes
  /\ ConfigurationInit
  /\ StoresInit

Still(p) ==
  /\ p # "lock" => UNCHANGED vars
  /\ p # "preparation" => UNCHANGED preparationVars
  /\ p # "watchers" => UNCHANGED watchersVars
  /\ p # "selection" => UNCHANGED selectionVars
  /\ p # "configuration" => UNCHANGED configurationVars
  /\ p # "stores" => UNCHANGED storesVars
  /\ UNCHANGED part

HostNext ==
  \/ part = "lock" /\ Next /\ Still("lock")
  \/ part = "preparation" /\ PreparationNext /\ Still("preparation")
  \/ part = "watchers" /\ WatchersNext /\ Still("watchers")
  \/ part = "selection" /\ SelectionNext /\ Still("selection")
  \/ part = "configuration" /\ ConfigurationNext /\ Still("configuration")
  \/ part = "stores" /\ StoresNext /\ Still("stores")

HostSpec ==
  HostInit
  /\ [][HostNext]_<<part, vars, preparationVars, watchersVars, selectionVars, configurationVars,
                    storesVars>>
=============================================================================
