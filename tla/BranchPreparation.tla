-------------------------- MODULE BranchPreparation --------------------------
(***************************************************************************)
(* The impact of a branch or a pull request on the index                   *)
(* (src/src/git/branch-resolution.ts, src/src/git/branch-materialization.ts,*)
(* src/src/tools/changed-files.ts; getPrImpact and indexBranchIfMissing of *)
(* src/src/indexer/index.ts).                                              *)
(*                                                                         *)
(* One call of getPrImpact is modelled, one git command or file operation  *)
(* at a time.  A command fails, at most Faults times in a call, and so   *)
(* does git's own work halfway when its 30 seconds are over.  Between any  *)
(* two of them the branch moves, and another process indexes the same      *)
(* catalog.  Git is external: what its commands do to the refs, to the     *)
(* registration of a worktree and to its directory is modelled from how    *)
(* the code uses them.                                                     *)
(***************************************************************************)
EXTENDS Naturals

CONSTANTS
  Commit,    \* the commits of the branch, numbered in their order
  Kinds,     \* what is asked for: "branch", "remote" (origin/feature), "pr"
  Faults,  \* bound: commands that fail
  NoCommit

ASSUME PreparationBounds ==
  /\ Commit \subseteq Nat /\ NoCommit \notin Commit
  /\ Kinds \subseteq {"branch", "remote", "pr"}
  /\ Faults \in Nat

VARIABLES
  refs,      \* the branch here and at the remote, refs/pull/N/head here
  objects,   \* the commits whose objects are here
  temporary, \* refs/codebase-index/fetch-...
  root,      \* the temporary directory exists
  worktree,  \* the worktree: registered with git, locked, its directory
  catalog,   \* the branch's catalog: whose symbols, labelled with, migrations
  otherRun,  \* the run of another process on this catalog
  impact,    \* the call
  commandsLeft \* how many are left

preparationVars == <<refs, objects, temporary, root, worktree, catalog, otherRun, impact, commandsLeft>>

Known == Commit \cup {NoCommit}
NeverIndexed == [symbols |-> NoCommit, label |-> NoCommit, current |-> FALSE]
Gone == [registered |-> FALSE, locked |-> FALSE, dir |-> FALSE]

repository == <<refs, objects, temporary>>
disposable == <<root, worktree>>
indexState == <<catalog, otherRun>>

Goes(step) == impact' = [impact EXCEPT !.step = step]
\* The call goes on, or a command has failed.
Costs == commandsLeft > 0 /\ commandsLeft' = commandsLeft - 1

Asking == [step |-> "none", kind |-> "branch", expected |-> NoCommit, got |-> NoCommit,
           resolving |-> "head", failed |-> FALSE, untidy |-> FALSE,
           overlooked |-> "nothing", symbols |-> NoCommit, overtaken |-> FALSE]

\* The call throws.  What it has acquired by then is cleaned up, or was not acquired.
Throws == impact' = [impact EXCEPT !.step = "thrown"]
\* It throws while its clean-up has failed, which its error reports.
ThrowsUntidy == impact' = [impact EXCEPT !.step = "thrown", !.untidy = TRUE]
\* It throws an error of its own, and nothing says what it leaves: a ref, or the directory.
ThrowsLeaving(what) == impact' = [impact EXCEPT !.step = "thrown", !.overlooked = what]

-----------------------------------------------------------------------------
(* getChangedFiles: which commit is meant.                                 *)

Asks ==
  /\ impact.step = "none"
  /\ \E kind \in Kinds :
       impact' = [Asking EXCEPT !.step = IF kind = "pr" THEN "gh" ELSE "resolve", !.kind = kind]
  /\ UNCHANGED <<repository, disposable, indexState, commandsLeft>>

\* gh pr view: the head of the pull request at the remote.
GhAnswers ==
  /\ impact.step = "gh" /\ refs.remote # NoCommit
  /\ impact' = [impact EXCEPT !.step = "catalog", !.expected = refs.remote]
  /\ UNCHANGED <<repository, disposable, indexState, commandsLeft>>

\* gh fails; the local refs of the pull request serve when its merge commit names the head.
GhFails ==
  /\ impact.step = "gh" /\ Costs
  /\ \/ /\ refs.pull # NoCommit
        /\ impact' = [impact EXCEPT !.step = "catalog", !.expected = refs.pull]
     \/ Throws
  /\ UNCHANGED <<repository, disposable, indexState>>

-----------------------------------------------------------------------------
(* resolveCommit: for the head of a branch ("head"), and again for the     *)
(* materialisation ("ref"), which knows the commit it must find.           *)

\* The commit is found.
Finds(c) ==
  IF impact.resolving = "head"
  THEN impact' = [impact EXCEPT !.step = "catalog", !.expected = c]
  ELSE impact' = [impact EXCEPT !.step = "root", !.got = c]

\* Seeded fault: the commit that is found is not compared with the one required.
AnyCommit(c) == c # NoCommit

Acceptable(c) == c # NoCommit /\ (impact.resolving = "ref" => c = impact.expected)

\* A pull request's commit: refs/pull/N/head, then the commit itself, if they are here.
LocalPull ==
  IF Acceptable(refs.pull) THEN refs.pull
  ELSE IF impact.expected \in objects THEN impact.expected ELSE NoCommit

\* A pull request that is not here, and a branch of a configured remote, are fetched.
Fetching ==
  \/ impact.kind = "remote"
  \/ impact.kind = "pr" /\ LocalPull = NoCommit

ResolvesRef ==
  /\ impact.step = "resolve"
  /\ IF Fetching THEN Goes("fetch")
     ELSE \E c \in {IF impact.kind = "pr" THEN LocalPull ELSE refs.here} :
          IF Acceptable(c) THEN Finds(c) ELSE Throws
  /\ UNCHANGED <<repository, disposable, indexState, commandsLeft>>

\* rev-parse or git remote fails; for a pull request a ref that is not read is fetched.
ResolveFails ==
  /\ impact.step = "resolve" /\ Costs
  /\ IF impact.kind = "pr" /\ ~Fetching THEN Goes("fetch") ELSE Throws
  /\ UNCHANGED <<repository, disposable, indexState>>

\* git fetch into a ref of this call; it may fail after it has written the ref.
Fetches ==
  /\ impact.step = "fetch"
  /\ IF refs.remote # NoCommit
     THEN /\ temporary' = refs.remote /\ objects' = objects \cup {refs.remote}
          /\ \/ Goes("fetched") /\ UNCHANGED commandsLeft
             \/ /\ Costs
                /\ impact' = [impact EXCEPT !.step = "tidy", !.failed = TRUE, !.got = NoCommit]
     ELSE /\ impact' = [impact EXCEPT !.step = "tidy", !.failed = TRUE, !.got = NoCommit]
          /\ UNCHANGED <<temporary, objects, commandsLeft>>
  /\ UNCHANGED <<refs, disposable, indexState>>

FetchFails ==
  /\ impact.step = "fetch" /\ Costs
  /\ impact' = [impact EXCEPT !.step = "tidy", !.failed = TRUE, !.got = NoCommit]
  /\ UNCHANGED <<repository, disposable, indexState>>

\* The ref is read and compared with the commit that is required.
ReadsFetched ==
  /\ impact.step = "fetched"
  /\ \/ /\ impact' = [impact EXCEPT !.step = "tidy", !.got = temporary,
                                    !.failed = ~Acceptable(temporary)]
        /\ UNCHANGED commandsLeft
     \/ /\ Costs
        /\ impact' = [impact EXCEPT !.step = "tidy", !.failed = TRUE, !.got = NoCommit]
  /\ UNCHANGED <<repository, disposable, indexState>>

\* The ref's commit is known, or it is read now: an unreadable ref is taken for none.
ReadsTemporary ==
  /\ impact.step = "tidy"
  /\ IF impact.got # NoCommit THEN Goes("delete") /\ UNCHANGED commandsLeft
     ELSE \/ /\ IF temporary # NoCommit
                THEN impact' = [impact EXCEPT !.step = "delete", !.got = temporary]
                ELSE Throws
             /\ UNCHANGED commandsLeft
          \/ Costs /\ ThrowsLeaving("ref")
  /\ UNCHANGED <<repository, disposable, indexState>>

DeletesTemporary ==
  /\ impact.step = "delete"
  /\ \/ /\ temporary' = NoCommit
        /\ Goes("deleted") /\ UNCHANGED commandsLeft
     \/ /\ Costs
        /\ ThrowsUntidy /\ UNCHANGED temporary
  /\ UNCHANGED <<refs, objects, disposable, indexState>>

Resolved ==
  /\ impact.step = "deleted"
  /\ IF impact.failed THEN Throws ELSE Finds(impact.got)
  /\ UNCHANGED <<repository, disposable, indexState, commandsLeft>>

-----------------------------------------------------------------------------
(* getPrImpact: the catalog serves, or the commit is materialised.         *)

\* The catalog has symbols, is labelled with the commit, and its migrations are current.
Serves(c) == catalog.symbols # NoCommit /\ catalog.label = c /\ catalog.current

\* A run that ended, or is, between its commit and the label.
Unlabelled == otherRun \in {"committed", "failed", "killed"}

\* The catalog is looked at; the symbols are read afterwards.
LooksUp ==
  /\ impact.step = "catalog"
  /\ impact' = IF Serves(impact.expected) THEN [impact EXCEPT !.step = "answer", !.overtaken = Unlabelled]
               ELSE [impact EXCEPT !.step = "resolve", !.resolving = "ref", !.failed = FALSE,
                                   !.got = NoCommit]
  /\ UNCHANGED <<repository, disposable, indexState, commandsLeft>>

MakesRoot ==
  /\ impact.step = "root"
  /\ \/ root' = TRUE /\ Goes("hooks") /\ UNCHANGED commandsLeft
     \/ Costs /\ Throws /\ UNCHANGED root
  /\ UNCHANGED <<repository, worktree, indexState>>

\* The directory for hooks, before the try: the temporary directory stays when it fails.
MakesHooks ==
  /\ impact.step = "hooks"
  /\ \/ Goes("add") /\ UNCHANGED commandsLeft
     \/ Costs /\ ThrowsLeaving("directory")
  /\ UNCHANGED <<repository, disposable, indexState>>

FailsThenCleans == impact' = [impact EXCEPT !.step = "registered", !.failed = TRUE]

AddsWorktree ==
  /\ impact.step = "add"
  /\ worktree' = [registered |-> TRUE, locked |-> FALSE, dir |-> TRUE]
  /\ Goes("head")
  /\ UNCHANGED <<repository, root, indexState, commandsLeft>>

\* git worktree add fails, or is stopped in its work, when the registration is still locked.
AddFails ==
  /\ impact.step = "add" /\ Costs
  /\ worktree' \in {Gone, [registered |-> TRUE, locked |-> TRUE, dir |-> TRUE],
                    [registered |-> TRUE, locked |-> TRUE, dir |-> FALSE]}
  /\ FailsThenCleans
  /\ UNCHANGED <<repository, root, indexState>>

ChecksHead ==
  /\ impact.step = "head"
  /\ \/ Goes("lease") /\ UNCHANGED commandsLeft
     \/ Costs /\ FailsThenCleans
  /\ UNCHANGED <<repository, disposable, indexState>>

\* The lease of the index; the acquisition does not wait.  A killed run's index is reset.
Acquires ==
  /\ impact.step = "lease"
  /\ IF otherRun = "committed" THEN FailsThenCleans ELSE Goes("index")
  /\ catalog' = IF otherRun = "killed" THEN NeverIndexed ELSE catalog
  /\ otherRun' = IF otherRun = "killed" THEN "idle" ELSE otherRun
  /\ UNCHANGED <<repository, disposable, commandsLeft>>

-----------------------------------------------------------------------------
(* indexBranchIfMissing, under the lease, by an Indexer of its own.        *)

AlreadyIndexed ==
  /\ impact.step = "index" /\ Serves(impact.expected)
  /\ impact' = [impact EXCEPT !.step = "registered", !.overtaken = Unlabelled]
  /\ UNCHANGED <<repository, disposable, indexState, commandsLeft>>

\* The transaction of the run is committed; the commit is stored after it.
IndexesBranch ==
  /\ impact.step = "index" /\ ~Serves(impact.expected)
  /\ catalog' = [catalog EXCEPT !.symbols = impact.got]
  /\ Goes("label")
  /\ UNCHANGED <<repository, disposable, otherRun, commandsLeft>>

BranchIndexingFails ==
  /\ impact.step = "index" /\ Costs
  /\ FailsThenCleans
  /\ UNCHANGED <<repository, disposable, indexState>>

\* saveBranchCommit; the migrations' versions are stored before it.
LabelsBranch ==
  /\ impact.step = "label"
  /\ catalog' = [catalog EXCEPT !.label = impact.expected, !.current = TRUE]
  /\ otherRun' = "idle"
  /\ impact' = [impact EXCEPT !.step = "registered", !.overtaken = FALSE]
  /\ UNCHANGED <<repository, disposable, commandsLeft>>

\* An error after the commit: garbage collection, or a write.
LabellingFails ==
  /\ impact.step = "label" /\ Costs
  /\ otherRun' = "failed"
  /\ FailsThenCleans
  /\ UNCHANGED <<repository, disposable, catalog>>

-----------------------------------------------------------------------------
(* cleanupTemporaryWorktree and removeWorktree.                            *)

Preserves == ThrowsUntidy

\* git worktree list: the first of up to three.
ListsFirst ==
  /\ impact.step = "registered"
  /\ \/ Goes(IF worktree.registered THEN "remove" ELSE "directory") /\ UNCHANGED commandsLeft
     \/ Costs /\ Preserves
  /\ UNCHANGED <<repository, disposable, indexState>>

\* What git worktree remove may leave when it fails.
HalfRemoved == {worktree, [worktree EXCEPT !.dir = FALSE],
                [worktree EXCEPT !.registered = FALSE, !.locked = FALSE]}

\* Seeded fault: the exit of git worktree remove is believed, not the list.
RemovalBelieved ==
  /\ impact.step = "remove"
  /\ \/ worktree' = (IF worktree.locked THEN worktree ELSE Gone) /\ UNCHANGED commandsLeft
     \/ Costs /\ worktree' \in HalfRemoved
  /\ Goes("directory")
  /\ UNCHANGED <<repository, root, indexState>>

\* git worktree remove --force refuses a locked worktree.
Removes ==
  /\ impact.step = "remove"
  /\ \/ worktree' = (IF worktree.locked THEN worktree ELSE Gone) /\ UNCHANGED commandsLeft
     \/ Costs /\ worktree' \in HalfRemoved
  /\ Goes("list")
  /\ UNCHANGED <<repository, root, indexState>>

ListsAgain ==
  /\ impact.step = "list"
  /\ \/ Goes(IF worktree.registered THEN "unlock" ELSE "directory") /\ UNCHANGED commandsLeft
     \/ Costs /\ Preserves
  /\ UNCHANGED <<repository, disposable, indexState>>

\* git worktree unlock, whose failure is nobody's concern, and remove --force --force.
RemovesHard ==
  /\ impact.step = "unlock"
  /\ \/ worktree' = Gone /\ UNCHANGED commandsLeft
     \/ Costs /\ worktree' \in HalfRemoved
  /\ Goes("last")
  /\ UNCHANGED <<repository, root, indexState>>

ListsLast ==
  /\ impact.step = "last"
  /\ \/ /\ IF ~worktree.registered THEN Goes("directory")
           ELSE IF worktree.dir THEN Preserves ELSE Goes("prune")
        /\ UNCHANGED commandsLeft
     \/ Costs /\ Preserves
  /\ UNCHANGED <<repository, disposable, indexState>>

\* pruneExactMissingWorktreeRegistration
Prunes ==
  /\ impact.step = "prune"
  /\ \/ worktree' = Gone /\ Goes("directory") /\ UNCHANGED commandsLeft
     \/ Costs /\ Preserves /\ UNCHANGED worktree
  /\ UNCHANGED <<repository, root, indexState>>

\* The temporary directory goes, with what is in it.
RemovesRoot ==
  /\ impact.step = "directory"
  /\ \/ /\ root' = FALSE /\ worktree' = [worktree EXCEPT !.dir = FALSE]
        /\ IF impact.failed THEN Throws ELSE Goes("answer")
        /\ UNCHANGED commandsLeft
     \/ Costs /\ Preserves /\ UNCHANGED disposable
  /\ UNCHANGED <<repository, indexState>>

\* The index is opened again and the catalog's symbols are read; that they are gone, or
\* cannot be read, is an error.
Responds ==
  /\ impact.step = "answer"
  /\ \/ /\ IF catalog.symbols = NoCommit THEN Throws
           ELSE impact' = [impact EXCEPT !.step = "answered", !.symbols = catalog.symbols]
        /\ UNCHANGED commandsLeft
     \/ Costs /\ Throws
  /\ UNCHANGED <<repository, disposable, indexState>>

-----------------------------------------------------------------------------
(* The others.                                                             *)

\* A push to the branch, here or at the remote.
Moves(where) ==
  /\ impact.step \notin {"answered", "thrown"}
  /\ refs[where] # NoCommit /\ refs[where] + 1 \in Commit
  /\ refs' = [refs EXCEPT ![where] = refs[where] + 1]
  /\ objects' = IF where = "here" THEN objects \cup {refs[where] + 1} ELSE objects
  /\ UNCHANGED <<temporary, disposable, indexState, impact, commandsLeft>>

Leaving == impact.step \in {"index", "label"}   \* this call has the lease

\* A run of another process on this catalog: the commit of its transaction, and its label.
\* It keeps its branch (what a run does that is moved to another is IndexStore!Notice).
OthersCommit ==
  /\ otherRun # "committed" /\ ~Leaving /\ refs.here # NoCommit
  /\ impact.step \notin {"answered", "thrown"}
  /\ catalog' = [catalog EXCEPT !.symbols = refs.here]
  /\ otherRun' = "committed"
  /\ impact' = [impact EXCEPT !.overtaken = TRUE]
  /\ UNCHANGED <<repository, disposable, commandsLeft>>

OthersFail ==
  /\ otherRun = "committed"
  /\ otherRun' \in {"failed", "killed"}
  /\ UNCHANGED <<repository, disposable, catalog, impact, commandsLeft>>

OthersLabel ==
  /\ otherRun = "committed"
  /\ catalog' = [catalog EXCEPT !.label = catalog.symbols, !.current = TRUE]
  /\ otherRun' = "idle"
  /\ UNCHANGED <<repository, disposable, impact, commandsLeft>>

FirstRefs == [here : {NoCommit, 1}, remote : {NoCommit, 1}, pull : {NoCommit, 1}]
FirstCatalogs ==
  {NeverIndexed, [symbols |-> 1, label |-> 1, current |-> FALSE],
   [symbols |-> 1, label |-> 1, current |-> TRUE]}

PreparationInit ==
  /\ refs \in FirstRefs
  /\ objects = {refs.here, refs.pull} \ {NoCommit}
  /\ temporary = NoCommit /\ root = FALSE /\ worktree = Gone
  /\ catalog \in FirstCatalogs
  /\ otherRun = "idle" /\ impact = Asking /\ commandsLeft = Faults

Resolving ==
  \/ Asks \/ GhAnswers \/ GhFails \/ ResolvesRef \/ ResolveFails
  \/ Fetches \/ FetchFails \/ ReadsFetched \/ ReadsTemporary \/ DeletesTemporary \/ Resolved
Materialisation ==
  \/ LooksUp \/ MakesRoot \/ MakesHooks \/ AddsWorktree \/ AddFails \/ ChecksHead \/ Acquires
  \/ AlreadyIndexed \/ IndexesBranch \/ BranchIndexingFails \/ LabelsBranch \/ LabellingFails
CleanUp ==
  \/ ListsFirst \/ Removes \/ ListsAgain \/ RemovesHard \/ ListsLast \/ Prunes \/ RemovesRoot
  \/ Responds
Others == OthersCommit \/ OthersLabel \/ OthersFail \/ \E where \in {"here", "remote"} : Moves(where)

PreparationNext == Resolving \/ Materialisation \/ CleanUp \/ Others
PreparationSpec == PreparationInit /\ [][PreparationNext]_preparationVars
-----------------------------------------------------------------------------
(* Properties.                                                             *)

\* However the commands fail: a call whose error reports no failure of its clean-up has left
\* no ref, no directory and no worktree behind, with two exceptions the code does not report:
\* the ref of a fetch that cannot be read when it should be deleted, and the directory when
\* the one for hooks cannot be made in it.  A directory is never removed while git still has
\* the worktree in it (removeWorktree, cleanupTemporaryWorktree, withMaterializedBranch and
\* fetchCommitThroughTemporaryRef).
NothingLeftBehind ==
  /\ impact.step \in {"answered", "thrown"} /\ ~impact.untidy
     => /\ temporary # NoCommit => impact.step = "thrown" /\ impact.overlooked = "ref"
        /\ root => impact.step = "thrown" /\ impact.overlooked = "directory"
        /\ worktree = Gone
  /\ worktree.registered => root

\* The impact is computed from the symbols of the commit that was asked for, though the
\* branch moves and others index it, unless another run has written the catalog since it
\* was looked at, or a run ended between its commit and the label.
ImpactHonest ==
  impact.step = "answered" => impact.symbols = impact.expected \/ impact.overtaken
=============================================================================
