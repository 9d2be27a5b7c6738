----------------------------- MODULE HostProofs -----------------------------
(***************************************************************************)
(* Proofs about four parts of what a process shares with others.           *)
(*                                                                         *)
(* The watchers: no change is lost (NoChangeLost), for any number of       *)
(* changes and any set of branches.  The invariant says where a change is  *)
(* that no request covers yet: held back by chokidar, in the batch whose   *)
(* debounce runs, unnoticed, or in a configuration that cannot be read.    *)
(* At rest only the last two are left.                                     *)
(*                                                                         *)
(* The preparation of a branch: it leaves nothing behind                   *)
(* (NothingLeftBehind), and the impact is computed from the commit that    *)
(* was asked for (ImpactHonest), for any commits, any kinds of requests    *)
(* and any number of commands that fail.  The first invariant says in      *)
(* which steps of the call each of the three things it makes may be there: *)
(* the temporary ref, the temporary directory, the worktree.  The second   *)
(* follows the commit: the catalog is labelled with what it holds unless a *)
(* run is between the two, and from the step that has found or made the    *)
(* catalog of the commit on it is that of the commit, unless another run   *)
(* has overtaken the call.                                                 *)
(*                                                                         *)
(* The configuration: where an index is (IndexInherited), for any files,   *)
(* checkouts and hosts, and what an edit changes (EditKeepsRest).  The     *)
(* invariant says of an edit that nobody has overtaken what it would make  *)
(* the session read if it were written now: what was read before, but for  *)
(* the folder it names.                                                    *)
(*                                                                         *)
(* The selection of files: once a walk has ended, what it has collected is *)
(* what its rules select (SelectionHonest), for any tree, patterns and     *)
(* limits.  The invariant says of a file that has been there since the     *)
(* walk began that it is collected, crowded out by smaller ones, below a   *)
(* folder that is still to be read, or of a root that is reported.         *)
(***************************************************************************)
EXTENDS BranchPreparation, Watchers, Configuration, Selection, WellFoundedInduction,
        SequenceTheorems, FiniteSetTheorems, TLAPS

-----------------------------------------------------------------------------
(* The watchers.                                                           *)

\* What NoChangeLost and the steps of the watchers need of the types.
WatchersTypes ==
  /\ watcher \in [state : {"starting", "ready", "none"}, polling : BOOLEAN]
  /\ settings \in [n : Nat, valid : BOOLEAN]
  /\ git \in [state : {"starting", "ready", "none"}, event : BOOLEAN, timer : BOOLEAN,
              branch : Branches]
  /\ head \in Branches
  /\ unwritten \subseteq Sources /\ pending \subseteq Sources
  /\ debounce \in BOOLEAN

Underway == unwritten \cup pending

\* A batch has its timer.
BatchTimed == pending # {} => debounce

\* Changes of sources are covered, or on their way, or a configuration is whose flush
\* will cover them, or the configuration has dropped them.
SourcesFollowed ==
  \/ told = tree \/ Underway # {} \/ missed \cap Sources # {} \/ ~settings.valid

\* So is the configuration.
ConfigFollowed ==
  \/ applied = settings.n \/ "config" \in Underway \cup missed \/ ~settings.valid

\* So is HEAD, by an event or a timer.
HeadFollowed == git.branch = head \/ "head" \in missed \/ git.event \/ git.timer

WatchersInv ==
  /\ WatchersTypes
  /\ Watching => BatchTimed /\ SourcesFollowed /\ ConfigFollowed /\ HeadFollowed

\* The watchers begin with nothing to report.
LEMMA WatchersStart == WatchersInit => WatchersInv
<1> SUFFICES ASSUME WatchersInit PROVE WatchersInv
  OBVIOUS
<1> USE DEF WatchersInit
<1>1. PICK b \in Branches :
        /\ head = b
        /\ git = [state |-> "starting", event |-> FALSE, timer |-> FALSE, branch |-> b]
  OBVIOUS
<1>2. WatchersTypes
  BY <1>1 DEF WatchersTypes, Sources
<1>3. BatchTimed /\ SourcesFollowed /\ ConfigFollowed
  BY DEF BatchTimed, SourcesFollowed, ConfigFollowed
<1>4. HeadFollowed
  BY <1>1 DEF HeadFollowed
<1>5. QED BY <1>2, <1>3, <1>4 DEF WatchersInv

\* A change of the project is noticed or missed.
LEMMA ChangesFollowed ==
  ASSUME WatchersInv, EditSource \/ EditConfig \/ Checkout
  PROVE  WatchersInv'
<1> USE DEF WatchersInv, WatchersTypes, BatchTimed, Underway, Sources, Watching
<1>1. CASE EditSource
  BY <1>1 DEF EditSource, Observed, SourcesFollowed, ConfigFollowed, HeadFollowed
<1>2. CASE EditConfig
  <2>1. PICK valid \in BOOLEAN : settings' = [n |-> settings.n + 1, valid |-> valid]
    BY <1>2 DEF EditConfig
  <2>2. Observed("config")
        /\ UNCHANGED <<tree, head, told, applied, watcher, pending, debounce, git>>
    BY <1>2 DEF EditConfig
  <2>3. WatchersTypes'
    <3>1. settings' \in [n : Nat, valid : BOOLEAN]
      BY <2>1
    <3>2. unwritten' \subseteq Sources
      BY <2>2 DEF Observed
    <3>3. QED BY <2>2, <3>1, <3>2
  <2>4. Watching => "config" \in unwritten' \cup missed'
    BY <2>2 DEF Observed
  <2>5. missed \subseteq missed'
    BY <2>2 DEF Observed
  <2>6. Watching' => (BatchTimed /\ SourcesFollowed /\ ConfigFollowed /\ HeadFollowed)'
    BY <2>2, <2>4, <2>5 DEF SourcesFollowed, ConfigFollowed, HeadFollowed
  <2>7. QED BY <2>3, <2>6
<1>3. CASE Checkout
  <2>1. CASE git' = [git EXCEPT !.event = TRUE] /\ UNCHANGED missed
    <3>1. WatchersTypes'
      BY <1>3, <2>1 DEF Checkout
    <3>2. git'.event
      BY <2>1
    <3>3. QED BY <1>3, <2>1, <3>1, <3>2 DEF Checkout, SourcesFollowed, ConfigFollowed, HeadFollowed
  <2>2. CASE missed' = missed \cup {"head"} /\ UNCHANGED git
    <3>1. WatchersTypes'
      BY <1>3, <2>2 DEF Checkout
    <3>2. QED BY <1>3, <2>2, <3>1 DEF Checkout, SourcesFollowed, ConfigFollowed, HeadFollowed
  <2>3. QED BY <1>3, <2>1, <2>2 DEF Checkout
<1>4. QED BY <1>1, <1>2, <1>3

\* FileWatcher passes on what it has been told, and its fallback what it has collected.
LEMMA FilesFollowed ==
  ASSUME WatchersInv,
         WatcherReady \/ Exhausted \/ Flush \/ \E source \in Sources : HandleChange(source)
  PROVE  WatchersInv'
<1> USE DEF WatchersInv, WatchersTypes, BatchTimed, Underway, Sources, Watching, changes
<1>1. CASE WatcherReady
  BY <1>1 DEF WatcherReady, SourcesFollowed, ConfigFollowed, HeadFollowed
<1>2. CASE Exhausted
  BY <1>2 DEF Exhausted, SourcesFollowed, ConfigFollowed, HeadFollowed
<1>3. CASE Flush
  <2>1. CASE pending = {} \/ ("config" \in pending /\ ~settings.valid)
    BY <1>3, <2>1 DEF Flush, SourcesFollowed, ConfigFollowed, HeadFollowed
  <2>2. CASE ~(pending = {} \/ ("config" \in pending /\ ~settings.valid))
    <3>1. told' = tree /\ missed' = missed \ (pending \cup {"source"})
      BY <1>3, <2>2 DEF Flush, RequestReindex
    <3>2. applied' = IF "config" \in pending THEN settings.n ELSE applied
      BY <1>3, <2>2 DEF Flush
    <3>3. "head" \notin pending
      OBVIOUS
    <3>4. QED
      BY <1>3, <3>1, <3>2, <3>3 DEF Flush, SourcesFollowed, ConfigFollowed, HeadFollowed
  <2>3. QED BY <2>1, <2>2
<1>4. ASSUME NEW source \in Sources, HandleChange(source) PROVE WatchersInv'
  BY <1>4 DEF HandleChange, SourcesFollowed, ConfigFollowed, HeadFollowed
<1>5. QED BY <1>1, <1>2, <1>3, <1>4

\* GitHeadWatcher takes the branch that HEAD has when its timer fires.
LEMMA HeadsFollowed ==
  ASSUME WatchersInv, GitReady \/ HandleHeadChange \/ CheckBranchChange \/ StopWatching
  PROVE  WatchersInv'
<1> USE DEF WatchersInv, WatchersTypes, BatchTimed, Underway, Sources, Watching, changes
<1>1. CASE GitReady
  BY <1>1 DEF GitReady, SourcesFollowed, ConfigFollowed, HeadFollowed
<1>2. CASE HandleHeadChange
  BY <1>2 DEF HandleHeadChange, SourcesFollowed, ConfigFollowed, HeadFollowed
<1>3. CASE CheckBranchChange
  BY <1>3 DEF CheckBranchChange, RequestReindex, SourcesFollowed, ConfigFollowed, HeadFollowed
<1>4. CASE StopWatching
  BY <1>4 DEF StopWatching
<1>5. QED BY <1>1, <1>2, <1>3, <1>4

LEMMA WatchersStep == WatchersInv /\ [WatchersNext]_watchersVars => WatchersInv'
<1> SUFFICES ASSUME WatchersInv, [WatchersNext]_watchersVars PROVE WatchersInv'
  OBVIOUS
<1>1. CASE WatchersNext
  BY <1>1, ChangesFollowed, FilesFollowed, HeadsFollowed DEF WatchersNext, Reports
<1>2. CASE UNCHANGED watchersVars
  BY <1>2 DEF watchersVars, WatchersInv, WatchersTypes, Watching, BatchTimed, Underway,
              SourcesFollowed, ConfigFollowed, HeadFollowed
<1>3. QED BY <1>1, <1>2

\* At rest nothing is under way.
LEMMA RestTold == WatchersInv => NoChangeLost
  BY DEF WatchersInv, WatchersTypes, BatchTimed, Underway, Sources, SourcesFollowed,
         ConfigFollowed, HeadFollowed, NoChangeLost, AtRest, AllTold, Watching

\* When the watchers have come to rest, all changes that chokidar noticed are reported
\* (FileWatcher, GitHeadWatcher and their handler in createWatcherWithIndexer).
THEOREM ChangesReported == WatchersSpec => []NoChangeLost
<1>1. WatchersSpec => []WatchersInv
  BY WatchersStart, WatchersStep, PTL DEF WatchersSpec
<1>2. QED BY <1>1, RestTold, PTL

-----------------------------------------------------------------------------
(* The preparation of a branch.                                            *)

\* The steps that need the temporary directory: before the worktree, in it, and while
\* it is removed.
Rooted == {"hooks", "add"}
Checked == {"head", "lease", "index", "label"}
Cleaned == {"registered", "remove", "list", "unlock", "last", "prune"}
Placed == Rooted \cup Checked \cup Cleaned \cup {"directory"}

\* The fields that the steps write one by one.
Shapes ==
  /\ DOMAIN impact = DOMAIN Asking
  /\ DOMAIN catalog = DOMAIN NeverIndexed
  /\ worktree \in [registered : BOOLEAN, locked : BOOLEAN, dir : BOOLEAN]

\* Only a call that has thrown is untidy, or leaves what it does not report.
UntidyThrown == impact.untidy \/ impact.overlooked # "nothing" => impact.step = "thrown"

\* The ref of a fetch is there until it is deleted, or the call could not delete or read it.
TemporaryKept ==
  temporary # NoCommit =>
    impact.step \in {"fetched", "tidy", "delete"} \/ impact.untidy \/ impact.overlooked = "ref"

\* The directory is there in the steps that use it, and in no other unless it could not
\* be removed, or the one for hooks not be made.
RootKept ==
  /\ impact.step \in Placed => root
  /\ root => impact.step \in Placed \/ impact.untidy \/ impact.overlooked = "directory"

\* The worktree is in the directory, and git forgets it first.
WorktreeKept ==
  /\ worktree.locked => worktree.registered
  /\ worktree.registered \/ worktree.dir => root
  /\ worktree.registered => impact.step \in Checked \cup Cleaned \/ impact.untidy
  /\ worktree.dir => impact.step \in Checked \cup Cleaned \cup {"directory"} \/ impact.untidy

TidyInv == Shapes /\ UntidyThrown /\ TemporaryKept /\ RootKept /\ WorktreeKept

\* Whatever git worktree remove leaves, it adds nothing.
LEMMA RemovedKeeps ==
  ASSUME worktree \in [registered : BOOLEAN, locked : BOOLEAN, dir : BOOLEAN],
         worktree.locked => worktree.registered,
         worktree' = worktree \/ worktree' = Gone \/ worktree' \in HalfRemoved
  PROVE  /\ worktree' \in [registered : BOOLEAN, locked : BOOLEAN, dir : BOOLEAN]
         /\ worktree'.locked => worktree'.registered
         /\ worktree'.registered => worktree.registered
         /\ worktree'.dir => worktree.dir
<1>1. CASE worktree' = worktree
  BY <1>1
<1>2. CASE worktree' = Gone
  BY <1>2 DEF Gone
<1>3. CASE worktree' = [worktree EXCEPT !.dir = FALSE]
  BY <1>3
<1>4. CASE worktree' = [worktree EXCEPT !.registered = FALSE, !.locked = FALSE]
  BY <1>4
<1>5. QED BY <1>1, <1>2, <1>3, <1>4 DEF HalfRemoved

\* What a step that goes on writes of the call.
LEMMA GoesOn ==
  ASSUME DOMAIN impact = DOMAIN Asking, NEW step, Goes(step)
  PROVE  /\ DOMAIN impact' = DOMAIN impact /\ impact'.step = step
         /\ impact'.kind = impact.kind /\ impact'.expected = impact.expected
         /\ impact'.got = impact.got /\ impact'.resolving = impact.resolving
         /\ impact'.failed = impact.failed /\ impact'.untidy = impact.untidy /\ impact'.overlooked = impact.overlooked
         /\ impact'.overtaken = impact.overtaken
BY DEF Goes, Asking

\* What an error writes.
LEMMA ThrowsOn ==
  ASSUME DOMAIN impact = DOMAIN Asking, Throws
  PROVE  DOMAIN impact' = DOMAIN impact /\ impact'.step = "thrown" /\ impact'.untidy = impact.untidy /\ impact'.overlooked = impact.overlooked
BY DEF Throws, Asking

\* An error of the clean-up.
LEMMA UntidyOn ==
  ASSUME DOMAIN impact = DOMAIN Asking, ThrowsUntidy
  PROVE  DOMAIN impact' = DOMAIN impact /\ impact'.step = "thrown" /\ impact'.untidy
         /\ impact'.overlooked = impact.overlooked
BY DEF ThrowsUntidy, Asking

\* An error that does not say what it leaves.
LEMMA LeavingOn ==
  ASSUME DOMAIN impact = DOMAIN Asking, NEW what, ThrowsLeaving(what)
  PROVE  /\ DOMAIN impact' = DOMAIN impact /\ impact'.step = "thrown"
         /\ impact'.untidy = impact.untidy /\ impact'.overlooked = what
BY DEF ThrowsLeaving, Asking

\* An error that the clean-up follows.
LEMMA FailsOn ==
  ASSUME DOMAIN impact = DOMAIN Asking, FailsThenCleans
  PROVE  /\ DOMAIN impact' = DOMAIN impact /\ impact'.step = "registered"
         /\ impact'.failed /\ impact'.untidy = impact.untidy /\ impact'.overlooked = impact.overlooked
BY DEF FailsThenCleans, Asking

\* A fetch keeps its ref until it is deleted.
LEMMA TidyResolving == TidyInv /\ Resolving => TidyInv'
<1> SUFFICES ASSUME TidyInv, Resolving PROVE TidyInv'
  OBVIOUS
<1> USE DEF TidyInv, Shapes, UntidyThrown, TemporaryKept, RootKept, WorktreeKept,
            Placed, Rooted, Checked, Cleaned, Asking, NeverIndexed, Gone, repository, disposable, indexState
<1>1. CASE Asks
  BY <1>1 DEF Asks
<1>2. CASE GhAnswers
  BY <1>2 DEF GhAnswers
<1>3. CASE GhFails
  <2>1. /\ DOMAIN impact' = DOMAIN impact /\ impact'.step \in {"thrown", "catalog"}
        /\ impact'.untidy = impact.untidy /\ impact'.overlooked = impact.overlooked
    BY <1>3 DEF GhFails, Throws
  <2>2. QED BY <1>3, <2>1 DEF GhFails
<1>4. CASE ResolvesRef
  <2>1. DOMAIN impact' = DOMAIN impact /\ ~impact'.untidy /\ impact'.overlooked = impact.overlooked
        /\ impact'.step \in {"fetch", "catalog", "root", "thrown"}
    <3>1. CASE Fetching
      BY <1>4, <3>1 DEF ResolvesRef, Goes
    <3>2. CASE ~Fetching
      <4>1. PICK c : IF Acceptable(c) THEN Finds(c) ELSE Throws
        BY <1>4, <3>2, Zenon DEF ResolvesRef
      <4>2. CASE Throws
        BY <1>4, <4>2, ThrowsOn DEF ResolvesRef
      <4>3. CASE Finds(c)
        BY <1>4, <4>3 DEF ResolvesRef, Finds
      <4>4. QED BY <4>1, <4>2, <4>3, Zenon
    <3>3. QED BY <3>1, <3>2
  <2>2. QED BY <1>4, <2>1 DEF ResolvesRef
<1>5. CASE ResolveFails
  BY <1>5 DEF ResolveFails, Goes, Throws, Costs
<1>6. CASE Fetches
  <2>1. DOMAIN impact' = DOMAIN impact /\ ~impact'.untidy /\ impact'.overlooked = impact.overlooked
        /\ impact'.step \in {"fetched", "tidy"}
    BY <1>6 DEF Fetches, Goes
  <2>2. QED BY <1>6, <2>1 DEF Fetches
<1>7. CASE FetchFails
  BY <1>7 DEF FetchFails, Costs
<1>8. CASE ReadsFetched
  <2>1. /\ DOMAIN impact' = DOMAIN impact /\ impact'.step = "tidy"
        /\ impact'.untidy = impact.untidy /\ impact'.overlooked = impact.overlooked
    BY <1>8 DEF ReadsFetched
  <2>2. QED BY <1>8, <2>1 DEF ReadsFetched
<1>9. CASE ReadsTemporary
  <2>1. CASE impact.got # NoCommit
    BY <1>9, <2>1, GoesOn DEF ReadsTemporary
  <2>2. CASE ThrowsLeaving("ref")
    BY <1>9, <2>2, LeavingOn DEF ReadsTemporary
  <2>3. CASE temporary # NoCommit /\ impact' = [impact EXCEPT !.step = "delete", !.got = temporary]
    <3>1. /\ DOMAIN impact' = DOMAIN impact /\ impact'.step = "delete"
          /\ impact'.untidy = impact.untidy /\ impact'.overlooked = impact.overlooked
      BY <2>3
    <3>2. QED BY <1>9, <3>1 DEF ReadsTemporary
  <2>4. CASE temporary = NoCommit /\ Throws
    BY <1>9, <2>4, ThrowsOn DEF ReadsTemporary
  <2>5. QED BY <1>9, <2>1, <2>2, <2>3, <2>4, Zenon DEF ReadsTemporary
<1>10. CASE DeletesTemporary
  <2>1. CASE temporary' = NoCommit /\ Goes("deleted")
    BY <1>10, <2>1, GoesOn DEF DeletesTemporary
  <2>2. CASE ThrowsUntidy
    BY <1>10, <2>2, UntidyOn DEF DeletesTemporary
  <2>3. QED BY <1>10, <2>1, <2>2, Zenon DEF DeletesTemporary
<1>11. CASE Resolved
  <2>1. DOMAIN impact' = DOMAIN impact /\ ~impact'.untidy /\ impact'.overlooked = impact.overlooked
        /\ impact'.step \in {"catalog", "root", "thrown"}
    BY <1>11 DEF Resolved, Throws, Finds
  <2>2. QED BY <1>11, <2>1 DEF Resolved
<1>99. QED BY <1>1, <1>2, <1>3, <1>4, <1>5, <1>6, <1>7, <1>8, <1>9, <1>10, <1>11 DEF Resolving

\* The directory is made before the worktree, and the worktree in it.
LEMMA TidyMaterialisation == TidyInv /\ Materialisation => TidyInv'
<1> SUFFICES ASSUME TidyInv, Materialisation PROVE TidyInv'
  OBVIOUS
<1> USE DEF TidyInv, Shapes, UntidyThrown, TemporaryKept, RootKept, WorktreeKept,
            Placed, Rooted, Checked, Cleaned, Asking, NeverIndexed, Gone, repository, disposable, indexState
<1>1. CASE LooksUp
  BY <1>1 DEF LooksUp
<1>2. CASE MakesRoot
  BY <1>2 DEF MakesRoot, Goes, Throws, Costs
<1>3. CASE MakesHooks
  <2>1. CASE Goes("add")
    BY <1>3, <2>1, GoesOn DEF MakesHooks
  <2>2. CASE ThrowsLeaving("directory")
    BY <1>3, <2>2, LeavingOn DEF MakesHooks
  <2>3. QED BY <1>3, <2>1, <2>2, Zenon DEF MakesHooks
<1>4. CASE AddsWorktree
  BY <1>4 DEF AddsWorktree, Goes
<1>5. CASE AddFails
  <2>1. DOMAIN impact' = DOMAIN impact /\ ~impact'.untidy /\ impact'.overlooked = impact.overlooked /\ impact'.step = "registered"
    BY <1>5 DEF AddFails, FailsThenCleans
  <2>2. /\ worktree' \in [registered : BOOLEAN, locked : BOOLEAN, dir : BOOLEAN]
        /\ (worktree'.locked => worktree'.registered)
    <3>1. \/ worktree' = Gone
          \/ worktree' = [registered |-> TRUE, locked |-> TRUE, dir |-> TRUE]
          \/ worktree' = [registered |-> TRUE, locked |-> TRUE, dir |-> FALSE]
      BY <1>5, Zenon DEF AddFails
    <3>2. CASE worktree' = Gone
      BY <3>2 DEF Gone
    <3>3. CASE worktree' = [registered |-> TRUE, locked |-> TRUE, dir |-> TRUE]
      BY <3>3
    <3>4. CASE worktree' = [registered |-> TRUE, locked |-> TRUE, dir |-> FALSE]
      BY <3>4
    <3>5. QED BY <3>1, <3>2, <3>3, <3>4, Zenon
  <2>3. QED BY <1>5, <2>1, <2>2 DEF AddFails
<1>6. CASE ChecksHead
  BY <1>6 DEF ChecksHead, Goes, FailsThenCleans, Costs
<1>7. CASE Acquires
  BY <1>7 DEF Acquires, Goes, FailsThenCleans
<1>8. CASE AlreadyIndexed
  BY <1>8 DEF AlreadyIndexed
<1>9. CASE IndexesBranch
  BY <1>9 DEF IndexesBranch, Goes
<1>10. CASE BranchIndexingFails
  BY <1>10 DEF BranchIndexingFails, FailsThenCleans, Costs
<1>11. CASE LabelsBranch
  BY <1>11 DEF LabelsBranch
<1>12. CASE LabellingFails
  BY <1>12 DEF LabellingFails, FailsThenCleans, Costs
<1>99. QED BY <1>1, <1>2, <1>3, <1>4, <1>5, <1>6, <1>7, <1>8, <1>9, <1>10, <1>11, <1>12 DEF Materialisation

\* The worktree goes before the directory, or the call throws.
LEMMA TidyCleanUp == TidyInv /\ CleanUp => TidyInv'
<1> SUFFICES ASSUME TidyInv, CleanUp PROVE TidyInv'
  OBVIOUS
<1> USE DEF TidyInv, Shapes, UntidyThrown, TemporaryKept, RootKept, WorktreeKept,
            Placed, Rooted, Checked, Cleaned, Asking, NeverIndexed, Gone, repository, disposable, indexState
<1>1. CASE ListsFirst
  BY <1>1 DEF ListsFirst, Goes, Preserves, Costs, ThrowsUntidy
<1>2. CASE Removes
  <2>1. DOMAIN impact' = DOMAIN impact /\ ~impact'.untidy /\ impact'.overlooked = impact.overlooked /\ impact'.step = "list"
    BY <1>2 DEF Removes, Goes
  <2>2. worktree' = worktree \/ worktree' = Gone \/ worktree' \in HalfRemoved
    BY <1>2, Zenon DEF Removes
  <2>3. QED BY <1>2, <2>1, <2>2, RemovedKeeps DEF Removes
<1>3. CASE ListsAgain
  BY <1>3 DEF ListsAgain, Goes, Preserves, Costs, ThrowsUntidy
<1>4. CASE RemovesHard
  <2>1. DOMAIN impact' = DOMAIN impact /\ ~impact'.untidy /\ impact'.overlooked = impact.overlooked /\ impact'.step = "last"
    BY <1>4 DEF RemovesHard, Goes
  <2>2. worktree' = worktree \/ worktree' = Gone \/ worktree' \in HalfRemoved
    BY <1>4, Zenon DEF RemovesHard
  <2>3. QED BY <1>4, <2>1, <2>2, RemovedKeeps DEF RemovesHard
<1>5. CASE ListsLast
  BY <1>5 DEF ListsLast, Goes, Preserves, Costs, ThrowsUntidy
<1>6. CASE Prunes
  <2>1. /\ DOMAIN impact' = DOMAIN impact
        /\ \/ impact'.step = "directory" /\ ~impact'.untidy /\ impact'.overlooked = impact.overlooked /\ worktree' = Gone
           \/ impact'.step = "thrown" /\ impact'.untidy /\ worktree' = worktree
    <3>1. CASE worktree' = Gone /\ Goes("directory")
      BY <1>6, <3>1 DEF Prunes, Goes
    <3>2. CASE Preserves /\ UNCHANGED worktree
      BY <1>6, <3>2 DEF Prunes, Preserves, ThrowsUntidy
    <3>3. QED BY <1>6, <3>1, <3>2, Zenon DEF Prunes
  <2>2. QED BY <1>6, <2>1, RemovedKeeps DEF Prunes
<1>7. CASE RemovesRoot
  <2>1. CASE Preserves /\ UNCHANGED disposable
    BY <1>7, <2>1, UntidyOn DEF RemovesRoot, Preserves
  <2>2. CASE /\ root' = FALSE /\ worktree' = [worktree EXCEPT !.dir = FALSE]
             /\ Throws \/ Goes("answer")
    <3>1. /\ DOMAIN impact' = DOMAIN impact /\ impact'.step \in {"thrown", "answer"}
          /\ impact'.untidy = impact.untidy /\ impact'.overlooked = impact.overlooked
      BY <2>2, GoesOn, ThrowsOn
    <3>2. ~worktree.registered /\ ~worktree.locked
      BY <1>7 DEF RemovesRoot
    <3>3. /\ worktree' \in [registered : BOOLEAN, locked : BOOLEAN, dir : BOOLEAN]
          /\ ~worktree'.registered /\ ~worktree'.locked /\ ~worktree'.dir
      BY <2>2, <3>2
    <3>4. QED BY <1>7, <2>2, <3>1, <3>3 DEF RemovesRoot
  <2>3. QED BY <1>7, <2>1, <2>2, Zenon DEF RemovesRoot
<1>8. CASE Responds
  <2>1. /\ DOMAIN impact' = DOMAIN impact /\ impact'.step \in {"thrown", "answered"}
        /\ impact'.untidy = impact.untidy /\ impact'.overlooked = impact.overlooked
    BY <1>8 DEF Responds, Throws
  <2>2. QED BY <1>8, <2>1 DEF Responds
<1>99. QED BY <1>1, <1>2, <1>3, <1>4, <1>5, <1>6, <1>7, <1>8 DEF CleanUp

\* Whoever else writes the refs or the catalog touches nothing of the call's.
LEMMA TidyOthers == TidyInv /\ Others => TidyInv'
<1> SUFFICES ASSUME TidyInv, Others PROVE TidyInv'
  OBVIOUS
<1> USE DEF TidyInv, Shapes, UntidyThrown, TemporaryKept, RootKept, WorktreeKept,
            Placed, Rooted, Checked, Cleaned, Asking, NeverIndexed, repository, disposable, indexState
<1>1. CASE OthersCommit
  BY <1>1 DEF OthersCommit
<1>2. CASE OthersLabel
  BY <1>2 DEF OthersLabel
<1>3. CASE OthersFail
  BY <1>3 DEF OthersFail
<1>4. ASSUME NEW where \in {"here", "remote"}, Moves(where) PROVE TidyInv'
  BY <1>4 DEF Moves
<1>5. QED BY <1>1, <1>2, <1>3, <1>4 DEF Others

\* Nothing is there before the call.
LEMMA TidyStart == PreparationInit => TidyInv
BY DEF PreparationInit, FirstCatalogs, TidyInv, Shapes, UntidyThrown, TemporaryKept, RootKept, WorktreeKept,
       Placed, Rooted, Checked, Cleaned, Asking, NeverIndexed, Gone

\* What the invariant says of a call that has ended.
LEMMA TidyImplies == TidyInv => NothingLeftBehind
<1> SUFFICES ASSUME TidyInv PROVE NothingLeftBehind
  OBVIOUS
<1> USE DEF TidyInv, TemporaryKept, RootKept, WorktreeKept, Placed, Rooted, Checked, Cleaned
<1>1. ASSUME impact.step \in {"answered", "thrown"}, ~impact.untidy
      PROVE  /\ temporary # NoCommit => impact.step = "thrown" /\ impact.overlooked = "ref"
             /\ root => impact.step = "thrown" /\ impact.overlooked = "directory"
             /\ worktree = Gone
  <2>1. /\ temporary # NoCommit => impact.overlooked = "ref"
        /\ root => impact.overlooked = "directory"
    BY <1>1
  <2>2. ~worktree.registered /\ ~worktree.dir /\ ~worktree.locked
    BY <1>1
  <2>3. worktree = Gone
    BY <2>2 DEF Shapes, Gone
  <2>4. QED BY <2>1, <2>3 DEF UntidyThrown
<1>2. worktree.registered => root
  OBVIOUS
<1>3. QED BY <1>1, <1>2 DEF NothingLeftBehind

\* However the commands of git fail, and whatever the others do, a call whose error reports
\* no failure of its clean-up has left no worktree, no ref but one that could not be read,
\* and no directory but one in which that for hooks could not be made, and git knows no
\* worktree whose directory is gone with the call's (cleanupTemporaryWorktree,
\* fetchCommitThroughTemporaryRef, withMaterializedBranch).
THEOREM LeavesNothing == PreparationSpec => []NothingLeftBehind
<1>1. PreparationInit => TidyInv
  BY TidyStart
<1>2. TidyInv /\ [PreparationNext]_preparationVars => TidyInv'
  <2> SUFFICES ASSUME TidyInv, [PreparationNext]_preparationVars PROVE TidyInv'
    OBVIOUS
  <2>1. CASE UNCHANGED preparationVars
    BY <2>1 DEF preparationVars, TidyInv, Shapes, UntidyThrown, TemporaryKept, RootKept, WorktreeKept
  <2>2. QED BY <2>1, TidyResolving, TidyMaterialisation, TidyCleanUp, TidyOthers DEF PreparationNext
<1>3. TidyInv => NothingLeftBehind
  BY TidyImplies
<1>4. QED BY <1>1, <1>2, <1>3, PTL DEF PreparationSpec

-----------------------------------------------------------------------------
(* The commit of the impact.                                               *)

\* The domains of what the steps write, and the values of otherRun.
Fields ==
  /\ DOMAIN impact = DOMAIN Asking
  /\ DOMAIN catalog = DOMAIN NeverIndexed
  /\ otherRun \in {"idle", "committed", "failed", "killed"}

\* The commit fetched for the materialisation is the one that is required, unless the
\* fetch has failed.
FetchedRight ==
  impact.step \in {"tidy", "delete", "deleted"} /\ impact.resolving = "ref" /\ ~impact.failed
    => impact.got = impact.expected /\ impact.got # NoCommit

\* The worktree is made of it, and indexed.
MadeRight ==
  /\ impact.step \in {"root"} \cup Rooted \cup Checked => impact.got = impact.expected
  /\ impact.step = "label" => catalog.symbols = impact.got

\* Between runs, the label names what the catalog holds.
LabelRight == otherRun = "idle" /\ impact.step # "label" => catalog.symbols = catalog.label

\* What the call has found or made is there when it is read, unless it was overtaken.
AnswerRight ==
  impact.step = "answer" \/ (impact.step \in Cleaned \cup {"directory"} /\ ~impact.failed)
    => catalog.symbols = impact.expected \/ impact.overtaken

HonestInv == Fields /\ FetchedRight /\ MadeRight /\ LabelRight /\ AnswerRight /\ ImpactHonest

\* resolveCommit is asked for one of two things.
ResolvingKnown == DOMAIN impact = DOMAIN Asking /\ impact.resolving \in {"head", "ref"}

\* The steps that resolve a commit.
LEMMA KnownResolving == ResolvingKnown /\ Resolving => ResolvingKnown'
<1> SUFFICES ASSUME ResolvingKnown, Resolving PROVE ResolvingKnown'
  OBVIOUS
<1> USE DEF ResolvingKnown, Asking
<1>1. CASE Asks
  BY <1>1 DEF Asks
<1>2. CASE GhAnswers
  BY <1>2 DEF GhAnswers
<1>3. CASE GhFails
  BY <1>3 DEF GhFails, Throws
<1>4. CASE ResolvesRef
  BY <1>4 DEF ResolvesRef, Goes, Throws, Finds
<1>5. CASE ResolveFails
  BY <1>5 DEF ResolveFails, Goes, Throws
<1>6. CASE Fetches
  BY <1>6 DEF Fetches, Goes
<1>7. CASE FetchFails
  BY <1>7 DEF FetchFails
<1>8. CASE ReadsFetched
  BY <1>8 DEF ReadsFetched
<1>9. CASE ReadsTemporary
  BY <1>9 DEF ReadsTemporary, Goes, Throws, ThrowsLeaving
<1>10. CASE DeletesTemporary
  BY <1>10 DEF DeletesTemporary, Goes, ThrowsUntidy
<1>11. CASE Resolved
  BY <1>11 DEF Resolved, Throws, Finds
<1>12. QED BY <1>1, <1>2, <1>3, <1>4, <1>5, <1>6, <1>7, <1>8, <1>9, <1>10, <1>11 DEF Resolving

\* Those that make the worktree and index it.
LEMMA KnownMaterialisation == ResolvingKnown /\ Materialisation => ResolvingKnown'
<1> SUFFICES ASSUME ResolvingKnown, Materialisation PROVE ResolvingKnown'
  OBVIOUS
<1> USE DEF ResolvingKnown, Asking
<1>1. CASE LooksUp
  BY <1>1 DEF LooksUp
<1>2. CASE MakesRoot
  BY <1>2 DEF MakesRoot, Goes, Throws
<1>3. CASE MakesHooks
  BY <1>3 DEF MakesHooks, Goes, ThrowsLeaving
<1>4. CASE AddsWorktree
  BY <1>4 DEF AddsWorktree, Goes
<1>5. CASE AddFails
  BY <1>5 DEF AddFails, FailsThenCleans
<1>6. CASE ChecksHead
  BY <1>6 DEF ChecksHead, Goes, FailsThenCleans
<1>7. CASE Acquires
  BY <1>7 DEF Acquires, Goes, FailsThenCleans
<1>8. CASE AlreadyIndexed
  BY <1>8 DEF AlreadyIndexed
<1>9. CASE IndexesBranch
  BY <1>9 DEF IndexesBranch, Goes
<1>10. CASE BranchIndexingFails
  BY <1>10 DEF BranchIndexingFails, FailsThenCleans
<1>11. CASE LabelsBranch
  BY <1>11 DEF LabelsBranch
<1>12. CASE LabellingFails
  BY <1>12 DEF LabellingFails, FailsThenCleans
<1>13. QED BY <1>1, <1>2, <1>3, <1>4, <1>5, <1>6, <1>7, <1>8, <1>9, <1>10, <1>11, <1>12 DEF Materialisation

\* Those that remove it.
LEMMA KnownCleanUp == ResolvingKnown /\ CleanUp => ResolvingKnown'
<1> SUFFICES ASSUME ResolvingKnown, CleanUp PROVE ResolvingKnown'
  OBVIOUS
<1> USE DEF ResolvingKnown, Asking
<1>1. CASE ListsFirst
  BY <1>1 DEF ListsFirst, Goes, Preserves, ThrowsUntidy
<1>2. CASE Removes
  BY <1>2 DEF Removes, Goes
<1>3. CASE ListsAgain
  BY <1>3 DEF ListsAgain, Goes, Preserves, ThrowsUntidy
<1>4. CASE RemovesHard
  BY <1>4 DEF RemovesHard, Goes
<1>5. CASE ListsLast
  BY <1>5 DEF ListsLast, Goes, Preserves, ThrowsUntidy
<1>6. CASE Prunes
  BY <1>6 DEF Prunes, Goes, Preserves, ThrowsUntidy
<1>7. CASE RemovesRoot
  BY <1>7 DEF RemovesRoot, Goes, Throws, Preserves, ThrowsUntidy
<1>8. CASE Responds
  BY <1>8 DEF Responds, Throws
<1>9. QED BY <1>1, <1>2, <1>3, <1>4, <1>5, <1>6, <1>7, <1>8 DEF CleanUp

\* Steps at which the call knows nothing yet, or nothing any more.
LEMMA HonestElsewhere ==
  ASSUME HonestInv,
         \/ impact'.step \in {"resolve", "fetch", "fetched", "catalog", "thrown"}
         \/ impact'.step = "registered" /\ impact'.failed,
         impact.step # "label", DOMAIN impact' = DOMAIN impact, UNCHANGED <<catalog, otherRun>>
  PROVE  HonestInv'
BY DEF HonestInv, Fields, FetchedRight, MadeRight, LabelRight, AnswerRight, ImpactHonest,
       Rooted, Checked, Cleaned

\* While the call cleans up, the answer stays as it is.
LEMMA HonestCleaning ==
  ASSUME HonestInv, impact.step \in Cleaned \cup {"directory"}, NEW step,
         step \in Cleaned \cup {"directory"} \/ (step = "answer" /\ ~impact.failed), Goes(step),
         UNCHANGED <<catalog, otherRun>>
  PROVE  HonestInv'
<1>1. /\ DOMAIN impact' = DOMAIN impact /\ impact'.step = step
      /\ impact'.failed = impact.failed /\ impact'.expected = impact.expected
      /\ impact'.overtaken = impact.overtaken
  BY GoesOn DEF HonestInv, Fields
<1>2. QED BY <1>1 DEF HonestInv, Fields, FetchedRight, MadeRight, LabelRight, AnswerRight, ImpactHonest,
                      Rooted, Checked, Cleaned

\* The commit that is found is the one that is required.
LEMMA HonestResolving == HonestInv /\ ResolvingKnown /\ Resolving => HonestInv'
<1> SUFFICES ASSUME HonestInv, ResolvingKnown, Resolving PROVE HonestInv'
  OBVIOUS
<1> USE DEF HonestInv, Fields, FetchedRight, MadeRight, LabelRight, AnswerRight, ImpactHonest,
            Rooted, Checked, Cleaned, Asking, NeverIndexed, repository, disposable, indexState
<1>1. CASE Asks
  BY <1>1 DEF Asks
<1>2. CASE GhAnswers
  BY <1>2 DEF GhAnswers
<1>3. CASE GhFails
  <2>1. DOMAIN impact' = DOMAIN impact /\ impact'.step \in {"catalog", "thrown"}
    BY <1>3 DEF GhFails, Throws
  <2>2. QED BY <1>3, <2>1, HonestElsewhere DEF GhFails
<1>4. CASE ResolvesRef
  <2>1. CASE impact'.step \in {"fetch", "catalog", "thrown"} /\ DOMAIN impact' = DOMAIN impact
    BY <1>4, <2>1, HonestElsewhere DEF ResolvesRef
  <2>2. CASE Fetching
    BY <1>4, <2>1, <2>2 DEF ResolvesRef, Goes
  <2>3. CASE ~Fetching
    <3>1. PICK c : IF Acceptable(c) THEN Finds(c) ELSE Throws
      BY <1>4, <2>3, Zenon DEF ResolvesRef
    <3>2. CASE Acceptable(c) /\ impact.resolving = "ref"
      <4>1. /\ DOMAIN impact' = DOMAIN impact /\ impact'.step = "root"
            /\ impact'.got = c /\ impact'.expected = impact.expected
        BY <3>1, <3>2 DEF Finds
      <4>2. c = impact.expected
        BY <3>2 DEF Acceptable
      <4>3. QED BY <1>4, <4>1, <4>2 DEF ResolvesRef
    <3>3. CASE ~(Acceptable(c) /\ impact.resolving = "ref")
      <4>1. CASE Acceptable(c)
        BY <2>1, <3>1, <3>3, <4>1 DEF Finds, ResolvingKnown
      <4>2. CASE ~Acceptable(c)
        BY <2>1, <3>1, <4>2 DEF Throws
      <4>3. QED BY <4>1, <4>2
    <3>4. QED BY <3>2, <3>3
  <2>4. QED BY <2>2, <2>3
<1>5. CASE ResolveFails
  BY <1>5 DEF ResolveFails, Goes, Throws
<1>6. CASE Fetches
  <2>1. CASE impact' = [impact EXCEPT !.step = "tidy", !.failed = TRUE, !.got = NoCommit]
    <3>1. DOMAIN impact' = DOMAIN impact /\ impact'.step = "tidy" /\ impact'.failed
      BY <2>1
    <3>2. QED BY <1>6, <3>1 DEF Fetches
  <2>2. CASE Goes("fetched")
    <3>1. DOMAIN impact' = DOMAIN impact /\ impact'.step = "fetched"
      BY <2>2 DEF Goes
    <3>2. QED BY <1>6, <3>1, HonestElsewhere DEF Fetches
  <2>3. QED BY <1>6, <2>1, <2>2, Zenon DEF Fetches
<1>7. CASE FetchFails
  BY <1>7 DEF FetchFails
<1>8. CASE ReadsFetched
  <2>1. CASE impact' = [impact EXCEPT !.step = "tidy", !.failed = TRUE, !.got = NoCommit]
    <3>1. DOMAIN impact' = DOMAIN impact /\ impact'.step = "tidy" /\ impact'.failed
      BY <2>1
    <3>2. QED BY <1>8, <3>1 DEF ReadsFetched
  <2>2. CASE impact' = [impact EXCEPT !.step = "tidy", !.got = temporary, !.failed = ~Acceptable(temporary)]
    <3>1. /\ DOMAIN impact' = DOMAIN impact /\ impact'.step = "tidy" /\ impact'.got = temporary
          /\ impact'.expected = impact.expected /\ impact'.resolving = impact.resolving
      BY <2>2
    <3>2. impact'.failed = ~Acceptable(temporary)
      BY <2>2
    <3>3. ~impact'.failed /\ impact'.resolving = "ref" => temporary = impact.expected /\ temporary # NoCommit
      BY <3>1, <3>2 DEF Acceptable
    <3>4. QED BY <1>8, <3>1, <3>3 DEF ReadsFetched
  <2>3. QED BY <1>8, <2>1, <2>2, Zenon DEF ReadsFetched
<1>9. CASE ReadsTemporary
  <2>1. CASE impact'.step = "thrown" /\ DOMAIN impact' = DOMAIN impact
    BY <1>9, <2>1, HonestElsewhere DEF ReadsTemporary
  <2>2. CASE impact.got # NoCommit
    <3>1. /\ DOMAIN impact' = DOMAIN impact /\ impact'.step = "delete" /\ impact'.got = impact.got
          /\ impact'.expected = impact.expected /\ impact'.resolving = impact.resolving
          /\ impact'.failed = impact.failed
      BY <1>9, <2>2 DEF ReadsTemporary, Goes
    <3>2. QED BY <1>9, <3>1 DEF ReadsTemporary
  <2>3. CASE impact.got = NoCommit
    <3>1. CASE ThrowsLeaving("ref") \/ Throws
      BY <2>1, <3>1 DEF ThrowsLeaving, Throws
    <3>2. CASE impact' = [impact EXCEPT !.step = "delete", !.got = temporary]
      <4>1. /\ DOMAIN impact' = DOMAIN impact /\ impact'.step = "delete"
            /\ impact'.expected = impact.expected /\ impact'.resolving = impact.resolving
            /\ impact'.failed = impact.failed
        BY <3>2
      <4>2. impact.resolving = "ref" => impact.failed
        BY <1>9, <2>3 DEF ReadsTemporary
      <4>3. QED BY <1>9, <4>1, <4>2 DEF ReadsTemporary
    <3>3. QED BY <1>9, <2>3, <3>1, <3>2, Zenon DEF ReadsTemporary
  <2>4. QED BY <2>2, <2>3
<1>10. CASE DeletesTemporary
  <2>1. CASE ThrowsUntidy
    <3>1. DOMAIN impact' = DOMAIN impact /\ impact'.step = "thrown"
      BY <2>1 DEF ThrowsUntidy
    <3>2. QED BY <1>10, <3>1, HonestElsewhere DEF DeletesTemporary
  <2>2. CASE Goes("deleted")
    <3>1. /\ DOMAIN impact' = DOMAIN impact /\ impact'.step = "deleted" /\ impact'.got = impact.got
          /\ impact'.expected = impact.expected /\ impact'.resolving = impact.resolving
          /\ impact'.failed = impact.failed
      BY <2>2 DEF Goes
    <3>2. QED BY <1>10, <3>1 DEF DeletesTemporary
  <2>3. QED BY <1>10, <2>1, <2>2, Zenon DEF DeletesTemporary
<1>11. CASE Resolved
  <2>1. CASE impact'.step \in {"catalog", "thrown"} /\ DOMAIN impact' = DOMAIN impact
    BY <1>11, <2>1, HonestElsewhere DEF Resolved
  <2>2. CASE impact.failed
    BY <1>11, <2>1, <2>2 DEF Resolved, Throws
  <2>3. CASE ~impact.failed /\ impact.resolving = "head"
    BY <1>11, <2>1, <2>3 DEF Resolved, Finds
  <2>4. CASE ~impact.failed /\ impact.resolving # "head"
    <3>0. impact.resolving = "ref"
      BY <2>4 DEF ResolvingKnown
    <3>1. /\ DOMAIN impact' = DOMAIN impact /\ impact'.step = "root"
          /\ impact'.got = impact.got /\ impact'.expected = impact.expected
      BY <1>11, <2>4 DEF Resolved, Finds
    <3>2. impact.got = impact.expected
      BY <1>11, <2>4, <3>0 DEF Resolved
    <3>3. QED BY <1>11, <3>1, <3>2 DEF Resolved
  <2>5. QED BY <2>2, <2>3, <2>4
<1>12. QED BY <1>1, <1>2, <1>3, <1>4, <1>5, <1>6, <1>7, <1>8, <1>9, <1>10, <1>11 DEF Resolving

\* The catalog serves, or is written for the commit.
LEMMA HonestMaterialisation == HonestInv /\ ResolvingKnown /\ Materialisation => HonestInv'
<1> SUFFICES ASSUME HonestInv, ResolvingKnown, Materialisation PROVE HonestInv'
  OBVIOUS
<1> USE DEF HonestInv, Fields, FetchedRight, MadeRight, LabelRight, AnswerRight, ImpactHonest,
            Rooted, Checked, Cleaned, Asking, NeverIndexed, repository, disposable, indexState
<1>1. CASE LooksUp
  BY <1>1 DEF LooksUp, Serves, Unlabelled
<1>2. CASE MakesRoot
  BY <1>2 DEF MakesRoot, Goes, Throws
<1>3. CASE MakesHooks
  <2>1. CASE Goes("add")
    BY <1>3, <2>1, GoesOn DEF MakesHooks
  <2>2. CASE ThrowsLeaving("directory")
    BY <1>3, <2>2, LeavingOn, HonestElsewhere DEF MakesHooks
  <2>3. QED BY <1>3, <2>1, <2>2, Zenon DEF MakesHooks
<1>4. CASE AddsWorktree
  BY <1>4 DEF AddsWorktree, Goes
<1>5. CASE AddFails
  BY <1>5 DEF AddFails, FailsThenCleans
<1>6. CASE ChecksHead
  <2>1. CASE Goes("lease")
    BY <1>6, <2>1, GoesOn DEF ChecksHead
  <2>2. CASE FailsThenCleans
    BY <1>6, <2>2, FailsOn, HonestElsewhere DEF ChecksHead
  <2>3. QED BY <1>6, <2>1, <2>2, Zenon DEF ChecksHead
<1>7. CASE Acquires
  <2>1. CASE otherRun = "committed"
    BY <1>7, <2>1, FailsOn, HonestElsewhere DEF Acquires
  <2>2. CASE otherRun # "committed"
    BY <1>7, <2>2, GoesOn DEF Acquires
  <2>3. QED BY <2>1, <2>2
<1>8. CASE AlreadyIndexed
  BY <1>8 DEF AlreadyIndexed, Serves, Unlabelled
<1>9. CASE IndexesBranch
  BY <1>9 DEF IndexesBranch, Goes, Serves
<1>10. CASE BranchIndexingFails
  BY <1>10 DEF BranchIndexingFails, FailsThenCleans
<1>11. CASE LabelsBranch
  BY <1>11 DEF LabelsBranch
<1>12. CASE LabellingFails
  BY <1>12 DEF LabellingFails, FailsThenCleans
<1>13. QED BY <1>1, <1>2, <1>3, <1>4, <1>5, <1>6, <1>7, <1>8, <1>9, <1>10, <1>11, <1>12 DEF Materialisation

\* The clean-up writes nothing the answer depends on.
LEMMA HonestCleanUp == HonestInv /\ ResolvingKnown /\ CleanUp => HonestInv'
<1> SUFFICES ASSUME HonestInv, ResolvingKnown, CleanUp PROVE HonestInv'
  OBVIOUS
<1> USE DEF HonestInv, Fields, FetchedRight, MadeRight, LabelRight, AnswerRight, ImpactHonest,
            Rooted, Checked, Cleaned, Asking, NeverIndexed, repository, disposable, indexState
<1>1. CASE ListsFirst
  <2>1. CASE Preserves
    BY <1>1, <2>1, UntidyOn, HonestElsewhere DEF ListsFirst, Preserves
  <2>2. ASSUME NEW step \in {"remove", "directory"}, Goes(step) PROVE HonestInv'
    BY <1>1, <2>2, HonestCleaning DEF ListsFirst
  <2>3. QED BY <1>1, <2>1, <2>2, Zenon DEF ListsFirst
<1>2. CASE Removes
  BY <1>2 DEF Removes, Goes
<1>3. CASE ListsAgain
  <2>1. CASE Preserves
    BY <1>3, <2>1, UntidyOn, HonestElsewhere DEF ListsAgain, Preserves
  <2>2. ASSUME NEW step \in {"unlock", "directory"}, Goes(step) PROVE HonestInv'
    BY <1>3, <2>2, HonestCleaning DEF ListsAgain
  <2>3. QED BY <1>3, <2>1, <2>2, Zenon DEF ListsAgain
<1>4. CASE RemovesHard
  BY <1>4 DEF RemovesHard, Goes
<1>5. CASE ListsLast
  <2>1. CASE Preserves
    BY <1>5, <2>1, UntidyOn, HonestElsewhere DEF ListsLast, Preserves
  <2>2. ASSUME NEW step \in {"directory", "prune"}, Goes(step) PROVE HonestInv'
    BY <1>5, <2>2, HonestCleaning DEF ListsLast
  <2>3. QED BY <1>5, <2>1, <2>2, Zenon DEF ListsLast
<1>6. CASE Prunes
  <2>1. CASE Preserves
    BY <1>6, <2>1, UntidyOn, HonestElsewhere DEF Prunes, Preserves
  <2>2. ASSUME NEW step \in {"directory"}, Goes(step) PROVE HonestInv'
    BY <1>6, <2>2, HonestCleaning DEF Prunes
  <2>3. QED BY <1>6, <2>1, <2>2, Zenon DEF Prunes
<1>7. CASE RemovesRoot
  <2>1. CASE Throws \/ Preserves
    BY <1>7, <2>1, ThrowsOn, UntidyOn, HonestElsewhere DEF RemovesRoot, Preserves
  <2>2. CASE ~impact.failed /\ Goes("answer")
    BY <1>7, <2>2, HonestCleaning DEF RemovesRoot
  <2>3. QED BY <1>7, <2>1, <2>2, Zenon DEF RemovesRoot
<1>8. CASE Responds
  <2>1. CASE Throws
    BY <1>8, <2>1, ThrowsOn, HonestElsewhere DEF Responds
  <2>2. CASE impact' = [impact EXCEPT !.step = "answered", !.symbols = catalog.symbols]
    <3>1. /\ DOMAIN impact' = DOMAIN impact /\ impact'.step = "answered"
          /\ impact'.symbols = catalog.symbols /\ impact'.expected = impact.expected
          /\ impact'.overtaken = impact.overtaken
      BY <2>2
    <3>2. QED BY <1>8, <3>1 DEF Responds
  <2>3. QED BY <1>8, <2>1, <2>2, Zenon DEF Responds
<1>9. QED BY <1>1, <1>2, <1>3, <1>4, <1>5, <1>6, <1>7, <1>8 DEF CleanUp

\* The others' runs.
LEMMA HonestOthers == HonestInv /\ Others => HonestInv'
<1> SUFFICES ASSUME HonestInv, Others PROVE HonestInv'
  OBVIOUS
<1> USE DEF HonestInv, Fields, FetchedRight, MadeRight, LabelRight, AnswerRight, ImpactHonest,
            Rooted, Checked, Cleaned, Asking, NeverIndexed, repository, disposable, indexState
<1>1. CASE OthersCommit
  BY <1>1 DEF OthersCommit, Leaving
<1>2. CASE OthersLabel
  BY <1>2 DEF OthersLabel
<1>3. CASE OthersFail
  BY <1>3 DEF OthersFail
<1>4. ASSUME NEW where \in {"here", "remote"}, Moves(where) PROVE HonestInv'
  BY <1>4 DEF Moves
<1>5. QED BY <1>1, <1>2, <1>3, <1>4 DEF Others

\* At first the catalog is as the last run has left it.
LEMMA HonestStart == PreparationInit => HonestInv
BY DEF PreparationInit, FirstCatalogs, HonestInv, Fields, FetchedRight, MadeRight, LabelRight, AnswerRight,
       ImpactHonest, Rooted, Checked, Cleaned, Asking, NeverIndexed

\* Whoever moves the branch or indexes it during the call, the impact is that of the
\* commit that was asked for, or another run has overtaken the call (getPrImpact).
THEOREM AnswersForCommit == PreparationSpec => []ImpactHonest
<1>1. PreparationInit => HonestInv /\ ResolvingKnown
  BY HonestStart DEF PreparationInit, Asking, ResolvingKnown
<1>2. HonestInv /\ ResolvingKnown /\ [PreparationNext]_preparationVars => HonestInv' /\ ResolvingKnown'
  <2> SUFFICES ASSUME HonestInv, ResolvingKnown, [PreparationNext]_preparationVars
               PROVE  HonestInv' /\ ResolvingKnown'
    OBVIOUS
  <2>1. CASE UNCHANGED preparationVars
    BY <2>1 DEF preparationVars, HonestInv, Fields, FetchedRight, MadeRight, LabelRight, AnswerRight,
                      ImpactHonest, ResolvingKnown
  <2>2. CASE Others
    <3>1. HonestInv'
      BY <2>2, HonestOthers
    <3>2. ResolvingKnown'
      BY <2>2 DEF ResolvingKnown, Others, OthersCommit, OthersLabel, OthersFail, Moves, Asking
    <3>3. QED BY <3>1, <3>2
  <2>3. CASE Resolving \/ Materialisation \/ CleanUp
    BY <2>3, HonestResolving, HonestMaterialisation, HonestCleanUp,
       KnownResolving, KnownMaterialisation, KnownCleanUp
  <2>4. QED BY <2>1, <2>2, <2>3 DEF PreparationNext
<1>3. HonestInv => ImpactHonest
  BY DEF HonestInv
<1>4. QED BY <1>1, <1>2, <1>3, PTL DEF PreparationSpec

-----------------------------------------------------------------------------
(* The configuration.                                                      *)

Content == Settings \cup {Missing, Broken}

\* The folders that a list names for whoever reads it in r.
BasesOf(r, list) == {ResolvedPath(r, list[i]) : i \in DOMAIN list}

GlobalContent(s) == OrEmpty(config[GlobalConfig(ModeOf[s])])

\* What parseConfig makes of a global content g and a layer l, for whoever reads in r.
Combined(r, g, l) ==
  [bases |-> BasesOf(r, g.bases) \cup BasesOf(r, l.bases), scope |-> Or(l.scope, g.scope),
   provider |-> Or(l.provider, g.provider)]

RuntimeConfigs ==
  [bases : SUBSET Folders, scope : {"project", "global", Unset}, provider : {"good", "bad", Unset}]

EditRecords ==
  [op : {"add", "remove"}, folder : Folders, step : {"open", "write", "refresh"},
   alone : BOOLEAN, before : RuntimeConfigs \cup {Broken}, twice : BOOLEAN, content : Settings]

\* What an edit that nobody has overtaken will write changes its folder and nothing else
\* of what was read, and is not read otherwise for lying in the session's own checkout.
Explains(r, g, e) ==
  /\ \A i \in DOMAIN e.content.bases : e.content.bases[i][1] # r
  /\ Or(e.content.provider, g.provider) # "bad"
  /\ Combined(r, g, e.content) = [e.before EXCEPT !.bases =
       IF e.op = "add" \/ e.twice \/ e.folder \in BasesOf(r, g.bases)
       THEN @ \cup {e.folder} ELSE @ \ {e.folder}]

ConfigurationTypes ==
  /\ config \in [Places -> Content]
  /\ DOMAIN editing = Session /\ DOMAIN cache = Session
  /\ \A s \in Session : editing[s] = Nothing \/ editing[s] \in EditRecords
  /\ \A s \in Session : cache[s] # Nothing =>
       cache[s] \in OwnedIndexes(RootOf[s], ModeOf[s]) \cup ({Home} \X HostMode)

EditsExplained ==
  \A s \in Session :
    /\ editing[s] # Nothing /\ editing[s].step \in {"open", "write"}
    /\ editing[s].alone /\ editing[s].before # Broken
    => Explains(RootOf[s], GlobalContent(s), editing[s])

ConfigurationInv == ConfigurationTypes /\ EditsExplained

-----------------------------------------------------------------------------
\* A set of natural numbers has a least one.
LEMMA LeastNumber ==
  ASSUME NEW S, S \subseteq Nat, S # {}
  PROVE  \E i \in S : \A j \in S : i <= j
<1>1. PICK i \in S : \A j \in S : ~(<<j, i>> \in OpToRel(<, Nat))
  BY NatLessThanWellFounded, WFMin
<1>2. \A j \in S : ~(j < i)
  BY <1>1 DEF OpToRel
<1> QED BY <1>2

\* The candidates are places of checkouts, and the session's own comes first.
LEMMA CandidateFacts ==
  ASSUME NEW r \in Checkouts, NEW h \in HostMode
  PROVE  /\ CandidateConfigs(r, h) \in Seq(Checkouts \X HostMode)
         /\ 1 \in DOMAIN CandidateConfigs(r, h) /\ CandidateConfigs(r, h)[1] = <<r, h>>
<1> DEFINE S == Checkouts \X HostMode
           own == <<<<r, h>>, <<r, LegacyMode>>>>
           rest == IF r \in Linked THEN <<<<Main, h>>, <<Main, LegacyMode>>>> ELSE <<>>
<1>1. own \in Seq(S) /\ rest \in Seq(S)
  <2>1. /\ <<r, h>> \in S /\ <<r, LegacyMode>> \in S
        /\ <<Main, h>> \in S /\ <<Main, LegacyMode>> \in S
    BY ConfigurationAssumption DEF Checkouts
  <2> HIDE DEF S
  <2> QED BY <2>1
<1>2. Len(own) = 2 /\ own[1] = <<r, h>> /\ Len(rest) \in Nat
  BY <1>1
<1>3. CandidateConfigs(r, h) = own \o rest
  BY DEF CandidateConfigs
<1> HIDE DEF own, rest
<1>4. /\ own \o rest \in Seq(S) /\ Len(own \o rest) = Len(own) + Len(rest)
      /\ \A i \in 1 .. Len(own) + Len(rest) : i <= Len(own) => (own \o rest)[i] = own[i]
  BY <1>1, ConcatProperties
<1>5. 1 \in 1 .. Len(own \o rest) /\ (own \o rest)[1] = <<r, h>>
  BY <1>2, <1>4
<1> QED BY <1>3, <1>4, <1>5

\* Sessions, and the places they read.
LEMMA SessionFacts ==
  ASSUME NEW s \in Session
  PROVE  /\ RootOf[s] \in Checkouts /\ ModeOf[s] \in HostMode
         /\ Own(s) \in Places
         /\ \A h \in HostMode : GlobalConfig(h) \in Places /\ GlobalConfig(h) # Own(s)
BY ConfigurationAssumption DEF Places, Own, GlobalConfig, Home

\* The place of a project's configuration is a place of a checkout.
LEMMA ProjectPlace ==
  ASSUME NEW r \in Checkouts, NEW h \in HostMode
  PROVE  ProjectConfig(r, h) \in Checkouts \X HostMode
<1> DEFINE C == CandidateConfigs(r, h)
           E == {i \in DOMAIN C : Exists(C[i])}
<1>1. C \in Seq(Checkouts \X HostMode)
  BY CandidateFacts
<1>2. CASE E = {}
  BY <1>2 DEF ProjectConfig
<1>3. CASE E # {}
  <2>1. E \subseteq Nat
    BY <1>1
  <2>2. \E i \in E : \A j \in E : i <= j
    BY <1>3, <2>1, LeastNumber
  <2>3. PICK k \in E : ProjectConfig(r, h) = C[k]
    BY <1>3, <2>2 DEF ProjectConfig
  <2> QED BY <1>1, <2>3
<1> QED BY <1>2, <1>3

\* A session that has a configuration of its own reads that.
LEMMA OwnFirst ==
  ASSUME NEW s \in Session, Exists(Own(s))
  PROVE  ProjectConfig(RootOf[s], ModeOf[s]) = Own(s)
<1> DEFINE C == CandidateConfigs(RootOf[s], ModeOf[s])
           E == {i \in DOMAIN C : Exists(C[i])}
<1>1. C \in Seq(Checkouts \X HostMode) /\ C[1] = Own(s) /\ 1 \in DOMAIN C
  BY SessionFacts, CandidateFacts DEF Own
<1>2. 1 \in E /\ E \subseteq Nat \ {0}
  BY <1>1
<1>3. \A i \in E : (\A j \in E : i <= j) => i = 1
  BY <1>2
<1>4. \A j \in E : 1 <= j
  BY <1>2
<1>5. (CHOOSE i \in E : \A j \in E : i <= j) = 1
  <2> HIDE DEF E
  <2> QED BY <1>2, <1>3, <1>4
<1> QED BY <1>1, <1>2, <1>5 DEF ProjectConfig

\* How a path is stored and read back.
LEMMA PathFacts ==
  ASSUME NEW r \in Checkouts
  PROVE  /\ \A p \in Stored : ResolvedPath(r, p) \in Folders
         /\ \A p \in Stored, q \in Checkouts : Inherited(q, p) \in Stored
         /\ \A p \in Folders : /\ Serialized(r, p) \in Stored
                               /\ Serialized(r, p)[1] # r
                               /\ ResolvedPath(r, Serialized(r, p)) = p
BY ConfigurationAssumption DEF Stored, Folders, ResolvedPath, Inherited, Serialized, Checkouts,
                               Self, Outside, Home

\* What a list names, and what two in a row name.
LEMMA ResolvedTwo ==
  ASSUME NEW r, NEW a \in Seq(Stored), NEW b \in Seq(Stored)
  PROVE  BasesOf(r, a \o b) = BasesOf(r, a) \cup BasesOf(r, b)
<1> DEFINE c == a \o b
<1>1. /\ c \in Seq(Stored) /\ Len(c) = Len(a) + Len(b) /\ Len(a) \in Nat /\ Len(b) \in Nat
      /\ \A i \in 1 .. Len(a) + Len(b) : c[i] = IF i <= Len(a) THEN a[i] ELSE b[i - Len(a)]
  BY ConcatProperties
<1>2. DOMAIN a = 1 .. Len(a) /\ DOMAIN b = 1 .. Len(b) /\ DOMAIN c = 1 .. Len(a) + Len(b)
  BY <1>1
<1> HIDE DEF c
<1>3. \A i \in DOMAIN c : (i \in DOMAIN a /\ c[i] = a[i])
                            \/ (i - Len(a) \in DOMAIN b /\ c[i] = b[i - Len(a)])
  BY <1>1, <1>2
<1>4. \A i \in DOMAIN a : i \in DOMAIN c /\ c[i] = a[i]
  BY <1>1, <1>2
<1>5. \A i \in DOMAIN b : i + Len(a) \in DOMAIN c /\ c[i + Len(a)] = b[i]
  BY <1>1, <1>2
<1>6. BasesOf(r, c) \subseteq BasesOf(r, a) \cup BasesOf(r, b)
  BY <1>3 DEF BasesOf
<1>7. BasesOf(r, a) \cup BasesOf(r, b) \subseteq BasesOf(r, c)
  BY <1>4, <1>5 DEF BasesOf
<1> QED BY <1>6, <1>7 DEF c

\* A list of folders resolves to folders.
LEMMA ResolvedFolders ==
  ASSUME NEW r \in Checkouts, NEW list \in Seq(Stored)
  PROVE  BasesOf(r, list) \subseteq Folders
<1>1. \A i \in DOMAIN list : list[i] \in Stored
  OBVIOUS
<1> QED BY <1>1, PathFacts DEF BasesOf

\* The contents that a session merges are settings.
LEMMA LayerFacts ==
  ASSUME ConfigurationTypes, NEW r \in Checkouts, NEW h \in HostMode
  PROVE  /\ ProjectConfig(r, h) \in Places
         /\ OrEmpty(config[GlobalConfig(h)]) \in Settings
         /\ Layer(r, h) \in Settings
<1> DEFINE place == ProjectConfig(r, h)
           content == OrEmpty(config[place])
           list == [i \in DOMAIN content.bases |-> Inherited(place[1], content.bases[i])]
<1>1. place \in Checkouts \X HostMode /\ place \in Places
  BY ProjectPlace DEF Places
<1>2. GlobalConfig(h) \in Places
  BY ConfigurationAssumption DEF Places, GlobalConfig, Home
<1>3. Empty \in Settings
  BY DEF Empty, Settings
<1>4. \A p \in Places : OrEmpty(config[p]) \in Settings
  BY <1>3 DEF OrEmpty, ConfigurationTypes, Content
<1> HIDE DEF place
<1>5. content \in Settings /\ place[1] \in Checkouts
  BY <1>1, <1>4
<1> HIDE DEF content
<1>6. content.bases \in Seq(Stored)
  BY <1>5 DEF Settings
<1>7. \A i \in DOMAIN content.bases : Inherited(place[1], content.bases[i]) \in Stored
  BY <1>5, <1>6, PathFacts
<1>8. list \in Seq(Stored)
  BY <1>6, <1>7
<1>9. Layer(r, h) = [content EXCEPT !.bases = list]
  BY DEF Layer, Each, content, place
<1> HIDE DEF list
<1>10. Layer(r, h) \in Settings
  BY <1>5, <1>8, <1>9 DEF Settings
<1> QED BY <1>1, <1>2, <1>4, <1>10 DEF place

\* What is read is what the two files say together, if both can be read.
LEMMA RuntimeFacts ==
  ASSUME ConfigurationTypes, NEW r \in Checkouts, NEW h \in HostMode
  PROVE  LET g == OrEmpty(config[GlobalConfig(h)])
             l == Layer(r, h)
             global == config[GlobalConfig(h)]
             project == config[ProjectConfig(r, h)]
         IN Runtime(r, h) =
              IF \/ project = Broken \/ (global = Broken /\ project = Missing)
                 \/ Or(l.provider, g.provider) = "bad"
              THEN Broken ELSE Combined(r, g, l)
<1> DEFINE g == OrEmpty(config[GlobalConfig(h)])
           l == Layer(r, h)
           merged == [bases |-> g.bases \o l.bases, scope |-> Or(l.scope, g.scope),
                      provider |-> Or(l.provider, g.provider)]
           list == g.bases \o l.bases
           resolved == [i \in DOMAIN list |-> ResolvedPath(r, list[i])]
           throws == \/ config[ProjectConfig(r, h)] = Broken
                     \/ config[GlobalConfig(h)] = Broken /\ config[ProjectConfig(r, h)] = Missing
<1>1. g \in Settings /\ l \in Settings
  BY LayerFacts
<1>2. Merged(r, h) = IF throws THEN Broken ELSE merged
  BY DEF Merged
<1> HIDE DEF g, l
<1>3. g.bases \in Seq(Stored) /\ l.bases \in Seq(Stored)
  BY <1>1 DEF Settings
<1>4. list \in Seq(Stored) /\ BasesOf(r, list) = BasesOf(r, g.bases) \cup BasesOf(r, l.bases)
  BY <1>3, ResolvedTwo, ConcatProperties
<1>5. Or(l.scope, g.scope) \in {"project", "global", Unset}
  BY <1>1 DEF Settings, Or
<1>6. Or(l.provider, g.provider) \in {"good", "bad", Unset}
  BY <1>1 DEF Settings, Or
<1>7. merged \in Settings
  BY <1>4, <1>5, <1>6 DEF Settings
<1>8. merged # Broken /\ merged.provider = Or(l.provider, g.provider) /\ merged.bases = list
  BY <1>7, ConfigurationAssumption
<1>9. ToSet(resolved) = BasesOf(r, list)
  BY DEF ToSet, BasesOf
<1>10. [WithFolders(r, merged) EXCEPT !.bases = ToSet(@)] = Combined(r, g, l)
  <2>1. WithFolders(r, merged) = [merged EXCEPT !.bases = resolved]
    BY <1>8 DEF WithFolders, Each
  <2> HIDE DEF resolved, list
  <2>2. [WithFolders(r, merged) EXCEPT !.bases = ToSet(@)] = [merged EXCEPT !.bases = ToSet(resolved)]
    BY <2>1
  <2>3. \A B : [merged EXCEPT !.bases = B] =
                [bases |-> B, scope |-> Or(l.scope, g.scope), provider |-> Or(l.provider, g.provider)]
    OBVIOUS
  <2> HIDE DEF merged
  <2> QED BY <2>2, <2>3, <1>4, <1>9 DEF Combined
<1> HIDE DEF merged, throws
<1>11. Runtime(r, h) = IF throws \/ Or(l.provider, g.provider) = "bad"
                       THEN Broken ELSE Combined(r, g, l)
  <2>1. CASE throws
    BY <2>1, <1>2 DEF Runtime
  <2>2. CASE ~throws
    <3>1. Merged(r, h) = merged
      BY <2>2, <1>2
    <3>2. Runtime(r, h) = IF merged.provider = "bad" THEN Broken
                          ELSE [WithFolders(r, merged) EXCEPT !.bases = ToSet(@)]
      BY <3>1, <1>8 DEF Runtime
    <3> QED BY <2>2, <3>2, <1>8, <1>10
  <2> QED BY <2>1, <2>2
<1> QED BY <1>11 DEF throws, g, l

\* What parseConfig makes has its type.
LEMMA CombinedType ==
  ASSUME NEW r \in Checkouts, NEW g \in Settings, NEW l \in Settings
  PROVE  Combined(r, g, l) \in RuntimeConfigs
<1>1. g.bases \in Seq(Stored) /\ l.bases \in Seq(Stored)
  BY DEF Settings
<1>2. BasesOf(r, g.bases) \cup BasesOf(r, l.bases) \in SUBSET Folders
  BY <1>1, ResolvedFolders
<1> QED BY <1>2 DEF Settings, Combined, Or, RuntimeConfigs

\* Without the first of its folder, a list names the folder only if it named it twice.
LEMMA RemoveFirstFacts ==
  ASSUME NEW S, NEW q \in Seq(S), NEW e \in ToSet(q)
  PROVE  /\ RemoveFirst(q, e) \in Seq(S)
         /\ ToSet(RemoveFirst(q, e)) =
              IF \E i, j \in DOMAIN q : i # j /\ q[i] = e /\ q[j] = e
              THEN ToSet(q) ELSE ToSet(q) \ {e}
<1> DEFINE I == {i \in 1 .. Len(q) : q[i] = e}
           k == Min(I)
           a == SubSeq(q, 1, k - 1)
           b == SubSeq(q, k + 1, Len(q))
           c == a \o b
<1>1. Len(q) \in Nat /\ DOMAIN q = 1 .. Len(q) /\ \A i \in 1 .. Len(q) : q[i] \in S
  OBVIOUS
<1>2. I \subseteq Nat /\ I # {}
  BY <1>1 DEF ToSet
<1>3. \E i \in I : \A j \in I : i <= j
  BY <1>2, LeastNumber
<1>4. k \in I
  BY <1>3 DEF Min
<1>5. RemoveFirst(q, e) = c
  BY <1>1, <1>2 DEF RemoveFirst, RemoveAt, SelectInSeq
<1>6. k \in 1 .. Len(q) /\ q[k] = e
  BY <1>4
<1> HIDE DEF I, k
<1>7. /\ a \in Seq(S) /\ Len(a) = k - 1 /\ \A i \in 1 .. k - 1 : a[i] = q[i]
  BY <1>1, <1>6
<1>8. /\ b \in Seq(S) /\ Len(b) = Len(q) - k /\ \A i \in 1 .. Len(q) - k : b[i] = q[i + k]
  <2>1. /\ b \in Seq(S) /\ Len(b) = (IF k + 1 <= Len(q) THEN Len(q) - (k + 1) + 1 ELSE 0)
        /\ \A i \in 1 .. Len(q) - (k + 1) + 1 : b[i] = q[(k + 1) + i - 1]
    BY <1>1, <1>6, SubSeqProperties
  <2>2. \A i \in 1 .. Len(q) - k : (k + 1) + i - 1 = i + k
    BY <1>1, <1>6
  <2>3. Len(q) - (k + 1) + 1 = Len(q) - k
    BY <1>1, <1>6
  <2>4. k + 1 <= Len(q) \/ Len(q) - k = 0
    <3>1. k \in Int /\ Len(q) \in Int /\ k <= Len(q)
      BY <1>1, <1>6
    <3> QED BY <3>1
  <2> QED BY <2>1, <2>2, <2>3, <2>4
<1> HIDE DEF a, b
<1>9. /\ c \in Seq(S) /\ Len(c) = Len(q) - 1
      /\ \A i \in 1 .. Len(q) - 1 : c[i] = IF i <= k - 1 THEN a[i] ELSE b[i - (k - 1)]
  <2>1. /\ c \in Seq(S) /\ Len(c) = Len(a) + Len(b)
        /\ \A i \in 1 .. Len(a) + Len(b) : c[i] = IF i <= Len(a) THEN a[i] ELSE b[i - Len(a)]
    BY <1>7, <1>8, ConcatProperties
  <2>2. Len(a) + Len(b) = Len(q) - 1
    BY <1>1, <1>6, <1>7, <1>8
  <2> HIDE DEF c
  <2> QED BY <1>7, <2>1, <2>2
<1> HIDE DEF c
<1>10. DOMAIN c = 1 .. Len(q) - 1
  BY <1>9
<1>11. \A i \in DOMAIN c : c[i] = IF i < k THEN q[i] ELSE q[i + 1]
  <2> SUFFICES ASSUME NEW i \in DOMAIN c PROVE c[i] = IF i < k THEN q[i] ELSE q[i + 1]
    OBVIOUS
  <2>1. i \in 1 .. Len(q) - 1
    BY <1>10
  <2>2. CASE i < k
    <3>1. i \in 1 .. k - 1
      BY <2>1, <2>2, <1>6
    <3> QED BY <1>7, <1>9, <2>1, <2>2, <3>1
  <2>3. CASE ~(i < k)
    <3>1. i - (k - 1) \in 1 .. Len(q) - k /\ (i - (k - 1)) + k = i + 1 /\ ~(i <= k - 1)
      BY <2>1, <2>3, <1>1, <1>6
    <3>2. b[i - (k - 1)] = q[i + 1]
      BY <1>8, <3>1
    <3>3. c[i] = b[i - (k - 1)]
      BY <1>9, <2>1, <3>1
    <3> QED BY <2>3, <3>2, <3>3
  <2> QED BY <2>2, <2>3
<1>12. \A i \in DOMAIN c : \E j \in DOMAIN q \ {k} : c[i] = q[j]
  <2> SUFFICES ASSUME NEW i \in DOMAIN c PROVE \E j \in DOMAIN q \ {k} : c[i] = q[j]
    OBVIOUS
  <2>1. CASE i < k
    BY <1>1, <1>6, <1>10, <1>11, <2>1
  <2>2. CASE ~(i < k)
    <3>1. i + 1 \in DOMAIN q \ {k} /\ c[i] = q[i + 1]
      BY <1>1, <1>6, <1>10, <1>11, <2>2
    <3> QED BY <3>1
  <2> QED BY <2>1, <2>2
<1>13. \A j \in DOMAIN q \ {k} : \E i \in DOMAIN c : c[i] = q[j]
  <2> SUFFICES ASSUME NEW j \in DOMAIN q \ {k} PROVE \E i \in DOMAIN c : c[i] = q[j]
    OBVIOUS
  <2>1. CASE j < k
    BY <1>1, <1>6, <1>10, <1>11, <2>1
  <2>2. CASE ~(j < k)
    <3>1. j - 1 \in DOMAIN c /\ c[j - 1] = q[(j - 1) + 1]
      BY <1>1, <1>6, <1>10, <1>11, <2>2
    <3>2. (j - 1) + 1 = j
      BY <1>1
    <3> QED BY <3>1, <3>2
  <2> QED BY <2>1, <2>2
<1>14. ToSet(c) = {q[j] : j \in DOMAIN q \ {k}}
  BY <1>12, <1>13 DEF ToSet
<1>15. ToSet(q) = {q[j] : j \in DOMAIN q \ {k}} \cup {e}
  BY <1>1, <1>6 DEF ToSet
<1>16. e \in ToSet(c) <=> \E i, j \in DOMAIN q : i # j /\ q[i] = e /\ q[j] = e
  BY <1>1, <1>6, <1>14
<1> QED BY <1>5, <1>9, <1>14, <1>15, <1>16


\* What a session reads once its checkout has a configuration of its own.
LEMMA OwnRead ==
  ConfigurationTypes =>
    \A s \in Session :
      /\ config[Own(s)] \in Settings
      /\ \A i \in DOMAIN config[Own(s)].bases : config[Own(s)].bases[i][1] # RootOf[s]
      /\ Or(config[Own(s)].provider, GlobalContent(s).provider) # "bad"
      => Reads(s) = Combined(RootOf[s], GlobalContent(s), config[Own(s)])
<1> SUFFICES ASSUME ConfigurationTypes, NEW s \in Session,
                    config[Own(s)] \in Settings,
                    \A i \in DOMAIN config[Own(s)].bases : config[Own(s)].bases[i][1] # RootOf[s],
                    Or(config[Own(s)].provider, GlobalContent(s).provider) # "bad"
             PROVE  Reads(s) = Combined(RootOf[s], GlobalContent(s), config[Own(s)])
  OBVIOUS
<1> DEFINE r == RootOf[s]
           h == ModeOf[s]
           content == config[Own(s)]
<1>1. r \in Checkouts /\ h \in HostMode /\ Own(s)[1] = r
  BY SessionFacts DEF Own
<1>2. content \in Settings /\ content # Missing /\ content # Broken
  BY ConfigurationAssumption
<1>3. ProjectConfig(r, h) = Own(s)
  BY <1>2, OwnFirst DEF Exists
<1>4. Layer(r, h) = [content EXCEPT !.bases =
                      [i \in DOMAIN content.bases |-> Inherited(r, content.bases[i])]]
  BY <1>1, <1>2, <1>3 DEF Layer, Each, OrEmpty
<1>5. \A i \in DOMAIN content.bases : Inherited(r, content.bases[i]) = content.bases[i]
  BY DEF Inherited
<1> HIDE DEF content
<1>6. content.bases \in Seq(Stored)
  BY <1>2 DEF Settings
<1>7. [i \in DOMAIN content.bases |-> Inherited(r, content.bases[i])] = content.bases
  BY <1>5, <1>6
<1>8. Layer(r, h) = content
  BY <1>2, <1>4, <1>7 DEF Settings
<1>9. config[ProjectConfig(r, h)] # Broken /\ config[ProjectConfig(r, h)] # Missing
  BY <1>2, <1>3 DEF content
<1> HIDE DEF r, h
<1>10. Or(content.provider, OrEmpty(config[GlobalConfig(h)]).provider) # "bad"
  BY DEF content, GlobalContent, h
<1>11. Runtime(r, h) = Combined(r, OrEmpty(config[GlobalConfig(h)]), content)
  BY <1>1, <1>8, <1>9, <1>10, RuntimeFacts
<1> QED BY <1>11 DEF content, r, h, GlobalContent, Reads

\* An Indexer's index is one of the project, or that of the host in the user's home.
LEMMA IndexerOwned ==
  ASSUME NEW s \in Session
  PROVE  Indexer(s) \in OwnedIndexes(RootOf[s], ModeOf[s]) \cup ({Home} \X HostMode)
<1> DEFINE r == RootOf[s]
           h == ModeOf[s]
<1>1. r \in Checkouts /\ h \in HostMode /\ LegacyMode \in HostMode
  BY SessionFacts, ConfigurationAssumption
<1>2. r \in Linked \/ r = Main
  BY <1>1 DEF Checkouts
<1> HIDE DEF r, h
<1>3. GlobalIndex(h) \in {Home} \X HostMode
  BY <1>1 DEF GlobalIndex
<1>4. MainIndex(h) \in OwnedIndexes(r, h)
  BY DEF MainIndex, OwnedIndexes
<1>5. LinkedIndex(r, h) \in OwnedIndexes(r, h)
  BY DEF LinkedIndex, OwnedIndexes
<1>6. \A scope : IndexPath(r, h, scope) \in OwnedIndexes(r, h) \cup ({Home} \X HostMode)
  BY <1>3, <1>4, <1>5 DEF IndexPath
<1> QED BY <1>6 DEF Indexer, r, h

\* The list that an edit starts from.
LEMMA EditableFacts ==
  ASSUME ConfigurationTypes, NEW s \in Session
  PROVE  LET l == Layer(RootOf[s], ModeOf[s])
             old == Editable(s).bases
         IN /\ l \in Settings /\ old \in Seq(Folders) /\ ToSet(old) = BasesOf(RootOf[s], l.bases)
            /\ Editable(s) = [l EXCEPT !.bases = old]
<1> DEFINE r == RootOf[s]
           l == Layer(RootOf[s], ModeOf[s])
           list == [i \in DOMAIN l.bases |-> ResolvedPath(r, l.bases[i])]
<1>1. r \in Checkouts /\ l \in Settings
  BY SessionFacts, LayerFacts
<1>2. Editable(s) = [l EXCEPT !.bases = list]
  BY DEF Editable, WithFolders, Each
<1> HIDE DEF l, r
<1>3. l.bases \in Seq(Stored)
  BY <1>1 DEF Settings
<1>4. list \in Seq(Folders)
  BY <1>1, <1>3, PathFacts
<1>5. ToSet(list) = BasesOf(r, l.bases)
  BY DEF ToSet, BasesOf
<1> HIDE DEF list
<1>6. Editable(s).bases = list
  BY <1>1, <1>2 DEF Settings
<1> QED BY <1>1, <1>2, <1>4, <1>5, <1>6 DEF l, r


\* An edit begins with what it will write, of which the next lemma says the rest.
Begins(s, op, folder, given) ==
  LET old == Editable(s).bases
      twice == \E i, j \in DOMAIN old : i # j /\ old[i] = folder /\ old[j] = folder
  IN /\ folder \in Folders /\ given \in Seq(Folders)
     /\ \/ op = "add" /\ ToSet(given) = ToSet(old) \cup {folder}
        \/ /\ op = "remove" /\ folder \in ToSet(old)
           /\ ToSet(given) = IF twice THEN ToSet(old) ELSE ToSet(old) \ {folder}

\* An edit that begins is of its type, and what it will write is explained.
LEMMA EditBegun ==
  ASSUME ConfigurationTypes, NEW s \in Session, NEW op, NEW folder, NEW given,
         Begins(s, op, folder, given), BeginEdit(s, op, folder, given)
  PROVE  /\ editing'[s] \in EditRecords
         /\ editing'[s].before # Broken => Explains(RootOf[s], GlobalContent(s), editing'[s])
<1> DEFINE r == RootOf[s]
           g == GlobalContent(s)
           l == Layer(RootOf[s], ModeOf[s])
           old == Editable(s).bases
           before == Runtime(RootOf[s], ModeOf[s])
           twice == \E i, j \in DOMAIN old : i # j /\ old[i] = folder /\ old[j] = folder
           list == [i \in DOMAIN given |-> Serialized(r, given[i])]
           content == [Editable(s) EXCEPT !.bases = list]
           e == [op |-> op, folder |-> folder, step |-> "open", alone |-> TRUE,
                 before |-> before, twice |-> twice, content |-> content]
<1>1. r \in Checkouts /\ ModeOf[s] \in HostMode /\ g \in Settings /\ l \in Settings
  BY SessionFacts, LayerFacts DEF GlobalContent
<1>2. editing'[s] = e
  BY DEF BeginEdit, ConfigurationTypes, Each
<1>3. /\ folder \in Folders /\ given \in Seq(Folders) /\ twice \in BOOLEAN
      /\ op \in {"add", "remove"}
  BY DEF Begins
<1>4. ToSet(given) = IF op = "add" \/ twice THEN ToSet(old) \cup {folder} ELSE ToSet(old) \ {folder}
  BY DEF Begins
<1>5. before = Broken \/ (before = Combined(r, g, l) /\ Or(l.provider, g.provider) # "bad")
  BY <1>1, RuntimeFacts DEF GlobalContent
<1>6. ToSet(old) = BasesOf(r, l.bases) /\ Editable(s) = [l EXCEPT !.bases = old]
  BY EditableFacts
<1> HIDE DEF r, g, l, old, before, twice
<1>7. before \in RuntimeConfigs \cup {Broken}
  BY <1>1, <1>5, CombinedType
<1>8. \A i \in DOMAIN given : given[i] \in Folders
  BY <1>3
<1>9. \A i \in DOMAIN list : /\ list[i] \in Stored /\ list[i][1] # r
                              /\ ResolvedPath(r, list[i]) = given[i]
  BY <1>1, <1>8, PathFacts
<1>10. list \in Seq(Stored) /\ DOMAIN list = DOMAIN given
  BY <1>3, <1>9
<1>11. BasesOf(r, list) = ToSet(given)
  BY <1>9, <1>10 DEF BasesOf, ToSet
<1> HIDE DEF list
<1>12. content = [bases |-> list, scope |-> l.scope, provider |-> l.provider]
  <2>1. l = [bases |-> l.bases, scope |-> l.scope, provider |-> l.provider]
    BY <1>1 DEF Settings
  <2>2. \A X : [l EXCEPT !.bases = X] = [bases |-> X, scope |-> l.scope, provider |-> l.provider]
    BY <2>1
  <2>3. Editable(s) = [bases |-> old, scope |-> l.scope, provider |-> l.provider]
    BY <1>6, <2>2
  <2> QED BY <2>3
<1>13. content \in Settings
  BY <1>1, <1>10, <1>12 DEF Settings
<1> HIDE DEF content
<1>14. e \in EditRecords
  BY <1>3, <1>7, <1>13 DEF EditRecords
<1>15. ASSUME before # Broken
       PROVE  Explains(r, g, e)
  <2> DEFINE B == BasesOf(r, g.bases) \cup BasesOf(r, l.bases)
  <2>1. /\ content.bases = list /\ content.scope = l.scope /\ content.provider = l.provider
    BY <1>12
  <2>2. /\ \A i \in DOMAIN content.bases : content.bases[i][1] # r
        /\ Or(content.provider, g.provider) # "bad"
    BY <1>5, <1>9, <1>15, <2>1
  <2>3. before = [bases |-> B, scope |-> Or(l.scope, g.scope), provider |-> Or(l.provider, g.provider)]
    BY <1>5, <1>15 DEF Combined
  <2>4. Combined(r, g, content) =
          [bases |-> BasesOf(r, g.bases) \cup ToSet(given), scope |-> Or(l.scope, g.scope),
           provider |-> Or(l.provider, g.provider)]
    BY <1>11, <2>1 DEF Combined
  <2>5. BasesOf(r, g.bases) \cup ToSet(given) =
          IF op = "add" \/ twice \/ folder \in BasesOf(r, g.bases)
          THEN B \cup {folder} ELSE B \ {folder}
    BY <1>4, <1>6
  <2>6. \A X : [before EXCEPT !.bases = X] =
               [bases |-> X, scope |-> Or(l.scope, g.scope), provider |-> Or(l.provider, g.provider)]
    BY <2>3
  <2>7. before.bases = B
    BY <2>3
  <2> HIDE DEF B
  <2>8. Combined(r, g, content) = [before EXCEPT !.bases =
          IF op = "add" \/ twice \/ folder \in BasesOf(r, g.bases)
          THEN before.bases \cup {folder} ELSE before.bases \ {folder}]
    BY <2>4, <2>5, <2>6, <2>7
  <2>9. /\ e.op = op /\ e.twice = twice /\ e.folder = folder /\ e.before = before
        /\ e.content = content
    OBVIOUS
  <2> HIDE DEF e
  <2> QED BY <2>2, <2>8, <2>9 DEF Explains
<1> QED BY <1>2, <1>14, <1>15 DEF r, g, before

\* Both tools begin so.
LEMMA ToolsBegin ==
  ASSUME ConfigurationTypes, NEW s \in Session, NEW folder \in Folders
  PROVE  LET old == Editable(s).bases
         IN /\ Begins(s, "add", folder, Append(old, folder))
            /\ folder \in ToSet(old) => Begins(s, "remove", folder, RemoveFirst(old, folder))
<1> DEFINE old == Editable(s).bases
<1>1. old \in Seq(Folders)
  BY EditableFacts
<1> HIDE DEF old
<1>2. Append(old, folder) \in Seq(Folders)
  BY <1>1
<1>3. ToSet(Append(old, folder)) = ToSet(old) \cup {folder}
  <2> DEFINE a == Append(old, folder)
  <2>1. /\ Len(old) \in Nat /\ DOMAIN old = 1 .. Len(old) /\ DOMAIN a = 1 .. Len(old) + 1
        /\ a[Len(old) + 1] = folder /\ \A i \in DOMAIN old : i \in DOMAIN a /\ a[i] = old[i]
    BY <1>1
  <2>2. \A i \in DOMAIN a : i \in DOMAIN old \/ i = Len(old) + 1
    BY <2>1
  <2>3. Len(old) + 1 \in DOMAIN a
    BY <2>1
  <2> HIDE DEF a
  <2> QED BY <2>1, <2>2, <2>3 DEF ToSet
<1>4. Begins(s, "add", folder, Append(old, folder))
  BY <1>2, <1>3 DEF Begins, old
<1>5. ASSUME folder \in ToSet(old)
      PROVE  Begins(s, "remove", folder, RemoveFirst(old, folder))
  BY <1>1, <1>5, RemoveFirstFacts DEF Begins, old
<1> QED BY <1>4, <1>5 DEF old


\* Initially the files have their contents, and nothing is edited or cached.
LEMMA ConfigurationStart == ConfigurationInit => ConfigurationInv
<1> SUFFICES ASSUME ConfigurationInit PROVE ConfigurationInv
  OBVIOUS
<1>1. \A s \in Session : editing[s] = Nothing /\ cache[s] = Nothing
  BY DEF ConfigurationInit
<1>2. config \in [Places -> Content] /\ DOMAIN editing = Session /\ DOMAIN cache = Session
  BY LayoutsAssumption DEF ConfigurationInit, Content
<1> QED BY <1>1, <1>2 DEF ConfigurationInv, ConfigurationTypes, EditsExplained

\* An edit that others overtake keeps its type.
LEMMA OvertakenFacts ==
  \A e \in EditRecords : LET o == [e EXCEPT !.alone = FALSE]
                        IN o \in EditRecords /\ o.alone = FALSE /\ o.step = e.step
BY DEF EditRecords

\* A step that leaves files and edits alone, or begins no edit, keeps what it can not touch.
LEMMA ConfigurationStep ==
  ConfigurationInv /\ [ConfigurationNext]_configurationVars => ConfigurationInv'
<1> SUFFICES ASSUME ConfigurationInv, [ConfigurationNext]_configurationVars
             PROVE  ConfigurationInv'
  OBVIOUS
<1> USE DEF ConfigurationInv
<1>1. CASE UNCHANGED configurationVars
  BY <1>1 DEF ConfigurationTypes, EditsExplained, configurationVars, GlobalContent, GlobalConfig,
              Exists
<1>2. ASSUME NEW s \in Session, OpenIndexer(s) \/ RefreshIndexer(s) PROVE ConfigurationInv'
  <2>1. UNCHANGED <<config, editing>> /\ cache' = [cache EXCEPT ![s] = Indexer(s)]
    BY <1>2 DEF OpenIndexer, RefreshIndexer
  <2>2. ConfigurationTypes'
    BY <2>1, IndexerOwned DEF ConfigurationTypes
  <2>3. EditsExplained'
    BY <2>1 DEF EditsExplained, GlobalContent, GlobalConfig, Exists
  <2> QED BY <2>2, <2>3
<1>3. ASSUME NEW s \in Session, MakeIndex(s) PROVE ConfigurationInv'
  BY <1>3 DEF MakeIndex, ConfigurationTypes, EditsExplained, GlobalContent, GlobalConfig, Exists
<1>4. ASSUME NEW s \in Session, NEW op, NEW folder, NEW given,
             Begins(s, op, folder, given), BeginEdit(s, op, folder, given)
      PROVE  ConfigurationInv'
  <2>1. /\ UNCHANGED <<config, cache>> /\ DOMAIN editing' = Session
        /\ \A t \in Session : t # s => editing'[t] = editing[t]
    BY <1>4 DEF BeginEdit, ConfigurationTypes
  <2>2. /\ editing'[s] \in EditRecords
        /\ editing'[s].before # Broken => Explains(RootOf[s], GlobalContent(s), editing'[s])
    BY <1>4, EditBegun
  <2>3. ConfigurationTypes'
    BY <2>1, <2>2 DEF ConfigurationTypes
  <2>4. \A t \in Session : GlobalContent(t)' = GlobalContent(t)
    BY <2>1 DEF GlobalContent, GlobalConfig, Exists
  <2>5. EditsExplained'
    BY <2>1, <2>2, <2>4 DEF EditsExplained
  <2> QED BY <2>3, <2>5
<1>5. ASSUME NEW s \in Session, NEW folder \in Folders,
             AddKnowledgeBase(s, folder) \/ RemoveKnowledgeBase(s, folder)
      PROVE  ConfigurationInv'
  BY <1>4, <1>5, ToolsBegin DEF AddKnowledgeBase, RemoveKnowledgeBase
<1>6. ASSUME NEW s \in Session, NEW content \in Content, NEW to \in {"write", "refresh"},
             editing[s] # Nothing, editing[s].step \in {"open", "write"},
             config' = [config EXCEPT ![Own(s)] = content],
             editing' = [Overtaken(s) EXCEPT ![s].step = to], UNCHANGED cache
      PROVE  ConfigurationInv'
  <2>1. editing[s] \in EditRecords /\ Own(s) \in Places
    BY <1>6, SessionFacts DEF ConfigurationTypes
  <2>2. /\ DOMAIN editing' = Session /\ editing'[s] = [editing[s] EXCEPT !.step = to]
        /\ \A t \in Session : t # s =>
             editing'[t] = IF editing[t] # Nothing THEN [editing[t] EXCEPT !.alone = FALSE]
                           ELSE editing[t]
    BY <1>6 DEF Overtaken
  <2>3. editing'[s] \in EditRecords
    BY <2>1, <2>2 DEF EditRecords
  <2>4. \A t \in Session : t # s => editing'[t] = Nothing \/
                                    (editing'[t] \in EditRecords /\ ~editing'[t].alone)
    <3>1. \A t \in Session : editing[t] = Nothing \/ editing[t] \in EditRecords
      BY DEF ConfigurationTypes
    <3> QED BY <2>2, <3>1, OvertakenFacts
  <2>5. config' \in [Places -> Content]
    BY <1>6, <2>1 DEF ConfigurationTypes
  <2>6. ConfigurationTypes'
    BY <1>6, <2>2, <2>3, <2>4, <2>5 DEF ConfigurationTypes
  <2>7. \A h \in HostMode : config'[<<Home, h>>] = config[<<Home, h>>]
    BY <1>6, <2>1, SessionFacts, ConfigurationAssumption DEF ConfigurationTypes, Places, Own, Home
  <2>8. GlobalContent(s)' = GlobalContent(s)
    BY <2>7, SessionFacts, ConfigurationAssumption DEF GlobalContent, GlobalConfig, Exists
  <2>9. /\ editing'[s].alone = editing[s].alone /\ editing'[s].before = editing[s].before
        /\ editing'[s].content = editing[s].content /\ editing'[s].op = editing[s].op
        /\ editing'[s].twice = editing[s].twice /\ editing'[s].folder = editing[s].folder
    BY <2>1, <2>2 DEF EditRecords
  <2>10. Explains(RootOf[s], GlobalContent(s), editing[s])
           => Explains(RootOf[s], GlobalContent(s), editing'[s])
    BY <2>9 DEF Explains
  <2>11. EditsExplained'
    BY <1>6, <2>4, <2>8, <2>9, <2>10 DEF EditsExplained
  <2> QED BY <2>6, <2>11
<1>7. ASSUME NEW s \in Session, OpenConfig(s) PROVE ConfigurationInv'
  BY <1>6, <1>7 DEF OpenConfig, Content
<1>8. ASSUME NEW s \in Session, WriteConfig(s) PROVE ConfigurationInv'
  <2>1. editing[s].content \in Content
    BY <1>8 DEF WriteConfig, ConfigurationTypes, EditRecords, Content
  <2> QED BY <1>6, <1>8, <2>1 DEF WriteConfig
<1>9. ASSUME NEW s \in Session, EndEdit(s) \/ Kill(s) PROVE ConfigurationInv'
  <2>1. UNCHANGED config /\ editing' = [editing EXCEPT ![s] = Nothing]
    BY <1>9 DEF EndEdit, Kill
  <2>2. \/ cache' = [cache EXCEPT ![s] = Indexer(s)]
        \/ cache' = cache \/ cache' = [cache EXCEPT ![s] = Nothing]
    BY <1>9 DEF EndEdit, Kill
  <2>3. ConfigurationTypes'
    BY <2>1, <2>2, IndexerOwned DEF ConfigurationTypes
  <2>4. EditsExplained'
    BY <2>1 DEF EditsExplained, ConfigurationTypes, GlobalContent, GlobalConfig, Exists
  <2> QED BY <2>3, <2>4
<1>10. CASE WriteByHand
  <2>1. config' \in [Places -> Content]
    BY <1>10, ConfigurationAssumption DEF WriteByHand, ConfigurationTypes, Content
  <2>2. /\ UNCHANGED cache /\ DOMAIN editing' = Session
        /\ \A t \in Session :
             editing'[t] = IF editing[t] # Nothing THEN [editing[t] EXCEPT !.alone = FALSE] ELSE Nothing
    BY <1>10 DEF WriteByHand
  <2>3. \A t \in Session : editing'[t] = Nothing \/
                           (editing'[t] \in EditRecords /\ ~editing'[t].alone)
    BY <2>2, OvertakenFacts DEF ConfigurationTypes
  <2>4. ConfigurationTypes'
    BY <2>1, <2>2, <2>3 DEF ConfigurationTypes
  <2>5. EditsExplained'
    BY <2>3 DEF EditsExplained
  <2> QED BY <2>4, <2>5
<1> QED
  BY <1>1, <1>2, <1>3, <1>5, <1>7, <1>8, <1>9, <1>10 DEF ConfigurationNext

\* Whichever worktree, mode, files and edits there are, a worktree resolves the index of main,
\* and a cached Indexer's index is its project's own or that of its host in the user's home.
THEOREM InheritedAlways == ConfigurationSpec => []IndexInherited
<1>1. ConfigurationInv => IndexInherited
  <2>1. ASSUME ConfigurationInv, NEW r \in Linked, NEW h \in HostMode, Inherits(r, h)
        PROVE  \/ LinkedIndex(r, h) = MainIndex(h)
               \/ LinkedIndex(r, h) \notin built /\ MainIndex(h) \notin built
    BY <2>1 DEF Inherits, LinkedIndex, MainIndex
  <2> QED BY <2>1 DEF IndexInherited, ConfigurationInv, ConfigurationTypes
<1> QED BY <1>1, ConfigurationStart, ConfigurationStep, PTL DEF ConfigurationSpec

\* Only its own step takes an edit from writing to what follows.
LEMMA EditEnds ==
  ASSUME ConfigurationTypes, [ConfigurationNext]_configurationVars, NEW s \in Session,
         editing[s] # Nothing, editing'[s] # Nothing,
         editing[s].step = "write", editing'[s].step = "refresh"
  PROVE  WriteConfig(s)
<1>1. editing[s] \in EditRecords
  BY DEF ConfigurationTypes
<1>2. editing'[s] # editing[s]
  OBVIOUS
<1>3. ASSUME NEW t \in Session, NEW op, NEW folder, NEW given, BeginEdit(t, op, folder, given)
      PROVE  FALSE
  BY <1>2, <1>3 DEF BeginEdit, ConfigurationTypes
<1>4. ASSUME NEW t \in Session, NEW to, to = "write" \/ t # s,
             editing' = [Overtaken(t) EXCEPT ![t].step = to]
      PROVE  FALSE
  <2>1. CASE t = s
    <3>1. editing'[s] = [editing[s] EXCEPT !.step = "write"]
      BY <1>4, <2>1 DEF Overtaken
    <3>2. editing'[s].step = "write"
      BY <1>1, <3>1 DEF EditRecords
    <3> QED BY <3>2
  <2>2. CASE t # s
    <3>1. editing'[s] = [editing[s] EXCEPT !.alone = FALSE]
      BY <1>4, <2>2 DEF Overtaken
    <3>2. editing'[s].step = "write"
      BY <1>1, <3>1, OvertakenFacts
    <3> QED BY <3>2
  <2> QED BY <2>1, <2>2
<1>5. ASSUME NEW t \in Session, EndEdit(t) \/ Kill(t) PROVE FALSE
  BY <1>2, <1>5 DEF EndEdit, Kill, ConfigurationTypes
<1>6. CASE WriteByHand
  <2>1. editing'[s] = [editing[s] EXCEPT !.alone = FALSE]
    BY <1>6 DEF WriteByHand
  <2> QED BY <1>1, <2>1, OvertakenFacts
<1>7. ASSUME NEW t \in Session, OpenIndexer(t) \/ RefreshIndexer(t) \/ MakeIndex(t) PROVE FALSE
  BY <1>2, <1>7 DEF OpenIndexer, RefreshIndexer, MakeIndex
<1>8. ASSUME NEW t \in Session, NEW folder \in Folders,
             AddKnowledgeBase(t, folder) \/ RemoveKnowledgeBase(t, folder)
      PROVE  FALSE
  BY <1>3, <1>8 DEF AddKnowledgeBase, RemoveKnowledgeBase
<1>9. ASSUME NEW t \in Session, OpenConfig(t) PROVE FALSE
  BY <1>4, <1>9 DEF OpenConfig
<1>10. ASSUME NEW t \in Session, WriteConfig(t) PROVE WriteConfig(s)
  BY <1>4, <1>10 DEF WriteConfig
<1> QED
  BY <1>2, <1>5, <1>6, <1>7, <1>8, <1>9, <1>10 DEF ConfigurationNext, configurationVars

\* What OwnRead says holds after a step as well.
LEMMA OwnReadNext ==
  (ConfigurationTypes =>
    \A s \in Session :
      /\ config[Own(s)] \in Settings
      /\ \A i \in DOMAIN config[Own(s)].bases : config[Own(s)].bases[i][1] # RootOf[s]
      /\ Or(config[Own(s)].provider, GlobalContent(s).provider) # "bad"
      => Reads(s) = Combined(RootOf[s], GlobalContent(s), config[Own(s)]))'
BY OwnRead, PTL

\* An edit of the knowledge bases that nobody else meets changes that base and nothing else of
\* what the session reads, whichever file its configuration came from.
THEOREM EditsKeepRest == ConfigurationSpec => EditKeepsRest
<1> DEFINE Ends(s) ==
      /\ editing[s] # Nothing /\ editing'[s] # Nothing
      /\ editing[s].step = "write" /\ editing'[s].step = "refresh"
      /\ editing[s].alone /\ editing[s].before # Broken
    Kept(s) == Reads(s)' = [editing[s].before EXCEPT !.bases =
            IF editing[s].op = "add" \/ editing[s].twice \/ editing[s].folder \in GlobalBases(s)
            THEN @ \cup {editing[s].folder} ELSE @ \ {editing[s].folder}]
<1>1. ConfigurationInv /\ ConfigurationInv' /\ [ConfigurationNext]_configurationVars
        => [\A s \in Session : Ends(s) => Kept(s)]_configurationVars
  <2> SUFFICES ASSUME ConfigurationInv, ConfigurationInv', [ConfigurationNext]_configurationVars,
                      NEW s \in Session, Ends(s)
               PROVE  Kept(s)
    BY DEF configurationVars
  <2>1. WriteConfig(s)
    BY EditEnds DEF ConfigurationInv
  <2>2. editing[s] \in EditRecords /\ Own(s) \in Places
    BY SessionFacts DEF ConfigurationInv, ConfigurationTypes
  <2>3. config' = [config EXCEPT ![Own(s)] = editing[s].content]
    BY <2>1 DEF WriteConfig
  <2>4. Own(s)' = Own(s)
    BY DEF Own
  <2>5. config'[Own(s)] = editing[s].content /\ editing[s].content \in Settings
    BY <2>2, <2>3 DEF ConfigurationInv, ConfigurationTypes, EditRecords
  <2>6. \A h \in HostMode : config'[<<Home, h>>] = config[<<Home, h>>]
    BY <2>2, <2>3, SessionFacts, ConfigurationAssumption
       DEF ConfigurationInv, ConfigurationTypes, Places, Own, Home
  <2>7. GlobalContent(s)' = GlobalContent(s)
    BY <2>6, SessionFacts, ConfigurationAssumption DEF GlobalContent, GlobalConfig, Exists
  <2>8. Explains(RootOf[s], GlobalContent(s), editing[s])
    BY DEF ConfigurationInv, EditsExplained
  <2>9. Reads(s)' = Combined(RootOf[s], GlobalContent(s), editing[s].content)
    <3>1. (/\ config[Own(s)] \in Settings
           /\ \A i \in DOMAIN config[Own(s)].bases : config[Own(s)].bases[i][1] # RootOf[s]
           /\ Or(config[Own(s)].provider, GlobalContent(s).provider) # "bad"
           => Reads(s) = Combined(RootOf[s], GlobalContent(s), config[Own(s)]))'
      BY OwnReadNext DEF ConfigurationInv
    <3> QED BY <2>4, <2>5, <2>7, <2>8, <3>1 DEF Explains
  <2>10. BasesOf(RootOf[s], GlobalContent(s).bases) = GlobalBases(s)
    BY DEF BasesOf, GlobalBases, GlobalContent, ToSet
  <2> QED BY <2>8, <2>9, <2>10 DEF Explains
<1> QED
  BY <1>1, ConfigurationStart, ConfigurationStep, PTL DEF ConfigurationSpec, EditKeepsRest

-----------------------------------------------------------------------------
(* The selection of files.                                                 *)

Collecting == phase \in {"folder", "stat"}
Walking == phase \in {"folder", "stat", "base", "done"}

\* A folder that the walk of r gets to, and a file that it looks at.
Reached(r, d) ==
  /\ d \in Path /\ r \in PathTo[d]
  /\ \A s \in Segments(r, d) : ~Passed(s) /\ CanRecurse(r, ParentOf[s])

Admitted(r, f) ==
  /\ f \in SourceFile /\ Below(r, f) /\ ~Ignores(r, f)
  /\ \A s \in Segments(r, f) : ~Passed(s) /\ (s \in Folder => CanRecurse(r, ParentOf[s]))

\* The folders of what exists exist.
DiskClosed == disk \subseteq Path /\ \A p \in disk : PathTo[p] \subseteq disk

\* What is in hand between two folders.
PhaseKept ==
  /\ phase \in {"idle", "folder", "stat", "base", "done", "failed"}
  /\ phase \in {"idle", "folder", "base", "done"} => entries = {} /\ found = {}
  /\ phase = "idle" => files = {}
  /\ phase = "done" => bases = {}
  /\ walked \in Roots /\ walked \in Folder /\ bases \subseteq Bases
  /\ phase = "idle" => walked = Project

\* What the walk has in hand it has come to by its rules, and is of one folder.
InHand ==
  Collecting =>
    /\ \A d \in ahead : Reached(walked, d)
    /\ \A f \in entries \cup found : Admitted(walked, f)
    /\ \A f \in found : Taken(f) /\ f \in disk \cup touched
    /\ \A f, g \in entries \cup found : ParentOf[f] = ParentOf[g]

\* So has it come to what it has collected.
Collected ==
  \A f \in files : /\ f \in SourceFile /\ f \in disk \cup touched
                   /\ \E r \in Roots : Selects(r, f)

\* What is still to come of a walk, and what a root that was walked has given.
Pending(f) == f \in entries \cup found \/ \E d \in ahead : d \in PathTo[f] \ {f}
Covered(r, f) == f \in files \/ Crowded(f) \/ <<r, r>> \in skipped

\* A file that has been there since the walk began is covered by every root that was walked.
RootsCovered ==
  Walking =>
    \A r \in Roots \ bases : \A f \in (disk \cap SourceFile) \ touched :
      Selects(r, f) => Covered(r, f) \/ (Collecting /\ r = walked /\ Pending(f))

SelectionInv == DiskClosed /\ PhaseKept /\ InHand /\ Collected /\ RootsCovered

-----------------------------------------------------------------------------
\* The way from a root to what lies in a folder below it.
LEMMA SegmentsStep ==
  ASSUME NEW r \in Path, NEW d \in Path, r \in PathTo[d], NEW p \in Path, p # d, ParentOf[p] = d
  PROVE  Segments(r, p) = Segments(r, d) \cup {p} /\ Below(r, p)
<1>1. PathTo[p] = {p} \cup PathTo[d] /\ d \in PathTo[p]
  BY TreeAssumption
<1>2. p \notin PathTo[d]
  BY <1>1, TreeAssumption
<1>3. p \notin PathTo[r]
  BY <1>2, TreeAssumption
<1>4. r \in PathTo[r]
  BY TreeAssumption
<1> QED BY <1>1, <1>3, <1>4 DEF Segments, Below

\* The way from a folder to a file below it goes on with something in the folder.
LEMMA NextSegment ==
  ASSUME NEW r \in Path, NEW d \in Path, r \in PathTo[d], NEW f \in Path, d \in PathTo[f] \ {f}
  PROVE  \E p \in PathTo[f] : /\ p \in Path /\ p # d /\ ParentOf[p] = d
                              /\ p \in Segments(r, f) /\ Segments(r, p) \subseteq Segments(r, f)
<1>1. PICK p \in PathTo[f] \ {d} : ParentOf[p] = d
  BY TreeAssumption
<1>2. p \in Path /\ PathTo[p] \subseteq PathTo[f]
  BY TreeAssumption
<1>3. p \in Segments(r, p)
  BY <1>1, <1>2, SegmentsStep
<1> QED BY <1>1, <1>2, <1>3 DEF Segments

\* A file whose changes the watcher passes over is in a blind spot.
LEMMA UnwatchedBlind ==
  ASSUME NEW f \in SourceFile, ~Watched(f)
  PROVE  f \in BlindSpot
<1> SUFFICES ASSUME f \notin BlindSpot PROVE FALSE
  OBVIOUS
<1>1. /\ f \notin Building /\ f \notin Excluded /\ Selects(Project, f)
      /\ \A s \in Segments(Project, f) : ParentOf[s] = Project => s \notin Restricted
  BY DEF BlindSpot
<1>2. \A s \in Segments(Project, f) : s = f \/ s \in Folder
  BY TreeAssumption DEF Segments, Path
<1>3. Segments(Project, f) \cap (Hidden \cup Building) = {}
  BY <1>1, <1>2 DEF Selects, Passed
<1> QED BY <1>1, <1>3 DEF Watched, ShouldIncludeFile, Selects

\* Of files that are collected later a folder is no less crowded.
LEMMA CrowdedGrows ==
  ASSUME NEW f, NEW A, NEW B, A \subseteq B, B \subseteq SourceFile,
         Cardinality({g \in A : ParentOf[g] = ParentOf[f] /\ SizeOf[g] <= SizeOf[f]})
           >= MaxFilesPerDirectory
  PROVE  Cardinality({g \in B : ParentOf[g] = ParentOf[f] /\ SizeOf[g] <= SizeOf[f]})
           >= MaxFilesPerDirectory
<1> DEFINE S == {g \in A : ParentOf[g] = ParentOf[f] /\ SizeOf[g] <= SizeOf[f]}
           T == {g \in B : ParentOf[g] = ParentOf[f] /\ SizeOf[g] <= SizeOf[f]}
<1>1. S \subseteq T /\ T \subseteq SourceFile
  OBVIOUS
<1> HIDE DEF S, T
<1>2. IsFiniteSet(T) /\ IsFiniteSet(S)
  BY <1>1, LimitsAssumption, FS_Subset
<1>3. Cardinality(S) \in Nat /\ Cardinality(T) \in Nat /\ Cardinality(S) <= Cardinality(T)
  BY <1>1, <1>2, FS_Subset, FS_CardinalityType
<1>4. Cardinality(S) >= MaxFilesPerDirectory
  BY DEF S
<1>5. Cardinality(T) >= MaxFilesPerDirectory
  BY <1>3, <1>4, LimitsAssumption
<1> QED BY <1>5 DEF T

\* The files that a folder keeps crowd out those it does not.
LEMMA KeptCrowd ==
  ASSUME NEW kept, kept \subseteq found, Limited(kept), NEW f \in found \ kept,
         NEW B, kept \subseteq B, B \subseteq SourceFile,
         \A g \in found : ParentOf[g] = ParentOf[f]
  PROVE  Cardinality({g \in B : ParentOf[g] = ParentOf[f] /\ SizeOf[g] <= SizeOf[f]})
           >= MaxFilesPerDirectory
<1>1. /\ Cardinality(kept) = MaxFilesPerDirectory
      /\ {g \in kept : ParentOf[g] = ParentOf[f] /\ SizeOf[g] <= SizeOf[f]} = kept
  BY DEF Limited
<1>2. Cardinality({g \in kept : ParentOf[g] = ParentOf[f] /\ SizeOf[g] <= SizeOf[f]})
        >= MaxFilesPerDirectory
  BY <1>1, LimitsAssumption
<1> QED BY <1>2, CrowdedGrows

\* What exists at first is closed, and nothing is in hand.
LEMMA SelectionStart == SelectionInit => SelectionInv
<1> SUFFICES ASSUME SelectionInit PROVE SelectionInv
  OBVIOUS
<1>1. DiskClosed
  BY DisksAssumption DEF SelectionInit, DiskClosed
<1>2. PhaseKept
  BY TreeAssumption DEF SelectionInit, PhaseKept, Roots
<1>3. InHand /\ Collected /\ RootsCovered
  BY DEF SelectionInit, InHand, Collected, RootsCovered, Collecting, Walking
<1> QED BY <1>1, <1>2, <1>3 DEF SelectionInv

\* What others do is noted.
LEMMA ChangesNoted ==
  ASSUME SelectionInv, Appears \/ Vanishes
  PROVE  SelectionInv'
<1>1. PICK p \in Path :
        /\ UNCHANGED walk /\ touched' = touched \cup {p}
        /\ \/ disk' = disk \cup {p} /\ ParentOf[p] \in disk
           \/ disk' = disk \ {p} /\ \A q \in disk : p \in PathTo[q] => q = p
  BY DEF Appears, Vanishes, Change, SelectionInv, DiskClosed
<1>2. DiskClosed'
  <2>1. CASE disk' = disk \cup {p} /\ ParentOf[p] \in disk
    <3>1. PathTo[p] = {p} \cup PathTo[ParentOf[p]]
      BY <2>1, TreeAssumption DEF SelectionInv, DiskClosed
    <3> QED BY <2>1, <3>1 DEF SelectionInv, DiskClosed
  <2>2. CASE disk' = disk \ {p} /\ \A q \in disk : p \in PathTo[q] => q = p
    BY <2>2 DEF SelectionInv, DiskClosed
  <2> QED BY <1>1, <2>1, <2>2
<1>3. PhaseKept'
  BY <1>1 DEF SelectionInv, PhaseKept, walk
<1>4. disk \cup touched \subseteq disk' \cup touched'
  BY <1>1
<1>5. InHand'
  BY <1>1, <1>4 DEF SelectionInv, InHand, Collecting, walk
<1>6. Collected'
  BY <1>1, <1>4 DEF SelectionInv, Collected, walk
<1>7. (disk' \cap SourceFile) \ touched' \subseteq (disk \cap SourceFile) \ touched
  BY <1>1
<1>8. RootsCovered'
  BY <1>1, <1>7 DEF SelectionInv, RootsCovered, Collecting, Walking, Covered, Pending, Crowded, walk
<1> QED BY <1>2, <1>3, <1>5, <1>6, <1>8 DEF SelectionInv

\* The walk begins with everything to come.
LEMMA WalkBegins ==
  ASSUME SelectionInv, CollectFiles
  PROVE  SelectionInv'
<1>1. /\ phase = "idle" /\ files = {} /\ entries = {} /\ found = {} /\ walked = Project
  BY DEF SelectionInv, PhaseKept, CollectFiles
<1>2. /\ phase' = "folder" /\ bases' = Bases /\ ahead' = {Project}
      /\ UNCHANGED <<disk, walked, entries, found, files, skipped>>
  BY DEF CollectFiles
<1>3. Project \in Path /\ Project \in PathTo[Project] /\ Segments(Project, Project) = {}
  BY TreeAssumption DEF Path, Segments
<1>4. DiskClosed' /\ PhaseKept' /\ Collected'
  BY <1>1, <1>2 DEF SelectionInv, DiskClosed, PhaseKept, Collected
<1>5. InHand'
  BY <1>1, <1>2, <1>3 DEF InHand, Reached
<1>6. \A r \in Roots \ bases' : r = walked'
  BY <1>1, <1>2 DEF Roots
<1>7. \A f : Selects(walked, f) => Pending(f)'
  BY <1>1, <1>2 DEF Selects, Below, Pending
<1>8. Collecting'
  BY <1>2 DEF Collecting
<1>9. RootsCovered'
  BY <1>2, <1>6, <1>7, <1>8 DEF RootsCovered
<1> QED BY <1>4, <1>5, <1>9 DEF SelectionInv

\* A folder that vanished ends the walk of its root.
LEMMA WalkEnds ==
  ASSUME SelectionInv, Collecting, WalkThrows, UNCHANGED <<disk, touched>>
  PROVE  SelectionInv'
<1>1. DiskClosed' /\ Collected'
  BY DEF SelectionInv, DiskClosed, Collected, WalkThrows
<1>2. CASE walked = Project
  <2>1. phase' = "failed" /\ UNCHANGED <<walked, bases, files>>
    BY <1>2 DEF WalkThrows
  <2>2. PhaseKept' /\ InHand' /\ RootsCovered'
    BY <2>1 DEF SelectionInv, PhaseKept, InHand, RootsCovered, Collecting, Walking
  <2> QED BY <1>1, <2>2 DEF SelectionInv
<1>3. CASE walked # Project
  <2>1. /\ entries' = {} /\ found' = {} /\ phase' = IF bases = {} THEN "done" ELSE "base"
        /\ skipped' = skipped \cup {<<walked, walked>>} /\ UNCHANGED <<walked, bases, files>>
    BY <1>3 DEF WalkThrows, NextBase
  <2>2. PhaseKept'
    BY <2>1 DEF SelectionInv, PhaseKept
  <2>3. InHand'
    BY <2>1 DEF InHand, Collecting
  <2>4. RootsCovered'
    BY <2>1 DEF SelectionInv, RootsCovered, Walking, Collecting, Covered, Crowded
  <2> QED BY <1>1, <2>2, <2>3, <2>4 DEF SelectionInv
<1> QED BY <1>2, <1>3

\* A folder is read: what is to come below it is still to come.
LEMMA FolderRead ==
  ASSUME SelectionInv, ReadFolder
  PROVE  SelectionInv'
<1>1. PICK d \in ahead :
        LET all     == {p \in disk \ {d} : ParentOf[p] = d}
            visible == {p \in all : ~Passed(p) /\ ~Ignores(walked, p)}
        IN IF d \notin disk THEN WalkThrows
           ELSE /\ entries' = visible \cap SourceFile /\ found' = {}
                /\ ahead' = (ahead \ {d}) \cup
                           (IF CanRecurse(walked, d) THEN visible \cap Folder ELSE {})
                /\ skipped \subseteq skipped' /\ phase' = "stat"
                /\ UNCHANGED <<walked, bases, files>>
  BY DEF ReadFolder
<1>2. phase = "folder" /\ UNCHANGED <<disk, touched>> /\ Collecting
  BY DEF ReadFolder, Collecting
<1>3. CASE d \notin disk
  BY <1>1, <1>2, <1>3, WalkEnds
<1>4. CASE d \in disk
  <2> DEFINE visible == {p \in disk \ {d} : ParentOf[p] = d /\ ~Passed(p) /\ ~Ignores(walked, p)}
  <2>1. /\ entries' = visible \cap SourceFile /\ found' = {}
        /\ ahead' = (ahead \ {d}) \cup (IF CanRecurse(walked, d) THEN visible \cap Folder ELSE {})
        /\ skipped \subseteq skipped' /\ phase' = "stat" /\ UNCHANGED <<walked, bases, files>>
    BY <1>1, <1>4
  <2>2. /\ walked \in Path /\ d \in Path /\ walked \in PathTo[d] /\ Reached(walked, d)
        /\ found = {} /\ entries = {} /\ disk \subseteq Path /\ \A p \in disk : PathTo[p] \subseteq disk
    BY <1>2 DEF SelectionInv, DiskClosed, PhaseKept, InHand, Reached, Path
  <2>3. \A p \in visible : /\ p \in disk /\ p \in Path /\ p # d /\ ParentOf[p] = d
                           /\ ~Passed(p) /\ ~Ignores(walked, p)
    BY <2>2
  <2>4. \A p \in disk \ {d} : ParentOf[p] = d /\ ~Passed(p) /\ ~Ignores(walked, p) => p \in visible
    OBVIOUS
  <2> HIDE DEF visible
  <2>5. DiskClosed' /\ Collected' /\ PhaseKept'
    BY <1>2, <2>1 DEF SelectionInv, DiskClosed, Collected, PhaseKept
  <2>6. \A p \in visible : Segments(walked, p) = Segments(walked, d) \cup {p} /\ Below(walked, p)
    BY <2>2, <2>3, SegmentsStep
  <2>7. \A s \in Segments(walked, d) : ~Passed(s) /\ CanRecurse(walked, ParentOf[s])
    BY <2>2 DEF Reached
  <2>8. \A p \in visible \cap SourceFile : Admitted(walked, p)
    BY <2>3, <2>6, <2>7, TreeAssumption DEF Admitted
  <2>9. ASSUME CanRecurse(walked, d), NEW p \in visible PROVE Reached(walked, p)
    BY <2>3, <2>6, <2>7, <2>9 DEF Reached, Below
  <2>10. InHand'
    <3>1. \A e \in ahead' : Reached(walked, e)
      BY <1>2, <2>1, <2>9 DEF SelectionInv, InHand
    <3> QED BY <1>2, <2>1, <2>3, <2>8, <3>1 DEF InHand
  <2>11. ASSUME NEW f \in disk \cap SourceFile, Selects(walked, f), Pending(f)
         PROVE  Pending(f)'
    <3>1. PICK e \in ahead : e \in PathTo[f] \ {f}
      BY <2>2, <2>11 DEF Pending
    <3>2. CASE e # d
      BY <2>1, <3>1, <3>2 DEF Pending
    <3>3. CASE e = d
      <4>1. f \in Path
        BY DEF Path
      <4>2. PICK p \in PathTo[f] : /\ p \in Path /\ p # d /\ ParentOf[p] = d
                                   /\ p \in Segments(walked, f)
                                   /\ Segments(walked, p) \subseteq Segments(walked, f)
        BY <2>2, <3>1, <3>3, <4>1, NextSegment
      <4>3. ~Passed(p) /\ ~Ignores(walked, p) /\ (p \in Folder => CanRecurse(walked, d))
        BY <2>11, <4>2 DEF Selects, Ignores
      <4>4. p \in visible
        BY <2>2, <2>4, <4>2, <4>3
      <4>5. CASE p = f
        BY <2>1, <4>4, <4>5 DEF Pending
      <4>6. CASE p # f
        <5>1. p \in Folder
          BY <4>1, <4>2, <4>6, TreeAssumption
        <5>2. p \in ahead'
          BY <2>1, <4>3, <4>4, <5>1
        <5> QED BY <4>2, <4>6, <5>2 DEF Pending
      <4> QED BY <4>5, <4>6
    <3> QED BY <3>2, <3>3
  <2>12. RootsCovered'
    BY <1>2, <2>1, <2>11 DEF SelectionInv, RootsCovered, Walking, Collecting, Covered, Crowded
  <2> QED BY <2>5, <2>10, <2>12 DEF SelectionInv
<1> QED BY <1>3, <1>4

\* A file is looked at: it is taken if a rule of the root selects it.
LEMMA EntryTaken ==
  ASSUME SelectionInv, StatEntry
  PROVE  SelectionInv'
<1>1. PICK f \in entries :
        IF f \notin disk THEN WalkThrows
        ELSE /\ entries' = entries \ {f} /\ found' = (IF Taken(f) THEN found \cup {f} ELSE found)
             /\ skipped \subseteq skipped' /\ UNCHANGED <<phase, walked, bases, ahead, files>>
  BY DEF StatEntry
<1>2. phase = "stat" /\ UNCHANGED <<disk, touched>> /\ Collecting
  BY DEF StatEntry, Collecting
<1>3. CASE f \notin disk
  BY <1>1, <1>2, <1>3, WalkEnds
<1>4. CASE f \in disk
  <2>1. /\ entries' = entries \ {f} /\ found' = (IF Taken(f) THEN found \cup {f} ELSE found)
        /\ skipped \subseteq skipped' /\ UNCHANGED <<phase, walked, bases, ahead, files>>
    BY <1>1, <1>4
  <2>2. DiskClosed' /\ Collected'
    BY <1>2, <2>1 DEF SelectionInv, DiskClosed, Collected
  <2>3. PhaseKept'
    BY <1>2, <2>1 DEF SelectionInv, PhaseKept
  <2>4. InHand'
    BY <1>2, <1>4, <2>1 DEF SelectionInv, InHand, Collecting
  <2>5. \A g : Selects(walked, g) /\ Pending(g) => Pending(g)'
    BY <2>1 DEF Pending, Selects, Taken
  <2>6. RootsCovered'
    BY <1>2, <2>1, <2>5 DEF SelectionInv, RootsCovered, Walking, Collecting, Covered, Crowded
  <2> QED BY <2>2, <2>3, <2>4, <2>6 DEF SelectionInv
<1> QED BY <1>3, <1>4

\* A folder ends: what it found is collected, or crowded out.
LEMMA FolderCollected ==
  ASSUME SelectionInv, FolderEnds
  PROVE  SelectionInv'
<1>1. PICK kept \in SUBSET found :
        /\ Limited(kept) /\ files' = files \cup kept /\ skipped \subseteq skipped'
  BY DEF FolderEnds
<1>2. /\ phase = "stat" /\ entries = {} /\ Collecting
      /\ UNCHANGED <<disk, walked, bases, touched>>
  BY DEF FolderEnds, Collecting
<1>3. /\ entries' = {} /\ found' = {} /\ ahead' = ahead
      /\ \/ ahead # {} /\ phase' = "folder"
         \/ ahead = {} /\ phase' = IF bases = {} THEN "done" ELSE "base"
  BY DEF FolderEnds, NextBase
<1>4. DiskClosed' /\ PhaseKept'
  BY <1>2, <1>3 DEF SelectionInv, DiskClosed, PhaseKept
<1>5. \A f \in found : /\ f \in SourceFile /\ Selects(walked, f) /\ f \in disk \cup touched
                       /\ \A g \in found : ParentOf[g] = ParentOf[f]
  BY <1>2 DEF SelectionInv, InHand, Admitted, Selects, Taken
<1>6. walked \in Roots
  BY DEF SelectionInv, PhaseKept
<1>7. Collected'
  BY <1>1, <1>2, <1>5, <1>6 DEF SelectionInv, Collected
<1>8. InHand'
  BY <1>2, <1>3 DEF SelectionInv, InHand
<1>9. files' \subseteq SourceFile /\ files \subseteq files' /\ kept \subseteq files'
  BY <1>1, <1>7 DEF Collected
<1>10. \A f : Crowded(f) => Crowded(f)'
  BY <1>9, CrowdedGrows DEF Crowded
<1>11. \A f \in found : f \in files' \/ Crowded(f)'
  <2> SUFFICES ASSUME NEW f \in found, f \notin kept PROVE Crowded(f)'
    BY <1>9
  <2> QED BY <1>1, <1>5, <1>9, KeptCrowd DEF Crowded
<1>12. \A r, f : Covered(r, f) => Covered(r, f)'
  BY <1>1, <1>9, <1>10 DEF Covered
<1>13. \A f : Pending(f) => Covered(walked, f)' \/ (phase' = "folder" /\ Pending(f)')
  BY <1>2, <1>3, <1>11 DEF Pending, Covered
<1>14. RootsCovered'
  BY <1>2, <1>12, <1>13 DEF SelectionInv, RootsCovered, Walking, Collecting
<1> QED BY <1>4, <1>7, <1>8, <1>14 DEF SelectionInv

\* A knowledge base begins with everything to come, or is reported.
LEMMA BaseBegins ==
  ASSUME SelectionInv, BeginBase
  PROVE  SelectionInv'
<1>1. PICK b \in bases :
        /\ bases' = bases \ {b}
        /\ IF b \in disk \cap Folder
           THEN walked' = b /\ ahead' = {b} /\ phase' = "folder" /\ UNCHANGED skipped
           ELSE /\ skipped' = skipped \cup {<<b, b>>}
                /\ phase' = IF bases' = {} THEN "done" ELSE "base"
                /\ UNCHANGED <<walked, ahead>>
  BY DEF BeginBase
<1>2. /\ phase = "base" /\ ~Collecting /\ Walking /\ entries = {} /\ found = {} /\ b \in Roots
      /\ UNCHANGED <<disk, entries, found, files, touched>>
  BY DEF SelectionInv, PhaseKept, BeginBase, Collecting, Walking, Roots
<1>3. DiskClosed' /\ PhaseKept' /\ Collected'
  BY <1>1, <1>2 DEF SelectionInv, DiskClosed, PhaseKept, Collected
<1>4. \A r \in Roots \ bases : \A f \in (disk \cap SourceFile) \ touched :
        Selects(r, f) => Covered(r, f)
  BY <1>2 DEF SelectionInv, RootsCovered
<1>5. \A r, f : Covered(r, f) => Covered(r, f)'
  BY <1>1, <1>2 DEF Covered, Crowded
<1>6. CASE b \in disk \cap Folder
  <2>1. walked' = b /\ ahead' = {b} /\ phase' = "folder"
    BY <1>1, <1>6
  <2>2. b \in Path /\ b \in PathTo[b] /\ Segments(b, b) = {}
    BY <1>6, TreeAssumption DEF Path, Segments
  <2>3. InHand'
    BY <1>2, <2>1, <2>2 DEF InHand, Reached
  <2>4. \A f : Selects(b, f) => Pending(f)'
    BY <2>1 DEF Selects, Below, Pending
  <2>5. Collecting'
    BY <2>1 DEF Collecting
  <2>6. RootsCovered'
    BY <1>1, <1>2, <1>4, <1>5, <2>1, <2>4, <2>5 DEF RootsCovered
  <2> QED BY <1>3, <2>3, <2>6 DEF SelectionInv
<1>7. CASE b \notin disk \cap Folder
  <2>1. <<b, b>> \in skipped' /\ phase' \in {"done", "base"}
    BY <1>1, <1>7
  <2>2. InHand'
    BY <2>1 DEF InHand, Collecting
  <2>3. RootsCovered'
    BY <1>1, <1>2, <1>4, <1>5, <2>1 DEF RootsCovered, Covered
  <2> QED BY <1>3, <2>2, <2>3 DEF SelectionInv
<1> QED BY <1>6, <1>7

\* When a walk has ended and the watcher has noticed no change since it began, the files
\* collected are those of the tree as it is, but for crowded folders, reported knowledge bases
\* and blind spots; for every tree, any patterns, limits and changes.
THEOREM SelectionIsHonest == SelectionSpec => []SelectionHonest
<1>1. SelectionInv /\ [SelectionNext]_selectionVars => SelectionInv'
  <2> SUFFICES ASSUME SelectionInv, [SelectionNext]_selectionVars PROVE SelectionInv'
    OBVIOUS
  <2>1. CASE UNCHANGED selectionVars
    BY <2>1 DEF selectionVars, SelectionInv, DiskClosed, PhaseKept, InHand, Collected, RootsCovered,
                Collecting, Walking, Covered, Pending, Crowded
  <2> QED
    BY <2>1, ChangesNoted, WalkBegins, FolderRead, EntryTaken, FolderCollected, BaseBegins
       DEF SelectionNext
<1>2. SelectionInv => SelectionHonest
  <2> SUFFICES ASSUME SelectionInv, phase = "done", \A p \in touched : ~Watched(p)
               PROVE  /\ \A f \in files : /\ \E r \in Roots : Selects(r, f)
                                          /\ f \in disk \/ f \in touched \cap BlindSpot
                      /\ \A r \in Roots : \A f \in disk \cap SourceFile :
                           Selects(r, f) =>
                             \/ f \in files \/ Crowded(f) \/ <<r, r>> \in skipped
                             \/ f \in touched \cap BlindSpot
    BY DEF SelectionHonest
  <2>1. \A f \in SourceFile \cap touched : f \in BlindSpot
    BY UnwatchedBlind
  <2>2. bases = {}
    BY DEF SelectionInv, PhaseKept
  <2>3. \A r \in Roots : \A f \in (disk \cap SourceFile) \ touched : Selects(r, f) => Covered(r, f)
    BY <2>2 DEF SelectionInv, RootsCovered, Walking, Collecting
  <2>4. \A f \in files : f \in SourceFile /\ f \in disk \cup touched /\ \E r \in Roots : Selects(r, f)
    BY DEF SelectionInv, Collected
  <2> QED BY <2>1, <2>3, <2>4 DEF Covered
<1> QED BY <1>1, <1>2, SelectionStart, PTL DEF SelectionSpec
=============================================================================
