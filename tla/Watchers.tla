------------------------------ MODULE Watchers ------------------------------
(***************************************************************************)
(* The watchers that turn changes of the project into requests to index    *)
(* (src/src/watcher/file-watcher.ts, git-head-watcher.ts and index.ts).    *)
(*                                                                         *)
(* chokidar is external.  What the code relies on: a watcher reports what  *)
(* changes after its first scan, a change before or during the scan may    *)
(* belong to the scan and is then never reported (ignoreInitial), and a    *)
(* change is reported when its file has not changed for 300 ms             *)
(* (awaitWriteFinish).  The files are one counter of the changes that the  *)
(* watcher's patterns admit; a run scans all of them, so a request covers  *)
(* every change made before it.                                            *)
(***************************************************************************)
EXTENDS Naturals

CONSTANTS
  Branches,  \* the names HEAD may have
  Changed    \* bound: changes of files, of the configuration and of HEAD

ASSUME WatchersBounds == Branches # {} /\ Changed \in Nat

VARIABLES
  tree,      \* the changes of the project's files
  settings,  \* the configuration file: how often it changed, is it readable
  head,      \* the branch HEAD names
  told,      \* those of tree a request covers
  applied,   \* the settings the Indexer and the coordinator have
  watcher,   \* FileWatcher.watcher: "starting", "ready", "none"; usePolling
  unwritten, \* what chokidar holds back until its file is finished
  pending,   \* pendingChanges: sources, the configuration
  debounce,  \* FileWatcher.debounceTimer
  git,       \* GitHeadWatcher: its watcher, its timer, currentBranch
  missed,    \* of what a change was not noticed, and nothing later covers it
  budget     \* what is left of Changed

watchersVars == <<tree, settings, head, told, applied, watcher, unwritten, pending, debounce,
                  git, missed, budget>>

Sources == {"source", "config"}
changes == <<tree, settings, head, budget>>

\* FileWatcher.start and GitHeadWatcher.start, from createWatcherWithIndexer.
WatchersInit ==
  /\ tree = 0 /\ told = 0
  /\ settings = [n |-> 0, valid |-> TRUE] /\ applied = 0
  /\ watcher = [state |-> "starting", polling |-> FALSE]
  /\ unwritten = {} /\ pending = {} /\ debounce = FALSE
  /\ \E b \in Branches :
       head = b /\ git = [state |-> "starting", event |-> FALSE, timer |-> FALSE, branch |-> b]
  /\ missed = {} /\ budget = Changed

Watching == watcher.state # "none"

-----------------------------------------------------------------------------
(* The project changes.                                                    *)

\* What chokidar makes of a change: its report, or nothing.
Observed(source) ==
  \/ watcher.state # "none" /\ unwritten' = unwritten \cup {source} /\ UNCHANGED missed
  \/ watcher.state = "starting" /\ missed' = missed \cup {source} /\ UNCHANGED unwritten

EditSource ==
  /\ Watching /\ budget > 0 /\ budget' = budget - 1
  /\ tree' = tree + 1
  /\ Observed("source")
  /\ UNCHANGED <<settings, head, told, applied, watcher, pending, debounce, git>>

\* The configuration is written, perhaps half of it only.
EditConfig ==
  /\ Watching /\ budget > 0 /\ budget' = budget - 1
  /\ \E valid \in BOOLEAN : settings' = [n |-> settings.n + 1, valid |-> valid]
  /\ Observed("config")
  /\ UNCHANGED <<tree, head, told, applied, watcher, pending, debounce, git>>

\* HEAD names another branch; its files are changes of their own.
Checkout ==
  /\ Watching /\ budget > 0 /\ budget' = budget - 1
  /\ head' \in Branches \ {head}
  /\ \/ git' = [git EXCEPT !.event = TRUE] /\ UNCHANGED missed
     \/ git.state = "starting" /\ missed' = missed \cup {"head"} /\ UNCHANGED git
  /\ UNCHANGED <<tree, settings, told, applied, watcher, unwritten, pending, debounce>>

-----------------------------------------------------------------------------
(* FileWatcher.                                                            *)

WatcherReady ==
  /\ watcher.state = "starting"
  /\ watcher' = [watcher EXCEPT !.state = "ready"]
  /\ UNCHANGED <<changes, told, applied, unwritten, pending, debounce, git, missed>>

\* Seeded fault: the fallback forgets what the first watcher has reported.
ExhaustedAnew ==
  /\ Watching /\ ~watcher.polling
  /\ watcher' = [state |-> "starting", polling |-> TRUE]
  /\ unwritten' = {} /\ missed' = missed \cup unwritten
  /\ pending' = {}
  /\ UNCHANGED <<changes, told, applied, debounce, git>>

\* EMFILE: a polling watcher takes the place of the first, once.  What the first held
\* back is lost; what it has reported is not.
Exhausted ==
  /\ Watching /\ ~watcher.polling
  /\ watcher' = [state |-> "starting", polling |-> TRUE]
  /\ unwritten' = {} /\ missed' = missed \cup unwritten
  /\ UNCHANGED <<changes, told, applied, pending, debounce, git>>

\* handleChange and scheduleFlush: the timer starts again.
HandleChange(source) ==
  /\ source \in unwritten
  /\ unwritten' = unwritten \ {source}
  /\ pending' = pending \cup {source}
  /\ debounce' = TRUE
  /\ UNCHANGED <<changes, told, applied, watcher, git, missed>>

\* requestReindex, by the event of one of the sources.
RequestReindex(batch) == told' = tree /\ missed' = missed \ (batch \cup {"source"})

\* flush, and the handler of createWatcherWithIndexer: a configuration that cannot be read
\* is an error, and the changes that came with it are not reported.
Flush ==
  /\ debounce
  /\ debounce' = FALSE /\ pending' = {}
  /\ IF pending = {} \/ ("config" \in pending /\ ~settings.valid)
     THEN UNCHANGED <<told, applied, missed>>
     ELSE /\ RequestReindex(pending)
          /\ applied' = IF "config" \in pending THEN settings.n ELSE applied
  /\ UNCHANGED <<changes, watcher, unwritten, git>>

-----------------------------------------------------------------------------
(* GitHeadWatcher.                                                         *)

GitReady ==
  /\ git.state = "starting"
  /\ git' = [git EXCEPT !.state = "ready"]
  /\ UNCHANGED <<changes, told, applied, watcher, unwritten, pending, debounce, missed>>

HandleHeadChange ==
  /\ git.event
  /\ git' = [git EXCEPT !.event = FALSE, !.timer = TRUE]
  /\ UNCHANGED <<changes, told, applied, watcher, unwritten, pending, debounce, missed>>

\* A branch that is left and taken again in the meantime is no change.
CheckBranchChange ==
  /\ git.timer
  /\ git' = [git EXCEPT !.timer = FALSE, !.branch = head]
  /\ IF head # git.branch THEN RequestReindex({"head"})
     ELSE missed' = missed \ {"head"} /\ UNCHANGED told
  /\ UNCHANGED <<changes, applied, watcher, unwritten, pending, debounce>>

\* stop() of both, whose timers are cleared.
StopWatching ==
  /\ Watching
  /\ watcher' = [watcher EXCEPT !.state = "none"]
  /\ unwritten' = {} /\ pending' = {} /\ debounce' = FALSE
  /\ git' = [git EXCEPT !.state = "none", !.event = FALSE, !.timer = FALSE]
  /\ UNCHANGED <<changes, told, applied, missed>>

-----------------------------------------------------------------------------
Reports ==
  \/ WatcherReady \/ GitReady \/ Flush \/ HandleHeadChange \/ CheckBranchChange
  \/ \E source \in Sources : HandleChange(source)

WatchersNext == EditSource \/ EditConfig \/ Checkout \/ Exhausted \/ Reports \/ StopWatching
WatchersSpec == WatchersInit /\ [][WatchersNext]_watchersVars
-----------------------------------------------------------------------------
\* No timer runs, and chokidar holds nothing back.
AtRest == unwritten = {} /\ ~debounce /\ ~git.event /\ ~git.timer

\* Every change of the files that was noticed has been followed by a request, and the
\* configuration and the branch are those in use.  (A batch that an unreadable
\* configuration drops is covered by the change that mends it, when that is noticed.)
AllTold ==
  /\ missed \cap {"source", "config"} # {} \/ told = tree
  /\ "config" \in missed \/ applied = settings.n
  /\ "head" \in missed \/ git.branch = head

\* However changes fall together with each other, with a batch in its debounce and with
\* the exhaustion of file handles: when the watchers have come to rest, all that chokidar
\* noticed is reported, unless the configuration is unreadable (FileWatcher.flush, the
\* fallback of createWatcher, checkBranchChange).  Each of their steps brings them nearer.
NoChangeLost == Watching /\ AtRest /\ settings.valid => AllTold
=============================================================================
