---------------------------- MODULE MCIndexStore ----------------------------
(* Small indexes for TLC: two files of two texts, two branches.            *)
EXTENDS IndexStore, TLC

CONSTANTS p1, p2

Base == [scope |-> "project", procs |-> {p1}, ops |-> {"index"}, gc |-> FALSE,
         fails |-> FALSE, kills |-> FALSE, reads |-> FALSE, checkouts |-> FALSE, races |-> {},
         faults |-> {}]

\* One process in a project's own index: killed anywhere, failed requests.
Interrupted == [Base EXCEPT !.ops = {"index", "retry"}, !.fails = TRUE,
                            !.kills = TRUE, !.races = {"running"}]

\* Branches are checked out and merged, during a run too, and the run is killed.
Switched == [Base EXCEPT !.ops = {"index", "force"}, !.kills = TRUE,
                         !.checkouts = TRUE, !.races = {"running"}]

\* Two processes, killed, that read the index before each run: a process whose
\* database was reset by the other's recovery notices.
Alternating == [Base EXCEPT !.procs = Proc, !.kills = TRUE, !.reads = TRUE]

\* Two processes: forced rebuilds and the automatic health check.
Collected == [Base EXCEPT !.procs = Proc, !.ops = {"index", "force"}, !.gc = TRUE,
                          !.checkouts = TRUE]

\* The health check on request.
Checked == [Base EXCEPT !.procs = Proc, !.ops = {"index", "health"}, !.checkouts = TRUE]

\* A global index on one branch, with failed requests.
GlobalScope == [Base EXCEPT !.scope = "global", !.ops = {"index", "retry", "force"},
                            !.fails = TRUE]

\* Rebuilds of the vectors that throw.
Throwing == [Base EXCEPT !.ops = {"index", "force"}, !.checkouts = TRUE,
                         !.faults = {"rebuild"}]

SoundWorlds == {Interrupted, Switched, Alternating, Collected, Checked, GlobalScope, Throwing}
ASSUME SoundWorldsAssumption == \A w \in SoundWorlds : Calm(w)

\* One process, no fault at all, one branch.
PlainlyChecked == {[Base EXCEPT !.ops = {"index", "health"}]}

\* One process, no fault; a branch is checked out while a run is under way.
PlainlySwitched == {[Base EXCEPT !.checkouts = TRUE, !.races = {"running"}]}

Symmetric == Permutations(File) \cup Permutations(Text) \cup Permutations(Branch)
=============================================================================
