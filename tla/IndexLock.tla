------------------------------ MODULE IndexLock ------------------------------
(***************************************************************************)
(* The interprocess lease on an index directory                            *)
(* (src/indexer/index-lock.ts and withIndexMutationLease in index.ts).     *)
(*                                                                         *)
(* Several processes (MCP servers, editor plugins, the CLI) share one      *)
(* index directory.  A writer owns the directory `indexing.lock`; it is    *)
(* published by renaming a private candidate directory onto that name, so  *)
(* the rename is the atomic test-and-set.  A process that finds the lock   *)
(* of a dead pid publishes `indexing.lock/reclaiming`, leaves a recovery   *)
(* marker `indexing.lock.recovery.<token>` for the work the dead owner may *)
(* have left half done, and renames the lock away.                         *)
(*                                                                         *)
(* A step is one file-system call, or a run of calls that no other process *)
(* can observe in between.  The UUID of an owner is a member of Token,     *)
(* PidOf[t] the pid written beside it.  Candidate, quarantine and          *)
(* tombstone directories have private names: only their content matters.   *)
(***************************************************************************)
EXTENDS Integers

CONSTANTS
  Proc,         \* operating-system process slots (pids)
  Token,        \* owner UUIDs
  PidOf,        \* the pid recorded with each UUID
  HostOf,       \* the host a pid runs on
  MaxAttempts,  \* iterations of the loop in acquireIndexLock (6 in the code)
  CrashSteps,   \* the steps at which a process may be killed (fault model)
  Reusable,     \* the pids the operating system may hand out again
  None, Legacy  \* no value; a v0.14.0 lock *file* in the lock's place

LeaseSteps == {"scan", "hold", "complete", "unlink", "rmdir", "release", "detach"}

ReclaimSteps == {"claim", "place", "reprobe", "inspect", "seize", "settle",
                 "restore", "confirm", "mark", "verify", "quarantine"}

Outcomes == {"idle", "active", "unknownOwner", "legacyLock", "reclaiming",
             "fsError", "lost"}

Steps == LeaseSteps \cup ReclaimSteps \cup Outcomes
           \cup {"publish", "install", "recheck", "stat", "read", "probe",
                 "check", "down"}

Claim == [by : Token, expect : Token]      \* ReclaimOwner
Dir   == [owner : Token, claim : Claim \cup {None}]

ASSUME ConstantsAssumption ==
  /\ PidOf \in [Token -> Proc]
  /\ DOMAIN HostOf = Proc
  /\ MaxAttempts \in Nat \ {0}
  /\ CrashSteps \subseteq Steps
  /\ Reusable \subseteq Proc
  /\ None \notin Token /\ Legacy \notin Token /\ None # Legacy

ASSUME NoClaimAssumption == None \notin Claim

VARIABLES
  lock,        \* indexing.lock: None, Legacy, or the owner token in it
  reclaim,     \* indexing.lock/reclaiming/owner.json
  marker,      \* indexing.lock.recovery.<t>: "none", "full", or "husk",
               \*   a directory whose owner.json has been unlinked
  alive,       \* what process.kill(pid, 0) reports
  pc,          \* the next step of each process, or the outcome of its last call
  own,         \* owner.token of the attempt in progress (and reclaimOwner.token)
  seen,        \* existingOwner / expectedOwner
  tries,       \* the loop counter of acquireIndexLock
  claims,      \* the loop counter of reclaimDeadOwner
  at,          \* the lock directory a private file of the process lies in
  mark,        \* the reclaim marker removeDeadReclaimMarker has judged
  prize,       \* the reclaim marker it has renamed away
  recov,       \* lease.recoveries
  verdict,     \* what the call reports once it has released the lease
  todo,        \* the markers completeLeaseRecovery has still to remove
  tomb,        \* the directory releaseIndexLock has renamed away
  unrecovered  \* history: tokens that died while mutating the index and
               \*   whose work no later writer has repaired yet

locks  == <<lock, reclaim, marker>>
claimFrame == <<claims, at, mark, prize>>
leaseFrame == <<recov, verdict, todo, tomb>>
vars  == <<locks, alive, pc, own, seen, tries, claimFrame, leaseFrame, unrecovered>>

-----------------------------------------------------------------------------
\* Who is asked, and what is on the disk.

\* getOwnerLiveness: a pid of another host cannot be probed.
SameHost(p, t) == HostOf[p] = HostOf[PidOf[t]]

\* Seeded fault: the pid is not probed.
DeadUnprobed(p, t) == SameHost(p, t)

Dead(p, t) == SameHost(p, t) /\ ~alive[PidOf[t]]

LockDir  == lock \in Token
ClaimTokens(c) == IF c = None THEN {} ELSE {c.by, c.expect}

\* randomUUID(): a token found nowhere on disk nor in any process.
InUse ==
  {lock} \cup ClaimTokens(reclaim) \cup {t \in Token : marker[t] # "none"}
    \cup unrecovered
    \cup UNION {{own[q], seen[q], at[q]} \cup recov[q] \cup todo[q]
                  \cup ClaimTokens(mark[q]) \cup ClaimTokens(prize[q])
                  \cup (IF tomb[q] = None THEN {}
                        ELSE {tomb[q].owner} \cup ClaimTokens(tomb[q].claim))
                : q \in Proc}

Fresh(p) == {t \in Token : PidOf[t] = p} \ InUse

Goto(p, step) == pc' = [pc EXCEPT ![p] = step]

\* The call returns or throws: its frames are gone, only the outcome is left.
Drop(p) ==
  /\ own' = [own EXCEPT ![p] = None]
  /\ seen' = [seen EXCEPT ![p] = None]
  /\ tries' = [tries EXCEPT ![p] = 0]
  /\ claims' = [claims EXCEPT ![p] = 0]
  /\ at' = [at EXCEPT ![p] = None]
  /\ mark' = [mark EXCEPT ![p] = None]
  /\ prize' = [prize EXCEPT ![p] = None]
  /\ recov' = [recov EXCEPT ![p] = {}]
  /\ verdict' = [verdict EXCEPT ![p] = "idle"]
  /\ todo' = [todo EXCEPT ![p] = {}]
  /\ tomb' = [tomb EXCEPT ![p] = None]

Return(p, outcome) == Goto(p, outcome) /\ Drop(p) /\ UNCHANGED <<alive, unrecovered>>

-----------------------------------------------------------------------------
Init ==
  /\ lock \in {None, Legacy}
  /\ reclaim = None
  /\ marker = [t \in Token |-> "none"]
  /\ alive = [p \in Proc |-> TRUE]
  /\ pc = [p \in Proc |-> "idle"]
  /\ own = [p \in Proc |-> None]
  /\ seen = [p \in Proc |-> None]
  /\ tries = [p \in Proc |-> 0]
  /\ claims = [p \in Proc |-> 0]
  /\ at = [p \in Proc |-> None]
  /\ mark = [p \in Proc |-> None]
  /\ prize = [p \in Proc |-> None]
  /\ recov = [p \in Proc |-> {}]
  /\ verdict = [p \in Proc |-> "idle"]
  /\ todo = [p \in Proc |-> {}]
  /\ tomb = [p \in Proc |-> None]
  /\ unrecovered = {}

-----------------------------------------------------------------------------
\* acquireIndexLock

\* createOwner at the top of the first iteration.
Begin(p) ==
  /\ pc[p] \in Outcomes
  /\ \E t \in Fresh(p) : own' = [own EXCEPT ![p] = t]
  /\ Goto(p, "publish")
  /\ UNCHANGED <<locks, alive, seen, tries, claimFrame, leaseFrame, unrecovered>>

\* publishJsonDirectory: existsSync(finalPath).
Publish(p) ==
  /\ pc[p] = "publish"
  /\ Goto(p, IF lock = None THEN "install" ELSE "stat")
  /\ UNCHANGED <<locks, alive, own, seen, tries, claimFrame, leaseFrame, unrecovered>>

\* renameSync(candidatePath, finalPath): fails on a name that is taken.
Install(p) ==
  /\ pc[p] = "install"
  /\ \/ lock = None /\ lock' = own[p] /\ Goto(p, "scan")
     \/ lock # None /\ UNCHANGED lock /\ Goto(p, "recheck")
  /\ UNCHANGED <<reclaim, marker, alive, own, seen, tries, claimFrame, leaseFrame, unrecovered>>

\* The catch of a failed rename asks existsSync again: if the lock has gone
\* meanwhile, ENOTEMPTY is rethrown as it is.
Recheck(p) ==
  /\ pc[p] = "recheck"
  /\ UNCHANGED locks
  /\ \/ /\ lock # None /\ Goto(p, "stat")
        /\ UNCHANGED <<alive, own, seen, tries, claimFrame, leaseFrame, unrecovered>>
     \/ lock = None /\ Return(p, "fsError")

\* Seeded fault: the counter starts anew.
FirstAttempt(p) == 1

Attempts(p) == tries[p] + 1
AttemptsLeft(p) == Attempts(p) < MaxAttempts

\* The next iteration, with a new owner, or the throw after the loop.
TryAgain(p) ==
  \/ /\ AttemptsLeft(p)
     /\ tries' = [tries EXCEPT ![p] = Attempts(p)]
     /\ \E t \in Fresh(p) : own' = [own EXCEPT ![p] = t]
     /\ seen' = [seen EXCEPT ![p] = None]
     /\ claims' = [claims EXCEPT ![p] = 0]
     /\ at' = [at EXCEPT ![p] = None]
     /\ mark' = [mark EXCEPT ![p] = None]
     /\ prize' = [prize EXCEPT ![p] = None]
     /\ Goto(p, "publish")
     /\ UNCHANGED <<alive, leaseFrame, unrecovered>>
  \/ ~AttemptsLeft(p) /\ Return(p, "reclaiming")

\* lstatSync(lockPath)
Stat(p) ==
  /\ pc[p] = "stat"
  /\ UNCHANGED locks
  /\ \/ lock = None /\ TryAgain(p)
     \/ lock = Legacy /\ Return(p, "legacyLock")
     \/ /\ LockDir /\ Goto(p, "read")
        /\ UNCHANGED <<alive, own, seen, tries, claimFrame, leaseFrame, unrecovered>>

\* readDirectoryOwner(lockPath): a lock released since the lstat reads as null.
Read(p) ==
  /\ pc[p] = "read"
  /\ UNCHANGED locks
  /\ \/ ~LockDir /\ Return(p, "unknownOwner")
     \/ /\ LockDir
        /\ seen' = [seen EXCEPT ![p] = lock]
        /\ Goto(p, "probe")
        /\ UNCHANGED <<alive, own, tries, claimFrame, leaseFrame, unrecovered>>

\* Seeded fault: an inverted test, a claim is made only where one is already.
ProbeRefusing(p) ==
  /\ pc[p] = "probe"
  /\ UNCHANGED locks
  /\ \/ (~Dead(p, seen[p]) \/ reclaim = None) /\ Return(p, "active")
     \/ /\ Dead(p, seen[p]) /\ reclaim # None /\ Goto(p, "claim")
        /\ UNCHANGED <<alive, own, seen, tries, claimFrame, leaseFrame, unrecovered>>

\* getOwnerLiveness(existingOwner)
Probe(p) ==
  /\ pc[p] = "probe"
  /\ UNCHANGED locks
  /\ \/ ~SameHost(p, seen[p]) /\ Return(p, "unknownOwner")
     \/ SameHost(p, seen[p]) /\ alive[PidOf[seen[p]]] /\ Return(p, "active")
     \/ /\ Dead(p, seen[p]) /\ Goto(p, "claim")
        /\ UNCHANGED <<alive, own, seen, tries, claimFrame, leaseFrame, unrecovered>>

-----------------------------------------------------------------------------
\* reclaimDeadOwner

\* Seeded fault: a dead reclaimer's marker is never removed.
ClaimFailsAtOnce(p) == Return(p, "reclaiming")

\* A failed publication of the reclaim marker: the first time, try to remove a
\* dead reclaimer's marker; the second time, report contention.
ClaimFails(p) ==
  \/ /\ claims[p] = 0 /\ Goto(p, "inspect")
     /\ at' = [at EXCEPT ![p] = None]
     /\ UNCHANGED <<alive, own, seen, tries, claims, mark, prize, leaseFrame, unrecovered>>
  \/ claims[p] = 1 /\ Return(p, "reclaiming")

\* publishJsonDirectory(reclaimPath): the candidate is made inside the lock
\* directory that has the name now, whoever owns it.
ClaimMarker(p) ==
  /\ pc[p] = "claim"
  /\ UNCHANGED locks
  /\ \/ (~LockDir \/ reclaim # None) /\ ClaimFails(p)
     \/ /\ LockDir /\ reclaim = None
        /\ at' = [at EXCEPT ![p] = lock]
        /\ Goto(p, "place")
        /\ UNCHANGED <<alive, own, seen, tries, claims, mark, prize, leaseFrame, unrecovered>>

\* Its rename: the candidate is still there only if its directory is.
PlaceMarker(p) ==
  /\ pc[p] = "place"
  /\ UNCHANGED <<lock, marker>>
  /\ \/ lock # at[p] /\ ClaimFails(p) /\ UNCHANGED reclaim
     \/ /\ lock = at[p]
        /\ \/ /\ reclaim = None
              /\ reclaim' = [by |-> own[p], expect |-> seen[p]]
              /\ Goto(p, "confirm")
           \/ /\ reclaim # None
              /\ UNCHANGED reclaim
              /\ Goto(p, "reprobe")
        /\ UNCHANGED <<alive, own, seen, tries, claimFrame, leaseFrame, unrecovered>>

\* existsSync after the failed rename, as in Recheck.
ReprobeMarker(p) ==
  /\ pc[p] = "reprobe"
  /\ UNCHANGED locks
  /\ \/ LockDir /\ reclaim # None /\ ClaimFails(p)
     \/ ~(LockDir /\ reclaim # None) /\ Return(p, "fsError")

\* removeDeadReclaimMarker: read the marker and the owner, judge both.
InspectMarker(p) ==
  LET removable == /\ LockDir /\ lock = seen[p] /\ Dead(p, lock)
                   /\ reclaim # None
                   /\ reclaim.expect = seen[p] /\ Dead(p, reclaim.by)
  IN
  /\ pc[p] = "inspect"
  /\ UNCHANGED locks
  /\ \/ /\ removable
        /\ mark' = [mark EXCEPT ![p] = reclaim]
        /\ Goto(p, "seize")
        /\ UNCHANGED <<alive, own, seen, tries, claims, at, prize, leaseFrame, unrecovered>>
     \/ ~removable /\ Return(p, "reclaiming")

\* renameSync(markerPath, claimedMarkerPath): takes whatever marker is there.
SeizeMarker(p) ==
  /\ pc[p] = "seize"
  /\ UNCHANGED <<lock, marker>>
  /\ \/ reclaim = None /\ Return(p, "reclaiming") /\ UNCHANGED reclaim
     \/ /\ reclaim # None
        /\ prize' = [prize EXCEPT ![p] = reclaim]
        /\ at' = [at EXCEPT ![p] = lock]
        /\ reclaim' = None
        /\ Goto(p, "settle")
        /\ UNCHANGED <<alive, own, seen, tries, claims, mark, leaseFrame, unrecovered>>

\* Was it the marker judged dead, in the lock judged dead?  Then it is removed
\* and the publication is tried once more; otherwise it must be put back.
SettleMarker(p) ==
  LET settled == /\ lock = at[p] /\ prize[p] = mark[p]
                 /\ lock = seen[p] /\ Dead(p, lock)
  IN
  /\ pc[p] = "settle"
  /\ \/ /\ settled
        /\ claims' = [claims EXCEPT ![p] = 1]
        /\ at' = [at EXCEPT ![p] = None]
        /\ mark' = [mark EXCEPT ![p] = None]
        /\ prize' = [prize EXCEPT ![p] = None]
        /\ Goto(p, "claim")
     \/ ~settled /\ Goto(p, "restore") /\ UNCHANGED claimFrame
  /\ UNCHANGED <<locks, alive, own, seen, tries, leaseFrame, unrecovered>>

\* if (!existsSync(markerPath) && existsSync(claimedMarkerPath)) renameSync(...)
RestoreMarker(p) ==
  /\ pc[p] = "restore"
  /\ reclaim' = IF lock = at[p] /\ reclaim = None THEN prize[p] ELSE reclaim
  /\ UNCHANGED <<lock, marker>>
  /\ Return(p, "reclaiming")

\* Seeded fault: the claim is re-read, the lock it lies in is not.
ClaimStandsAnywhere(p) == LockDir /\ reclaim = [by |-> own[p], expect |-> seen[p]]

\* Both owners re-read after the publication, and again after the recovery
\* marker: the lock is still the dead owner's and the claim still this one.
ClaimStands(p) ==
  /\ LockDir /\ lock = seen[p] /\ Dead(p, lock)
  /\ reclaim = [by |-> own[p], expect |-> seen[p]]

\* A claim that does not stand is abandoned where it lies: no path removes it.
ConfirmClaim(p) ==
  /\ pc[p] = "confirm"
  /\ UNCHANGED locks
  /\ \/ /\ ClaimStands(p) /\ Goto(p, "mark")
        /\ UNCHANGED <<alive, own, seen, tries, claimFrame, leaseFrame, unrecovered>>
     \/ ~ClaimStands(p) /\ Return(p, "reclaiming")

\* Seeded fault: the lock is taken away and no recovery marker is left.
MarkNothing(p) ==
  /\ pc[p] = "mark" /\ Goto(p, "verify")
  /\ UNCHANGED <<locks, alive, own, seen, tries, claimFrame, leaseFrame, unrecovered>>

\* publishRecoveryMarker: an existing marker must be readable.
MarkRecovery(p) ==
  /\ pc[p] = "mark"
  /\ UNCHANGED <<lock, reclaim>>
  /\ \/ /\ marker[seen[p]] # "husk"
        /\ marker' = [marker EXCEPT ![seen[p]] = "full"]
        /\ Goto(p, "verify")
        /\ UNCHANGED <<alive, own, seen, tries, claimFrame, leaseFrame, unrecovered>>
     \/ marker[seen[p]] = "husk" /\ UNCHANGED marker /\ Return(p, "unknownOwner")

VerifyClaim(p) ==
  /\ pc[p] = "verify"
  /\ UNCHANGED locks
  /\ \/ /\ ClaimStands(p) /\ Goto(p, "quarantine")
        /\ UNCHANGED <<alive, own, seen, tries, claimFrame, leaseFrame, unrecovered>>
     \/ ~ClaimStands(p) /\ Return(p, "reclaiming")

\* renameSync(lockPath, quarantinePath): takes whatever lock is there, then the
\* loop of acquireIndexLock goes round.
Quarantine(p) ==
  /\ pc[p] = "quarantine"
  /\ UNCHANGED marker
  /\ \/ lock = None /\ Return(p, "reclaiming") /\ UNCHANGED <<lock, reclaim>>
     \/ lock # None /\ lock' = None /\ reclaim' = None /\ TryAgain(p)

-----------------------------------------------------------------------------
\* The lease itself: getPendingRecoveries, the mutation, completeLeaseRecovery

\* Seeded fault: the scan matches no marker.
NothingPending == {}

\* Every marker must be readable and its owner provably dead.
Pending == {t \in Token : marker[t] # "none"}

Scan(p) ==
  LET usable == \A t \in Pending : marker[t] = "full" /\ Dead(p, t)
  IN
  /\ pc[p] = "scan"
  /\ \/ /\ usable
        /\ recov' = [recov EXCEPT ![p] = Pending]
        /\ UNCHANGED verdict
        /\ Goto(p, "hold")
     \/ /\ ~usable
        /\ verdict' = [verdict EXCEPT ![p] = "unknownOwner"]
        /\ UNCHANGED recov
        /\ Goto(p, "release")
  /\ UNCHANGED <<locks, alive, own, seen, tries, claimFrame, todo, tomb, unrecovered>>

\* The callback succeeds: it has repaired what every recovered owner left.
Succeed(p) ==
  /\ pc[p] = "hold"
  /\ unrecovered' = unrecovered \ recov[p]
  /\ Goto(p, "complete")
  /\ UNCHANGED <<locks, alive, own, seen, tries, claimFrame, leaseFrame>>

\* The callback throws: recovery markers stay for the next writer.
Fail(p) ==
  /\ pc[p] = "hold"
  /\ Goto(p, "release")
  /\ UNCHANGED <<locks, alive, own, seen, tries, claimFrame, leaseFrame, unrecovered>>

\* completeLeaseRecovery re-reads every marker before it removes the first.
Complete(p) ==
  LET intact == \A t \in recov[p] : marker[t] = "full"
  IN
  /\ pc[p] = "complete"
  /\ \/ intact /\ todo' = [todo EXCEPT ![p] = recov[p]] /\ Goto(p, "unlink")
     \/ ~intact /\ UNCHANGED todo /\ Goto(p, "release")
  /\ UNCHANGED <<locks, alive, own, seen, tries, claimFrame, recov, verdict, tomb, unrecovered>>

\* rmSync(markerPath, {recursive}): first the file in it, then the directory.
UnlinkMarker(p) ==
  /\ pc[p] = "unlink"
  /\ \/ /\ \E t \in todo[p] : /\ marker' = [marker EXCEPT ![t] = "husk"]
                              /\ at' = [at EXCEPT ![p] = t]
        /\ Goto(p, "rmdir")
     \/ todo[p] = {} /\ Goto(p, "release") /\ UNCHANGED <<marker, at>>
  /\ UNCHANGED <<lock, reclaim, alive, own, seen, tries, claims, mark, prize,
                 leaseFrame, unrecovered>>

RemoveMarker(p) ==
  /\ pc[p] = "rmdir"
  /\ marker' = [marker EXCEPT ![at[p]] = "none"]
  /\ todo' = [todo EXCEPT ![p] = @ \ {at[p]}]
  /\ at' = [at EXCEPT ![p] = None]
  /\ Goto(p, "unlink")
  /\ UNCHANGED <<lock, reclaim, alive, own, seen, tries, claims, mark, prize,
                 recov, verdict, tomb, unrecovered>>

-----------------------------------------------------------------------------
\* releaseIndexLock

\* A refused scan rethrows its own error; otherwise losing the lease is one
\* ("Lost ownership of index mutation lease").
Verdict(p, released) ==
  IF verdict[p] = "idle" /\ ~released THEN "lost" ELSE verdict[p]

\* Called at the end of a lease and when the scan of the markers throws.
Release(p) ==
  /\ pc[p] = "release"
  /\ UNCHANGED locks
  /\ \/ /\ lock = own[p] /\ Goto(p, "detach")
        /\ UNCHANGED <<alive, own, seen, tries, claimFrame, leaseFrame, unrecovered>>
     \/ lock # own[p] /\ Return(p, Verdict(p, FALSE))

\* renameSync(lockPath, releasePath): takes whatever lock is there.
Detach(p) ==
  /\ pc[p] = "detach"
  /\ UNCHANGED marker
  /\ \/ lock = None /\ Return(p, "lost") /\ UNCHANGED <<lock, reclaim>>
     \/ /\ LockDir
        /\ tomb' = [tomb EXCEPT ![p] = [owner |-> lock, claim |-> reclaim]]
        /\ lock' = None /\ reclaim' = None
        /\ Goto(p, "check")
        /\ UNCHANGED <<alive, own, seen, tries, claimFrame, recov, verdict, todo, unrecovered>>

\* The tombstone is removed if it is this owner's, and put back if it is not.
CheckTomb(p) ==
  LET mine == tomb[p].owner = own[p]
      free == lock = None
  IN
  /\ pc[p] = "check"
  /\ UNCHANGED marker
  /\ IF ~mine /\ free
     THEN lock' = tomb[p].owner /\ reclaim' = tomb[p].claim
     ELSE UNCHANGED <<lock, reclaim>>
  /\ Return(p, Verdict(p, mine))

-----------------------------------------------------------------------------
\* The environment: a process is killed; its pid is handed out again.

\* Only a kill during the callback can leave artifacts half written.
Crash(p) ==
  /\ alive[p] /\ pc[p] \in CrashSteps
  /\ alive' = [alive EXCEPT ![p] = FALSE]
  /\ unrecovered' = IF pc[p] = "hold" THEN unrecovered \cup {own[p]} ELSE unrecovered
  /\ Goto(p, "down") /\ Drop(p)
  /\ UNCHANGED locks

Restart(p) ==
  /\ ~alive[p] /\ p \in Reusable
  /\ alive' = [alive EXCEPT ![p] = TRUE]
  /\ Goto(p, "idle")
  /\ UNCHANGED <<locks, own, seen, tries, claimFrame, leaseFrame, unrecovered>>

Acquiring(p) ==
  \/ Publish(p) \/ Install(p) \/ Recheck(p) \/ Stat(p) \/ Read(p) \/ Probe(p)

Reclaiming(p) ==
  \/ ClaimMarker(p) \/ PlaceMarker(p) \/ ReprobeMarker(p)
  \/ InspectMarker(p) \/ SeizeMarker(p) \/ SettleMarker(p) \/ RestoreMarker(p)
  \/ ConfirmClaim(p) \/ MarkRecovery(p) \/ VerifyClaim(p) \/ Quarantine(p)

Leasing(p) ==
  \/ Scan(p) \/ Succeed(p) \/ Fail(p) \/ Complete(p) \/ UnlinkMarker(p)
  \/ RemoveMarker(p) \/ Release(p) \/ Detach(p) \/ CheckTomb(p)

\* The steps a live process takes by itself once it has called acquireIndexLock.
Proceed(p) == Acquiring(p) \/ Reclaiming(p) \/ Leasing(p)

Next == \E p \in Proc : Begin(p) \/ Proceed(p) \/ Crash(p) \/ Restart(p)

Spec == Init /\ [][Next]_vars

\* The operating system schedules every live process; callers keep trying.
Fairness == \A p \in Proc : WF_vars(Proceed(p)) /\ WF_vars(Begin(p))

FairSpec == Spec /\ Fairness

-----------------------------------------------------------------------------
\* Properties

TypeOK ==
  /\ lock \in Token \cup {None, Legacy}
  /\ reclaim \in Claim \cup {None}
  /\ marker \in [Token -> {"none", "full", "husk"}]
  /\ alive \in [Proc -> BOOLEAN]
  /\ pc \in [Proc -> Steps]
  /\ own \in [Proc -> Token \cup {None}]
  /\ seen \in [Proc -> Token \cup {None}]
  /\ tries \in [Proc -> 0 .. MaxAttempts - 1]
  /\ claims \in [Proc -> 0 .. 1]
  /\ at \in [Proc -> Token \cup {None}]
  /\ mark \in [Proc -> Claim \cup {None}]
  /\ prize \in [Proc -> Claim \cup {None}]
  /\ recov \in [Proc -> SUBSET Token]
  /\ verdict \in [Proc -> {"idle", "unknownOwner"}]
  /\ todo \in [Proc -> SUBSET Token]
  /\ tomb \in [Proc -> Dir \cup {None}]
  /\ unrecovered \subseteq Token

Holds(p) == pc[p] \in LeaseSteps

\* "Serialized index mutations across processes": from the rename that
\* publishes its lock to the rename that releases it, no process shares the
\* lease with another one.
LeaseExclusive == \A p, q \in Proc : Holds(p) /\ Holds(q) => p = q

\* A live lease is never stolen: the directory under the lock's name stays the
\* holder's own, whatever the reclaimers of an older lock still have to do.
LiveLeaseInPlace == \A p \in Proc : Holds(p) => lock = own[p]

\* Work a killed writer may have left half done is never forgotten: until a
\* later writer has repaired it, either the dead writer's lock is still there
\* to be reclaimed, or its recovery marker is there and readable.
CrashRemembered == \A t \in unrecovered : lock = t \/ marker[t] = "full"

\* No writer mutates the index without knowing of every earlier writer that
\* was killed: recovery runs before, or with, the next mutation.
WriterKnowsCrashes ==
  \A p \in Proc : pc[p] = "hold" => unrecovered \subseteq recov[p]

\* A process that finds a dead owner's lock that nobody has claimed, and keeps
\* asking, does not find it there for ever: one of the processes that ask gets
\* its claim in, and either takes the lock away or dies trying.
UnclaimedLockReclaimed ==
  \A p \in Proc, t \in Token :
    []<>~(lock = t /\ reclaim = None /\ Dead(p, t) /\ alive[p])

\* A reclaimer that was killed does not keep its lock from being reclaimed.
DeadClaimCleared ==
  \A p \in Proc, t \in Token :
    []<>~(/\ lock = t /\ Dead(p, t) /\ alive[p]
          /\ reclaim # None /\ reclaim.expect = t /\ Dead(p, reclaim.by))

\* acquireIndexLock is synchronous and has no timeout: its loops end whatever
\* the other processes do meanwhile.
AcquireEnds ==
  \A p \in Proc :
    pc[p] = "publish" ~> pc[p] \in Outcomes \cup {"scan", "down"}

\* A dead lock goes away, whether its reclaimer lives or not, and nobody who asks for
\* the lock goes round for ever (acquireIndexLock, removeDeadReclaimMarker).
ReclaimEnds == UnclaimedLockReclaimed /\ DeadClaimCleared /\ AcquireEnds

\* The processes between the end of acquireIndexLock and their release.
Mutators == {p \in Proc : pc[p] \in {"hold", "complete", "unlink", "rmdir"}}

Lease == INSTANCE IndexLease WITH holders <- {own[p] : p \in Mutators}

\* The lease promises withIndexMutationLease what IndexLease says.
LeaseRefined == Lease!Spec
=============================================================================
