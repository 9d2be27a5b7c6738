------------------------------ MODULE AutoIndex ------------------------------
(***************************************************************************)
(* AutoIndexCoordinator (src/src/utils/auto-index.ts): the one place where *)
(* a process decides which index run happens next.  Startup, retrieval,    *)
(* watcher and manual requests meet here; they join the run in progress,   *)
(* queue a follow-up behind it, abort it (a forced rebuild) or wait for AC *)
(* power.                                                                  *)
(*                                                                         *)
(* The coordinator is a net of promises, and so is the model.  A slot of   *)
(* prom holds one pending promise:                                         *)
(*   "call"   what request() returned to a caller;                         *)
(*   "check"  waitForACPower(), the wait for AC power;                     *)
(*   "job"    run(), one index run with its retries.                       *)
(* "on" is the promise it waits for.  A step of the event loop is a macro  *)
(* step (a request, a timer, the end of an I/O) followed by the promise    *)
(* callbacks it triggers; the callbacks run in any order here, but all of  *)
(* them before the next macro step (Quiet).  The reactions of one job are  *)
(* one action, Cleanup: a promise's reactions run back to back, in the     *)
(* order they were registered, and cleanup is registered first (line 384). *)
(*                                                                         *)
(* configureAutoIndex with another index path replaces the coordinator;    *)
(* the coordinators of one project are numbered 1, 2, ...                  *)
(***************************************************************************)
EXTENDS Integers, FiniteSets

CONSTANTS
  Slots,        \* bound: promises pending at once
  Coordinators, \* bound: coordinators of the project, replacements included
  Events,       \* bound: requests, edits, reconfigurations, power changes, stops
  MaxRetries,   \* autoIndexMaxRetries
  Requests,     \* the requests the callers make
  Worlds,       \* the settings to explore: see World
  Safe,         \* getProjectSafety: a project with a marker, not the home directory
  MayStop       \* stopAutoIndex may be called

\* What a configuration may say in a behaviour, and how often it may name
\* another index path.
World == [autos : SUBSET BOOLEAN,     \* the values of autoIndex
          policies : SUBSET BOOLEAN,  \* those of "there is a battery policy" (line 664)
          coordinators : Nat]         \* bound: coordinators, replacements included

ASSUME BoundsAssumption ==
  /\ Slots \in Nat \ {0} /\ Coordinators \in Nat \ {0}
  /\ Events \in Nat /\ MaxRetries \in Nat
ASSUME SwitchAssumption ==
  /\ \A w \in Worlds :
       w \in World /\ w.autos # {} /\ w.policies # {} /\ w.coordinators <= Coordinators
  /\ Safe \in BOOLEAN /\ MayStop \in BOOLEAN

VARIABLES
  world,    \* one of Worlds
  prom,     \* the pending promises
  coord,    \* the fields of each coordinator
  barrier,  \* the job a replacement coordinator's activation waits for
  current,  \* the coordinator the project's key leads to
  watch,    \* a watcher has changes to report (its debounce is running)
  changed,  \* the tree against the index: "clean", "dirty", or "taken", that is
            \* an index operation that has begun since the last change
  battery,  \* the machine runs on battery
  left      \* how many of Events are left

vars == <<world, prom, coord, barrier, current, watch, changed, battery, left>>

Slot == 1..Slots
None == 0
Coordinator == 1..Coordinators

Source == {"startup", "retrieval", "watcher", "manual"}
NoRequest == [source |-> "none"]

Startup   == [check |-> TRUE,  force |-> FALSE, source |-> "startup"]
Retrieval == [check |-> TRUE,  force |-> FALSE, source |-> "retrieval"]
Changes   == [check |-> FALSE, force |-> FALSE, source |-> "watcher"]
Manual    == [check |-> TRUE,  force |-> FALSE, source |-> "manual"]
Rebuild   == [check |-> FALSE, force |-> TRUE,  source |-> "manual"]

ASSUME RequestsAssumption == Requests \subseteq {Startup, Retrieval, Manual, Rebuild}

-----------------------------------------------------------------------------
(* Promises.                                                               *)

Free == [kind |-> "free"]

Call(g, req) ==
  [kind |-> "call", gen |-> g, req |-> req, step |-> "enter", on |-> None, out |-> "none"]

Check(g) ==
  [kind |-> "check", gen |-> g, step |-> "ask", on |-> None, out |-> "none"]

\* run up to its first await: the freshness check, or the index operation.
FirstStep(req) == IF req.check /\ ~req.force THEN "fresh" ELSE "index"

Job(g, req) ==
  [kind |-> "job", gen |-> g, req |-> req, step |-> FirstStep(req), retry |-> 0,
   aborted |-> FALSE, on |-> None, out |-> "none"]

Is(s, kind) == prom[s].kind = kind
At(s, kind, step) == Is(s, kind) /\ prom[s].step = step
Waiting(s, step, on) == prom[s].kind \in {"call", "check"} /\ prom[s].step = step /\ prom[s].on = on

Settled(p, out) == [p EXCEPT !.step = "settled", !.on = None, !.out = out]
Wait(p, step, on) == [p EXCEPT !.step = step, !.on = on]

Unused == {s \in Slot : Is(s, "free")}
Lowest(S) == CHOOSE s \in S : \A t \in S : s <= t

\* Seeded fault: only the coordinator just replaced is waited for.
ActivatedAlone(g) == barrier[g] = None

\* A replacement's requests wait until the coordinators before it are drained.
Activated(g) == \A h \in Coordinator : h <= g => barrier[h] = None

\* A promise callback is ready to run.
Ready(s) ==
  \/ prom[s].kind # "free" /\ prom[s].step = "settled"
  \/ At(s, "call", "enter") /\ Activated(prom[s].gen)
  \/ At(s, "check", "woken")
  \/ At(s, "job", "delay") /\ prom[s].aborted

Quiet == \A s \in Slot : ~Ready(s)

-----------------------------------------------------------------------------
(* Requests and the coordinator's fields.                                  *)

Priority(req) ==
  CASE req.force -> 4
    [] ~req.force /\ req.source = "manual" -> 3
    [] ~req.force /\ req.source = "watcher" -> 2
    [] OTHER -> 1

Merge(queued, next) ==
  IF queued = NoRequest THEN next
  ELSE [check  |-> queued.check /\ next.check,
        force  |-> queued.force \/ next.force,
        source |-> IF Priority(next) > Priority(queued) THEN next.source ELSE queued.source]

NewCoordinator(auto, policy) ==
  [inFlight |-> None, pending |-> NoRequest, followUp |-> None, deferred |-> NoRequest,
   check |-> None, checkJob |-> None, stopped |-> FALSE, auto |-> auto, policy |-> policy,
   status |-> "idle", everStopped |-> FALSE]

SetState(c, state) ==
  IF c.stopped /\ state # "stopped" THEN c ELSE [c EXCEPT !.status = state]

CanRun(c, req) == req.source \in {"manual", "watcher"} \/ (Safe /\ c.auto)

\* Seeded fault: watcher requests are not deferred.
DeferStartup(c, req) == c.policy /\ req.source = "startup"

ShouldDefer(c, req) == c.policy /\ req.source \in {"startup", "watcher"}

\* Seeded fault: the abort reaches nobody.
AbortNothing(P, c) == P

\* The request of the run in progress, and its abort controller.
ActiveRequest(c) == IF c.inFlight = None THEN NoRequest ELSE prom[c.inFlight].req
Abort(P, c) == IF c.inFlight = None THEN P ELSE [P EXCEPT ![c.inFlight].aborted = TRUE]

\* cancelBatteryRetry: the sleeping check of coordinator g is woken.
WakeCheck(P, g) ==
  [s \in Slot |-> IF P[s].kind = "check" /\ P[s].gen = g /\ P[s].step = "sleep"
                  THEN [P[s] EXCEPT !.step = "woken"] ELSE P[s]]

\* An index operation begins: it reads the tree as it is now.
Taken(begins) == changed' = IF begins /\ changed = "dirty" THEN "taken" ELSE changed

-----------------------------------------------------------------------------
(* Every way into a run: enqueueRequest and startRequest, for the promise  *)
(* s and with the coordinator's fields c.                                  *)

\* waitForACPower remembers the job it has led to (line 599).
CheckJob(s, c, j) == IF Is(s, "check") THEN [c EXCEPT !.checkJob = j] ELSE c

StartRequest(s, c, req) ==
  LET g == prom[s].gen
      j == Lowest(Unused)
      running == SetState(c, IF FirstStep(req) = "fresh" THEN "checking" ELSE "indexing")
  IN  /\ Unused # {}
      /\ prom' = [prom EXCEPT ![j] = Job(g, req), ![s] = Wait(@, "adopt", j)]
      /\ coord' = [coord EXCEPT ![g] = CheckJob(s, [running EXCEPT !.inFlight = j], j)]
      /\ Taken(FirstStep(req) = "index")

\* Seeded fault: a forced request joins any run.
JoinsAnyRun(c, req) == FALSE

\* A forced request does not join a run that is not forced.
Supersedes(c, req) == req.force /\ ~ActiveRequest(c).force

EnqueueRequest(s, c, req) ==
  LET g == prom[s].gen
      j == c.inFlight
      queued == [c EXCEPT !.pending = Merge(@, req)]
  IN  \/ /\ c.stopped \/ ~CanRun(c, req)
         /\ prom' = [prom EXCEPT ![s] = Settled(@, "stopped")]
         /\ coord' = [coord EXCEPT ![g] = c]
         /\ UNCHANGED changed
      \/ /\ ~c.stopped /\ CanRun(c, req) /\ j # None /\ Supersedes(c, req)
         /\ prom' = Abort([prom EXCEPT ![s] = Wait(@, "forced", j)], c)
         /\ coord' = [coord EXCEPT ![g] = queued]
         /\ UNCHANGED changed
      \/ /\ ~c.stopped /\ CanRun(c, req) /\ j # None /\ ~Supersedes(c, req)
         /\ req.source = "watcher"
         /\ prom' = [prom EXCEPT ![s] = Wait(@, "follow", j)]
         /\ coord' = [coord EXCEPT ![g] = queued]
         /\ UNCHANGED changed
      \/ /\ ~c.stopped /\ CanRun(c, req) /\ j # None /\ ~Supersedes(c, req)
         /\ req.source # "watcher"
         /\ prom' = [prom EXCEPT ![s] = Wait(@, "adopt", j)]
         /\ coord' = [coord EXCEPT ![g] = CheckJob(s, c, j)]
         /\ UNCHANGED changed
      \/ /\ ~c.stopped /\ CanRun(c, req) /\ j = None
         /\ StartRequest(s, c, req)

\* The callback of activation.then: enqueueBatteryAwareRequest.
Enter(s) ==
  LET g == prom[s].gen
      c == coord[g]
      req == prom[s].req
      deferred == [c EXCEPT !.deferred = Merge(@, req)]
      joins == c.check # None /\ c.checkJob # None /\ c.checkJob = c.inFlight
      b == Lowest(Unused)
  IN  /\ At(s, "call", "enter") /\ Activated(g)
      /\ \/ /\ ~ShouldDefer(c, req) \/ joins
            /\ EnqueueRequest(s, c, req)
         \/ /\ ShouldDefer(c, req) /\ ~joins /\ c.check # None
            /\ prom' = [prom EXCEPT ![s] = Wait(@, "adopt", c.check)]
            /\ coord' = [coord EXCEPT ![g] = deferred]
            /\ UNCHANGED changed
         \/ /\ ShouldDefer(c, req) /\ ~joins /\ c.check = None /\ Unused # {}
            /\ prom' = [prom EXCEPT ![s] = Wait(@, "adopt", b),
                                    ![b] = IF c.stopped THEN Settled(Check(g), "stopped")
                                                        ELSE Check(g)]
            /\ coord' = [coord EXCEPT ![g] = [deferred EXCEPT !.check = b]]
            /\ UNCHANGED changed
      /\ UNCHANGED <<barrier, current, watch, battery, left>>

-----------------------------------------------------------------------------
(* waitForACPower.                                                         *)

\* Past the loop: the deferred request is enqueued.
LeaveCheck(b) ==
  LET c == coord[prom[b].gen]
      emptied == [c EXCEPT !.deferred = NoRequest]
  IN  IF c.deferred = NoRequest
      THEN /\ prom' = [prom EXCEPT ![b] = Settled(@, "stopped")]
           /\ UNCHANGED <<coord, changed>>
      ELSE EnqueueRequest(b, emptied, c.deferred)

\* pmset reads the power source, in a process of its own; it may fail, take too long or
\* say what is not understood.
PowerRead(b) ==
  /\ At(b, "check", "ask")
  /\ Quiet
  /\ \E reading \in {IF battery THEN "onBattery" ELSE "onAC", "unread"} :
       prom' = [prom EXCEPT ![b].step = reading]
  /\ UNCHANGED <<coord, barrier, current, watch, changed, battery, left>>

\* The readings after which background indexing continues (isBatteryPauseActive, isPaused).
NotPaused == {"onAC", "unread"}

\* isPaused answers with what was read, though the power source may have changed since.
AskEnds(b) ==
  /\ Is(b, "check")
  /\ Quiet
  /\ \/ /\ At(b, "check", "onBattery")
        /\ prom' = [prom EXCEPT ![b].step = "sleep"]
        /\ UNCHANGED <<coord, changed>>
     \/ /\ prom[b].step \in NotPaused
        /\ LeaveCheck(b)
  /\ UNCHANGED <<barrier, current, watch, battery, left>>

\* The loop's next turn, after a timer or cancelBatteryRetry.
RecheckPower(b) ==
  LET c == coord[prom[b].gen] IN
  \/ /\ c.stopped
     /\ prom' = [prom EXCEPT ![b] = Settled(@, "stopped")]
     /\ UNCHANGED <<coord, changed>>
  \/ /\ ~c.stopped /\ ~c.policy
     /\ LeaveCheck(b)
  \/ /\ ~c.stopped /\ c.policy
     /\ prom' = [prom EXCEPT ![b].step = "ask"]
     /\ UNCHANGED <<coord, changed>>

BatteryTimer(b) ==
  /\ At(b, "check", "sleep")
  /\ Quiet
  /\ RecheckPower(b)
  /\ UNCHANGED <<barrier, current, watch, battery, left>>

Woken(b) ==
  /\ At(b, "check", "woken")
  /\ RecheckPower(b)
  /\ UNCHANGED <<barrier, current, watch, battery, left>>

-----------------------------------------------------------------------------
(* run: one job.                                                           *)

\* Seeded fault: the run ends without setState.
EndsSilently(j, out, c) == prom' = [prom EXCEPT ![j] = Settled(@, out)] /\ UNCHANGED coord

Ends(j, out, c) ==
  /\ prom' = [prom EXCEPT ![j] = Settled(@, out)]
  /\ coord' = [coord EXCEPT ![prom[j].gen] = c]

\* The catch clause for a cancelled run.
Cancelled(j) ==
  LET c == coord[prom[j].gen] IN
  Ends(j, "stopped",
       CASE c.stopped -> SetState(c, "stopped")
         [] ~c.stopped /\ ~c.auto /\ prom[j].req.source # "manual" -> SetState(c, "idle")
         [] OTHER -> c)

RetriesOf(req) == IF req.source = "manual" THEN 0 ELSE MaxRetries

\* The catch clause: cancelled, retried after a delay, or failed.
Caught(j, error) ==
  LET g == prom[j].gen
      retries == error = "busy" /\ prom[j].retry < RetriesOf(prom[j].req)
  IN  \/ /\ prom[j].aborted
         /\ Cancelled(j)
      \/ /\ ~prom[j].aborted /\ retries
         /\ prom' = [prom EXCEPT ![j].step = "delay", ![j].retry = @ + 1]
         /\ coord' = [coord EXCEPT ![g] = SetState(@, "busy-retrying")]
      \/ /\ ~prom[j].aborted /\ ~retries
         /\ Ends(j, "failed", SetState(coord[g], "failed"))

BeginIndex(j) ==
  /\ prom' = [prom EXCEPT ![j].step = "index"]
  /\ coord' = [coord EXCEPT ![prom[j].gen] = SetState(@, "indexing")]
  /\ Taken(TRUE)

\* getIndexFreshness answers: skip when the index is current.
FreshEnds(j) ==
  /\ At(j, "job", "fresh")
  /\ Quiet
  /\ \/ /\ prom[j].aborted
        /\ Cancelled(j) /\ UNCHANGED changed
     \/ /\ ~prom[j].aborted /\ changed = "clean"
        /\ Ends(j, "skipped", SetState(coord[prom[j].gen], "ready"))
        /\ UNCHANGED changed
     \/ /\ ~prom[j].aborted /\ changed # "clean"
        /\ BeginIndex(j)
     \/ /\ \E error \in {"busy", "error"} : Caught(j, error)
        /\ UNCHANGED changed
  /\ UNCHANGED <<barrier, current, watch, battery, left>>

\* index() or forceIndex() is over.
IndexEnds(j) ==
  LET req == prom[j].req
      ready == SetState(coord[prom[j].gen], "ready")
      checked == req.source \in {"startup", "retrieval"}
  IN  /\ At(j, "job", "index")
      /\ Quiet
      /\ \/ /\ changed' = IF changed = "taken" THEN "clean" ELSE changed
            /\ \/ prom[j].aborted /\ Cancelled(j)
               \/ /\ ~prom[j].aborted /\ checked
                  /\ prom' = [prom EXCEPT ![j].step = "status"]
                  /\ UNCHANGED coord
               \/ /\ ~prom[j].aborted /\ ~checked
                  /\ Ends(j, IF req.force THEN "rebuilt" ELSE "ready", ready)
         \/ /\ changed' = IF changed = "taken" THEN "dirty" ELSE changed
            /\ \E error \in {"busy", "error"} : Caught(j, error)
      /\ UNCHANGED <<barrier, current, watch, battery, left>>

\* getStatus answers: an index came of the run, or none did.
StatusEnds(j) ==
  LET c == coord[prom[j].gen] IN
  /\ At(j, "job", "status")
  /\ Quiet
  /\ \/ Ends(j, "ready", SetState(c, "ready"))
     \/ Ends(j, "failed", SetState(c, "failed"))
     \/ Caught(j, "error")
  /\ UNCHANGED <<barrier, current, watch, changed, battery, left>>

\* The retry delay is over, and the loop starts again.
DelayEnds(j) ==
  /\ At(j, "job", "delay") /\ ~prom[j].aborted
  /\ Quiet
  /\ \/ /\ FirstStep(prom[j].req) = "fresh"
        /\ prom' = [prom EXCEPT ![j].step = "fresh"]
        /\ coord' = [coord EXCEPT ![prom[j].gen] = SetState(@, "checking")]
        /\ UNCHANGED changed
     \/ /\ FirstStep(prom[j].req) = "index"
        /\ BeginIndex(j)
  /\ UNCHANGED <<barrier, current, watch, battery, left>>

\* Seeded fault: the abort clears the timer and rejects nothing.
DelayHangs(j) == FALSE /\ UNCHANGED vars

\* The abort ends the delay at once; only a stop touches the status here.
DelayAborted(j) ==
  LET c == coord[prom[j].gen] IN
  /\ At(j, "job", "delay") /\ prom[j].aborted
  /\ Ends(j, "stopped", IF c.stopped THEN SetState(c, "stopped") ELSE c)
  /\ UNCHANGED <<barrier, current, watch, changed, battery, left>>

-----------------------------------------------------------------------------
(* Promises settle.                                                        *)

\* A pending promise hears that s has settled with out.
Heard(t, s, out) == IF Waiting(t, "adopt", s) THEN Settled(prom[t], out) ELSE prom[t]

\* Seeded fault: what was queued is forgotten.
Forgotten(c) == NoRequest

\* The follow-up after a run starts with what was queued behind it.
Requeued(c) == IF c.stopped THEN NoRequest ELSE c.pending

\* cleanup takes the job off its coordinator; f is the call for what was queued.
Cleared(c, j, queued, f) ==
  IF c.inFlight # j THEN c
  ELSE [c EXCEPT !.inFlight = None, !.pending = NoRequest,
                 !.check = IF c.checkJob = j THEN None ELSE @,
                 !.checkJob = IF @ = j THEN None ELSE @,
                 !.followUp = IF queued = NoRequest THEN @ ELSE f]

\* The calls that wait for the end of a job to force another.
Forcing(j) == {s \in Slot : Waiting(s, "forced", j)}

\* What a promise that waited for the end of a job does then: it follows another promise,
\* or settles.
Released(s, c, next) ==
  IF c.stopped \/ next = None THEN Settled(prom[s], "stopped") ELSE Wait(prom[s], "adopt", next)

\* The reactions of a settled job: startRequest's cleanup (385-404), then the
\* callbacks of the requests that wait for its end (331-334, 339-342).
Cleanup(j) ==
  LET g == prom[j].gen
      c == coord[g]
      req == IF c.inFlight = j THEN Requeued(c) ELSE NoRequest
      starts == Forcing(j) # {} /\ ~c.stopped
      force == prom[CHOOSE s \in Forcing(j) : TRUE].req
      f == Lowest(Unused)
      n == Lowest(Unused \ {f})
      followed == Cleared(c, j, req, f)
      forcedJob == IF followed.inFlight # None THEN followed.inFlight ELSE n
  IN  /\ At(j, "job", "settled")
      /\ Cardinality(Unused) >= 2
      /\ prom' = [s \in Slot |->
           CASE s = j -> Free
             [] s = f /\ req # NoRequest -> Call(g, req)
             [] s = n /\ starts /\ forcedJob = n -> Job(g, force)
             [] Waiting(s, "follow", j) -> Released(s, c, followed.followUp)
             [] Waiting(s, "forced", j) -> Released(s, c, forcedJob)
             [] OTHER -> Heard(s, j, prom[j].out)]
      /\ coord' = [coord EXCEPT ![g] =
           IF starts /\ forcedJob = n
           THEN SetState([followed EXCEPT !.inFlight = n], "indexing") ELSE followed]
      /\ barrier' = [h \in Coordinator |-> IF barrier[h] = j THEN None ELSE barrier[h]]
      /\ Taken(starts /\ forcedJob = n)
      /\ UNCHANGED <<current, watch, battery, left>>

\* A call settles: followUp.then first, then its callers.
SettleCall(s) ==
  LET g == prom[s].gen IN
  /\ At(s, "call", "settled")
  /\ prom' = [t \in Slot |-> IF t = s THEN Free ELSE Heard(t, s, prom[s].out)]
  /\ coord' = [coord EXCEPT ![g].followUp = IF @ = s THEN None ELSE @]
  /\ UNCHANGED <<barrier, current, watch, changed, battery, left>>

\* A battery check settles: finishBatteryCheck first, then its callers.
SettleCheck(b) ==
  LET g == prom[b].gen
      c == coord[g]
      again == c.check = b /\ c.deferred # NoRequest /\ ~c.stopped
      f == Lowest(Unused)
  IN  /\ At(b, "check", "settled")
      /\ Unused # {}
      /\ prom' = [t \in Slot |->
           CASE t = b -> Free
             [] t = f /\ again -> Call(g, c.deferred)
             [] OTHER -> Heard(t, b, prom[b].out)]
      /\ coord' = [coord EXCEPT ![g] =
           IF c.check = b THEN [c EXCEPT !.check = None, !.deferred = NoRequest] ELSE c]
      /\ UNCHANGED <<barrier, current, watch, changed, battery, left>>

-----------------------------------------------------------------------------
(* The callers and the world.                                              *)

\* Room for the promises that one macro step can lead to.
Room == Cardinality(Unused) >= 4

Spend == left > 0 /\ left' = left - 1

Ask(req) ==
  prom' = IF coord[current].stopped THEN prom
          ELSE [prom EXCEPT ![Lowest(Unused)] = Call(current, req)]

\* startAutoIndex, waitForAutoIndexForRetrieval and runCoordinatedIndex.
External(req) ==
  LET c == coord[current] IN
  /\ Quiet /\ Room /\ Spend
  /\ ~c.stopped
  /\ req.source \in {"startup", "retrieval"} => c.auto /\ Safe /\ c.status # "failed"
  /\ Ask(req)
  /\ UNCHANGED <<coord, barrier, current, watch, changed, battery>>

\* A file of the tree changes, and the watcher's debounce starts.
Edit ==
  /\ Quiet /\ Spend
  /\ changed' = "dirty"
  /\ watch' = TRUE
  /\ UNCHANGED <<prom, coord, barrier, current, battery>>

\* The watcher flushes its changes: requestBackgroundIndex.
Notify ==
  /\ watch
  /\ Quiet /\ Room
  /\ watch' = FALSE
  /\ Ask(Changes)
  /\ UNCHANGED <<world, coord, barrier, current, changed, battery, left>>

\* update, on the coordinator the project already has.
Update(auto, policy) ==
  LET c == coord[current]
      revived == IF c.stopped THEN [c EXCEPT !.stopped = FALSE, !.status = "idle"] ELSE c
      told == [revived EXCEPT !.auto = auto, !.policy = policy]
      drops == ~auto /\ ActiveRequest(c).source # "manual"
      dropped == [told EXCEPT !.pending = NoRequest,
                              !.status = IF c.inFlight = None THEN "idle" ELSE @]
      kept == IF drops THEN Abort(prom, c) ELSE prom
  IN  /\ prom' = IF policy # c.policy THEN WakeCheck(kept, current) ELSE kept
      /\ coord' = [coord EXCEPT ![current] = IF drops THEN dropped ELSE told]
      /\ UNCHANGED <<barrier, current>>

Stopped(c) ==
  [c EXCEPT !.stopped = TRUE, !.deferred = NoRequest, !.pending = NoRequest,
            !.status = "stopped", !.everStopped = TRUE]

\* The configuration names another index path: the coordinator is replaced.
Replace(auto, policy) ==
  /\ current < world.coordinators
  /\ prom' = Abort(WakeCheck(prom, current), coord[current])
  /\ coord' = [coord EXCEPT ![current] = Stopped(@),
                            ![current + 1] = NewCoordinator(auto, policy)]
  /\ barrier' = [barrier EXCEPT ![current + 1] = coord[current].inFlight]
  /\ current' = current + 1

\* configureAutoIndex at run time: the config file has changed, which is a
\* change of the tree like any other to the watcher (watcher/index.ts:57-66).
Reconfigure(auto, policy) ==
  /\ Quiet /\ Spend
  /\ Update(auto, policy) \/ Replace(auto, policy)
  /\ changed' = "dirty"
  /\ watch' = TRUE
  /\ UNCHANGED battery

\* stopAutoIndex.
Stop ==
  /\ MayStop
  /\ Quiet /\ Spend
  /\ prom' = Abort(WakeCheck(prom, current), coord[current])
  /\ coord' = [coord EXCEPT ![current] = Stopped(@)]
  /\ UNCHANGED <<barrier, current, watch, changed, battery>>

\* The power source changes.
Power ==
  /\ TRUE \in world.policies
  /\ Quiet /\ Spend
  /\ battery' = ~battery
  /\ UNCHANGED <<prom, coord, barrier, current, watch, changed>>

-----------------------------------------------------------------------------
Init ==
  /\ world \in Worlds
  /\ prom = [s \in Slot |-> Free]
  /\ \E auto \in world.autos, policy \in world.policies :
       coord = [g \in Coordinator |->
                  IF g = 1 THEN NewCoordinator(auto, policy) ELSE NewCoordinator(TRUE, FALSE)]
  /\ barrier = [g \in Coordinator |-> None]
  /\ current = 1
  /\ watch = FALSE
  /\ changed \in {"clean", "dirty"}
  /\ battery \in {FALSE} \cup world.policies
  /\ left = Events

Callback(s) ==
  /\ \/ Enter(s) \/ Woken(s) \/ DelayAborted(s)
     \/ Cleanup(s) \/ SettleCall(s) \/ SettleCheck(s)
  /\ UNCHANGED world

JobAnswer(j) ==
  (FreshEnds(j) \/ IndexEnds(j) \/ StatusEnds(j) \/ DelayEnds(j)) /\ UNCHANGED world

PowerAnswer(b) == (PowerRead(b) \/ AskEnds(b) \/ BatteryTimer(b)) /\ UNCHANGED world

Outside ==
  /\ \/ \E req \in Requests : External(req)
     \/ \E auto \in world.autos, policy \in world.policies : Reconfigure(auto, policy)
     \/ Edit \/ Stop \/ Power
  /\ UNCHANGED world

Next ==
  \/ \E s \in Slot : Callback(s) \/ JobAnswer(s) \/ PowerAnswer(s)
  \/ Notify
  \/ Outside

Spec == Init /\ [][Next]_vars

\* The event loop runs every callback, every timer fires and every I/O ends;
\* nobody has to make a request.  At most one job waits for I/O at a time, and where there
\* is one coordinator one battery check, so fairness to "some" is fairness to each.
Fairness ==
  /\ WF_vars(\E s \in Slot : Callback(s))
  /\ WF_vars(\E s \in Slot : JobAnswer(s))
  /\ WF_vars(\E s \in Slot : PowerAnswer(s))
  /\ WF_vars(Notify)

FairSpec == Spec /\ Fairness
-----------------------------------------------------------------------------
(* Properties.                                                             *)

Jobs == {s \in Slot : Is(s, "job")}
Running == {j \in Jobs : prom[j].step # "settled"}

\* Two index runs of one project never overlap, whatever is requested,
\* aborted, reconfigured or replaced meanwhile ("keeping reindex jobs
\* serialized", CHANGELOG.md:286).
SerialJobs == Cardinality(Running) <= 1

\* While a coordinator is stopped it begins no run and no index operation, its
\* status stays "stopped", and no queued request or sleeping timer revives it
\* (tests/auto-index.test.ts:273).
StopTerminal ==
  [][\A g \in Coordinator :
       coord[g].stopped /\ coord'[g].stopped =>
         /\ coord'[g].status = "stopped"
         /\ \A s \in Slot :
              prom'[s].kind = "job" /\ prom'[s].gen = g /\ prom'[s].step # "settled" =>
                /\ Is(s, "job")
                /\ prom'[s].step = "index" => prom[s].step = "index"]_vars

\* A caller that asks for a rebuild gets one: it is never answered with a run
\* that was not forced, and never dropped unless the coordinator is stopped
\* ("queues force indexing behind and supersedes background work safely",
\* tests/auto-index.test.ts:454).
ForceHonoured ==
  \A s \in Slot : At(s, "call", "settled") /\ prom[s].req.force =>
    prom[s].out \in {"rebuilt", "failed"} \/ coord[prom[s].gen].everStopped

Pending(reqs) == \E s \in Slot : Is(s, "call") /\ prom[s].req.source \in reqs

\* Every request is answered: no caller waits for a promise that nothing will
\* settle.  Where there may be a battery policy this is claimed for manual requests
\* only, which are answered even while background work waits for AC power ("keeps
\* manual `index_codebase` requests available", CHANGELOG.md:110).
Answerable == IF TRUE \in world.policies THEN {"manual"} ELSE Source
CallsAnswered == Pending(Answerable) ~> ~Pending(Answerable)

Indexed == changed = "clean" \/ coord[current].status = "failed" \/ coord[current].stopped

\* A change the watcher sees gets into the index, unless a run fails or the
\* coordinator is stopped: it is never lost in a queue, behind an aborted run
\* or in a replaced coordinator, nor by waiting for AC power that comes.
ChangesIndexed == <>[]~battery => (watch ~> Indexed)

\* The same without a battery policy.
ChangesIndexedOnMains == (watch /\ world.policies = {FALSE}) ~> Indexed

\* Whatever way a startup or watcher request takes, through a queue, a follow-up or the end
\* of another run: while there is a battery policy its run begins only at the end of a
\* power check of its coordinator, whose reading said AC power or failed, and the check
\* then waits for it ("waits for AC power" and "fails open if the source cannot be
\* determined", CHANGELOG.md:110).  That the source is still AC when the run begins is not
\* claimed: the code does not read it again after the await (line 593).
BatteryHeld ==
  [][\A s \in Slot :
       /\ prom'[s].kind = "job" /\ ~Is(s, "job")
       /\ prom'[s].req.source \in {"startup", "watcher"}
       /\ coord[prom'[s].gen].policy
       => \E b \in Slot :
            /\ Is(b, "check") /\ prom[b].gen = prom'[s].gen /\ prom[b].step \in NotPaused
            /\ prom'[b].on = s]_vars

\* Between two events, the status claims a run in progress only when there is
\* one, where automatic indexing stays on.  (A run whose retry delay is cut short by
\* switching it off leaves "busy-retrying" behind, line 520; one that is cut short in
\* an index operation sets "idle", line 494.)
StatusHonest ==
  Quiet /\ world.autos = {TRUE} => \A g \in Coordinator :
    coord[g].status \in {"checking", "indexing", "busy-retrying"} => coord[g].inFlight # None
=============================================================================
