--------------------------- MODULE AutoIndexProofs ---------------------------
(***************************************************************************)
(* Proofs about AutoIndex, for any number of coordinators, promises and    *)
(* events: runs never overlap, a forced rebuild is never answered with     *)
(* anything else, stopping is terminal, background runs begin on AC power, *)
(* and the status claims no run that is not there.                         *)
(*                                                                         *)
(* The argument: a coordinator has at most one job, the one in its         *)
(* inFlight field.  A coordinator that was replaced is stopped, and while  *)
(* its job lasts a barrier keeps every later coordinator from starting     *)
(* one.  A job is aborted only by a stop, by automatic indexing being      *)
(* switched off, or by a forced request that waits for its end.            *)
(***************************************************************************)
EXTENDS AutoIndex, TLAPS, FiniteSetTheorems, WellFoundedInduction

Req == {r \in [check : BOOLEAN, force : BOOLEAN, source : Source] :
          r.force => r.source = "manual"}
DeferredReq == {r \in Req : r.source \in {"startup", "watcher"}}

Outcome == {"none", "stopped", "skipped", "ready", "rebuilt", "failed"}
State == {"idle", "checking", "indexing", "busy-retrying", "ready", "failed", "stopped"}

\* The steps of the loop of waitForACPower.
LoopSteps == {"ask", "onBattery", "onAC", "unread", "sleep", "woken"}

Calls == [kind : {"call"}, gen : Coordinator, req : Req,
          step : {"enter", "adopt", "follow", "forced", "settled"},
          on : Slot \cup {None}, out : Outcome]
Checks == [kind : {"check"}, gen : Coordinator,
           step : {"ask", "onBattery", "onAC", "unread", "sleep", "woken",
                   "adopt", "follow", "settled"},
           on : Slot \cup {None}, out : Outcome]
AllJobs == [kind : {"job"}, gen : Coordinator, req : Req,
            step : {"fresh", "index", "status", "delay", "settled"},
            retry : Nat, aborted : BOOLEAN, on : {None}, out : Outcome]
Promise == {Free} \cup Calls \cup Checks \cup AllJobs

Fields == [inFlight : Slot \cup {None}, pending : Req \cup {NoRequest},
           followUp : Slot \cup {None}, deferred : DeferredReq \cup {NoRequest},
           check : Slot \cup {None}, checkJob : Slot \cup {None},
           stopped : BOOLEAN, auto : BOOLEAN, policy : BOOLEAN,
           status : State, everStopped : BOOLEAN]

TypeOK ==
  /\ world \in Worlds
  /\ prom \in [Slot -> Promise]
  /\ coord \in [Coordinator -> Fields]
  /\ barrier \in [Coordinator -> Slot \cup {None}]
  /\ current \in Coordinator
  /\ battery \in BOOLEAN

Fulfilled(p) == p.out \in {"rebuilt", "failed"} \/ coord[p.gen].everStopped

ForcedJob(p) ==
  /\ p.step \in {"index", "delay", "settled"}
  /\ p.aborted => coord[p.gen].everStopped
  /\ p.step = "settled" => Fulfilled(p)

\* A job is the one its coordinator knows of; a job of a stopped coordinator is aborted.
JobOK(s) ==
  Is(s, "job") =>
    /\ coord[prom[s].gen].inFlight = s
    /\ Activated(prom[s].gen)
    /\ coord[prom[s].gen].stopped => prom[s].aborted
    /\ prom[s].req.force => ForcedJob(prom[s])

CheckOK(s) == Is(s, "check") => Activated(prom[s].gen)

\* A call that waits for the end of another job is forced; a forced call waits for the
\* end of a job or for a forced job.
CallOK(s) ==
  Is(s, "call") =>
    /\ prom[s].step = "forced" =>
         /\ prom[s].req.force
         /\ prom[s].on # None
         /\ Is(prom[s].on, "job")
         /\ prom[prom[s].on].gen = prom[s].gen
    /\ prom[s].req.force =>
         /\ prom[s].step # "follow"
         /\ prom[s].step = "adopt" =>
              /\ prom[s].on # None
              /\ Is(prom[s].on, "job")
              /\ prom[prom[s].on].req.force
              /\ prom[prom[s].on].gen = prom[s].gen
         /\ prom[s].step = "settled" => Fulfilled(prom[s])

SlotOK(s) ==
  /\ ~Is(s, "free") => prom[s].gen <= current
  /\ JobOK(s) /\ CheckOK(s) /\ CallOK(s)

\* What a coordinator knows of its run; where it stands among the others.
FieldsOK(g) ==
  /\ coord[g].inFlight # None =>
       Is(coord[g].inFlight, "job") /\ prom[coord[g].inFlight].gen = g
  /\ coord[g].stopped => coord[g].status = "stopped" /\ coord[g].everStopped
  /\ g < current =>
       /\ coord[g].stopped
       /\ coord[g].inFlight # None => barrier[g + 1] = coord[g].inFlight
  /\ g > current => coord[g].inFlight = None /\ barrier[g] = None

Claims == {"checking", "indexing", "busy-retrying"}

\* A claimed run is there; when it is over or aborted, a forced request will start another.
ClaimOK(g) ==
  world.autos = {TRUE} =>
    /\ coord[g].auto
    /\ coord[g].status \in Claims =>
         /\ coord[g].inFlight # None
         /\ prom[coord[g].inFlight].aborted \/ prom[coord[g].inFlight].step = "settled" =>
              \E s \in Slot : Waiting(s, "forced", coord[g].inFlight)

Inv ==
  /\ TypeOK
  /\ \A s \in Slot : SlotOK(s)
  /\ \A g \in Coordinator : FieldsOK(g) /\ ClaimOK(g)

-----------------------------------------------------------------------------
(* Operators.                                                              *)

\* A set of slots that is not empty has a lowest one.
LEMMA LowestIn == ASSUME NEW S \in SUBSET Slot, S # {} PROVE Lowest(S) \in S
<1>1. S \subseteq Nat
  BY DEF Slot
<1>2. PICK m \in S : \A n \in S : ~ (<<n, m>> \in OpToRel(<, Nat))
  BY <1>1, WFMin, NatLessThanWellFounded
<1>3. OpToRel(<, Nat) = {pair \in Nat \X Nat : pair[1] < pair[2]}
  BY Zenon DEF OpToRel
<1>4. \A n \in S : ~ (n < m)
  BY <1>1, <1>2, <1>3
<1>5. \A n \in S : m <= n
  BY <1>1, <1>4
<1>6. QED BY <1>5 DEF Lowest

\* Every set of slots is finite.
LEMMA SlotsFinite == \A S \in SUBSET Slot : IsFiniteSet(S) /\ Cardinality(S) \in Nat
<1>1. IsFiniteSet(Slot)
  BY BoundsAssumption, FS_Interval DEF Slot
<1>2. QED BY <1>1, FS_Subset, FS_CardinalityType

\* Two free slots are two different slots.
LEMMA TwoFree ==
  ASSUME Cardinality(Unused) >= 2
  PROVE  /\ Lowest(Unused) \in Unused
         /\ Lowest(Unused \ {Lowest(Unused)}) \in Unused \ {Lowest(Unused)}
<1> DEFINE f == Lowest(Unused)
<1>1. Unused \in SUBSET Slot
  BY DEF Unused
<1>2. IsFiniteSet(Unused) /\ Unused # {}
  BY <1>1, SlotsFinite, FS_EmptySet
<1>3. f \in Unused
  BY <1>1, <1>2, LowestIn
<1>4. Cardinality(Unused \ {f}) = Cardinality(Unused) - 1
  BY <1>2, <1>3, FS_RemoveElement
<1>5. Unused \ {f} # {}
  BY <1>1, <1>4, SlotsFinite, FS_EmptySet
<1>6. QED BY <1>1, <1>3, <1>5, LowestIn

\* What a promise is follows from its kind.
LEMMA Kinds ==
  ASSUME NEW p \in Promise
  PROVE  /\ p.kind \in {"free", "call", "check", "job"}
         /\ p.kind = "free" => p = Free
         /\ p.kind = "call" => p \in Calls
         /\ p.kind = "check" => p \in Checks
         /\ p.kind = "job" => p \in AllJobs
  BY DEF Promise, Free, Calls, Checks, AllJobs

\* New promises are promises; a forced job begins with its index operation.
LEMMA NewPromises ==
  ASSUME NEW g \in Coordinator, NEW req \in Req
  PROVE  /\ Call(g, req) \in Calls /\ Check(g) \in Checks /\ Job(g, req) \in AllJobs
         /\ FirstStep(req) \in {"fresh", "index"}
         /\ req.force => FirstStep(req) = "index"
  BY DEF Call, Check, Job, Calls, Checks, AllJobs, FirstStep, Outcome, Req

\* A promise that settles stays one of its kind.
LEMMA Settles ==
  ASSUME NEW p, NEW out \in Outcome
  PROVE  /\ p \in Calls => Settled(p, out) \in Calls
         /\ p \in Checks => Settled(p, out) \in Checks
         /\ p \in AllJobs => Settled(p, out) \in AllJobs
  BY DEF Settled, Calls, Checks, AllJobs

\* A call or a check that waits for another promise stays one.
LEMMA Waits ==
  ASSUME NEW p, NEW on \in Slot
  PROVE  /\ p \in Calls => /\ Wait(p, "adopt", on) \in Calls
                           /\ Wait(p, "follow", on) \in Calls
                           /\ Wait(p, "forced", on) \in Calls
         /\ p \in Checks => /\ Wait(p, "adopt", on) \in Checks
                            /\ Wait(p, "follow", on) \in Checks
  BY DEF Wait, Calls, Checks

\* Merged requests are requests; deferred ones stay background requests.
LEMMA Merged ==
  ASSUME NEW q \in Req \cup {NoRequest}, NEW req \in Req
  PROVE  /\ Merge(q, req) \in Req
         /\ q \in DeferredReq \cup {NoRequest} /\ req \in DeferredReq => Merge(q, req) \in DeferredReq
  BY DEF Merge, Req, DeferredReq, Priority, NoRequest, Source

\* setState touches the status only, and not that of a stopped coordinator.
LEMMA StateSet ==
  ASSUME NEW c \in Fields, NEW state \in State
  PROVE  /\ SetState(c, state) \in Fields
         /\ SetState(c, state) = [c EXCEPT !.status = SetState(c, state).status]
         /\ SetState(c, state).status = IF c.stopped /\ state # "stopped" THEN c.status ELSE state
  BY DEF SetState, Fields

-----------------------------------------------------------------------------
(* Requests.                                                               *)

Others == UNCHANGED <<world, barrier, current, battery>>

\* Slots keep their promises; only their steps, outcomes and the like change.
SameKind(t) ==
  /\ prom'[t].kind = prom[t].kind
  /\ prom'[t].gen = prom[t].gen
  /\ Is(t, "call") \/ Is(t, "job") => prom'[t].req = prom[t].req

SameSteps(t) ==
  /\ prom'[t].step = prom[t].step
  /\ prom'[t].on = prom[t].on
  /\ prom'[t].out = prom[t].out

SameRun(h) ==
  /\ coord'[h].inFlight = coord[h].inFlight
  /\ coord'[h].stopped = coord[h].stopped
  /\ coord'[h].everStopped = coord[h].everStopped
  /\ coord'[h].status = coord[h].status
  /\ coord'[h].auto = coord[h].auto

\* Who makes a request: a call that enters, or a battery check, of an active coordinator.
Asks(s, req) ==
  /\ s \in Slot
  /\ \/ At(s, "call", "enter") /\ prom[s].req = req
     \/ Is(s, "check") /\ prom[s].step \in LoopSteps /\ req \in DeferredReq
  /\ req \in Req
  /\ Activated(prom[s].gen)

\* With which fields: deferred may be empty.
Given(s, c) ==
  \E q \in DeferredReq \cup {NoRequest} : c = [coord[prom[s].gen] EXCEPT !.deferred = q]

\* Whoever makes a request is a call or a check of a coordinator there is.
LEMMA AskerFacts ==
  ASSUME Inv, NEW s, NEW req, Asks(s, req)
  PROVE  /\ s \in Slot /\ prom[s] \in Calls \cup Checks /\ prom[s].gen \in Coordinator
         /\ prom[s].kind \in {"call", "check"} /\ prom[s].gen <= current
  BY Kinds DEF Inv, TypeOK, Is, At, Calls, Checks, Asks, SlotOK

\* The fields a request is made with are those of its coordinator.
LEMMA GivenFacts ==
  ASSUME Inv, NEW s, prom[s].gen \in Coordinator, NEW c, Given(s, c)
  PROVE  /\ c \in Fields
         /\ c.inFlight = coord[prom[s].gen].inFlight /\ c.stopped = coord[prom[s].gen].stopped
         /\ c.everStopped = coord[prom[s].gen].everStopped
         /\ c.status = coord[prom[s].gen].status /\ c.auto = coord[prom[s].gen].auto
         /\ c.policy = coord[prom[s].gen].policy
  BY DEF Inv, TypeOK, Fields, Given

\* A step that moves promises that are no jobs (S), and aborts a run only for a forced
\* call that then waits for its end, keeps the invariant.
LEMMA Framed ==
  ASSUME Inv, Others, TypeOK', NEW S \in SUBSET Slot,
         \A t \in S : ~Is(t, "job") /\ SlotOK(t)' /\ \A j \in Slot : ~Waiting(t, "forced", j),
         \A t \in Slot \ S : SameKind(t) /\ SameSteps(t),
         \A t \in Slot : Is(t, "job") =>
           \/ prom'[t].aborted = prom[t].aborted
           \/ ~prom[t].req.force /\ prom'[t].aborted /\ \E s \in S : Waiting(s, "forced", t)',
         \A h \in Coordinator : SameRun(h)
  PROVE  Inv'
<1> USE DEF Others, SameKind, SameSteps, SameRun, Is
<1>1. ASSUME NEW t \in Slot PROVE SlotOK(t)'
  <2> USE DEF SlotOK, Inv
  <2>0. prom[t] \in Promise /\ (~Is(t, "free") => prom[t].gen \in Coordinator)
    BY Kinds DEF TypeOK, Calls, Checks, AllJobs
  <2>1. CASE t \in S
    BY <2>1
  <2>2. CASE t \notin S
    <3>1. JobOK(t)'
      BY <2>0, <2>2 DEF JobOK, Activated, ForcedJob, Fulfilled, TypeOK
    <3>2. CheckOK(t)'
      BY <2>0, <2>2 DEF CheckOK, Activated
    <3>3. CallOK(t)'
      <4> SUFFICES ASSUME Is(t, "call") PROVE CallOK(t)'
        BY <2>2 DEF CallOK
      <4>1. prom[t] \in Calls
        BY <2>0, Kinds
      <4>2. CallOK(t) /\ SameKind(t) /\ SameSteps(t)
        BY <2>2
      <4>3. \A n \in Slot : Is(n, "job") => SameKind(n)
        OBVIOUS
      <4> QED BY <2>0, <4>1, <4>2, <4>3 DEF CallOK, Fulfilled, Calls
    <3> QED BY <2>0, <2>2, <3>1, <3>2, <3>3
  <2> QED BY <2>1, <2>2
<1>2. \A h \in Coordinator : FieldsOK(h)'
  BY DEF Inv, FieldsOK, TypeOK, Fields
<1>3. \A h \in Coordinator : ClaimOK(h)'
  <2> SUFFICES ASSUME NEW h \in Coordinator, world.autos = {TRUE} PROVE ClaimOK(h)'
    BY DEF ClaimOK
  <2> DEFINE j == coord[h].inFlight
  <2>1. ClaimOK(h) /\ FieldsOK(h)
    BY DEF Inv
  <2>2. CASE coord[h].status \notin Claims
    BY <2>1, <2>2 DEF ClaimOK
  <2>3. CASE coord[h].status \in Claims
    <3>1. j \in Slot /\ Is(j, "job") /\ j \notin S
      BY <2>1, <2>3 DEF ClaimOK, FieldsOK, TypeOK, Fields, Inv, None
    <3>2. \A t \in Slot : Waiting(t, "forced", j) => Waiting(t, "forced", j)'
      BY <3>1 DEF Waiting
    <3>3. prom'[j].aborted \/ prom'[j].step = "settled" => \E t \in Slot : Waiting(t, "forced", j)'
      BY <2>1, <2>3, <3>1, <3>2 DEF ClaimOK
    <3> QED BY <2>1, <2>3, <3>1, <3>3 DEF ClaimOK, Waiting
  <2> QED BY <2>2, <2>3
<1> QED BY <1>1, <1>2, <1>3 DEF Inv

\* The same for a single promise.
LEMMA Moved ==
  ASSUME Inv, Others, TypeOK', NEW s \in Slot,
         ~Is(s, "job"), SlotOK(s)', ~Is(s, "free") => prom[s].step # "forced",
         \A t \in Slot : t # s => SameKind(t) /\ SameSteps(t),
         \A t \in Slot : Is(t, "job") =>
           \/ prom'[t].aborted = prom[t].aborted
           \/ ~prom[t].req.force /\ prom'[t].aborted /\ Waiting(s, "forced", t)',
         \A h \in Coordinator : SameRun(h)
  PROVE  Inv'
<1>1. PICK S \in SUBSET Slot : S = {s}
  OBVIOUS
<1>2. \A t \in S : ~Is(t, "job") /\ SlotOK(t)' /\ \A j \in Slot : ~Waiting(t, "forced", j)
  BY <1>1 DEF Waiting, Is
<1>3. \A t \in Slot \ S : SameKind(t) /\ SameSteps(t)
  BY <1>1
<1>4. \A t \in Slot : Is(t, "job") =>
           \/ prom'[t].aborted = prom[t].aborted
           \/ ~prom[t].req.force /\ prom'[t].aborted /\ \E n \in S : Waiting(n, "forced", t)'
  BY <1>1
<1> QED BY <1>2, <1>3, <1>4, Framed

\* The first four branches of enqueueRequest: refused, or waiting for the run there is.
LEMMA RequestParked ==
  ASSUME Inv, Others, NEW s, NEW req, NEW c, Asks(s, req), Given(s, c), EnqueueRequest(s, c, req),
         ~(~c.stopped /\ CanRun(c, req) /\ c.inFlight = None)
  PROVE  Inv'
<1>0. PICK g \in Coordinator : g = prom[s].gen
  BY AskerFacts
<1> DEFINE j == c.inFlight
           queued == [c EXCEPT !.pending = Merge(@, req)]
<1>1. /\ s \in Slot /\ prom[s] \in Calls \cup Checks /\ prom[s].gen = g
      /\ prom[s].kind \in {"call", "check"} /\ g <= current /\ req \in Req
      /\ prom \in [Slot -> Promise] /\ coord \in [Coordinator -> Fields]
  BY <1>0, AskerFacts DEF Asks, Inv, TypeOK
<1>2. /\ c \in Fields /\ c.inFlight = coord[g].inFlight /\ c.stopped = coord[g].stopped
      /\ c.everStopped = coord[g].everStopped /\ c.status = coord[g].status
      /\ c.auto = coord[g].auto
  BY <1>1, GivenFacts
<1>3. queued \in Fields /\ \A h \in Slot : CheckJob(s, c, h) \in Fields
  <2>1. Merge(c.pending, req) \in Req
    BY <1>1, <1>2, Merged DEF Fields
  <2> QED BY <1>2, <2>1 DEF Fields, CheckJob
<1>4. ASSUME NEW d \in Fields, coord' = [coord EXCEPT ![g] = d],
             d.inFlight = c.inFlight, d.stopped = c.stopped, d.status = c.status,
             d.everStopped = c.everStopped, d.auto = c.auto
      PROVE  coord' \in [Coordinator -> Fields] /\ \A h \in Coordinator : SameRun(h)
  BY <1>1, <1>2, <1>4 DEF SameRun
<1>9. Activated(g)' /\ current' = current /\ prom[s].step # "forced" /\ ~Is(s, "job")
  BY <1>1 DEF Asks, LoopSteps, Others, Activated, At, Is
<1>10. j # None => j \in Slot /\ j # s /\ prom[j] \in AllJobs /\ Is(j, "job") /\ prom[j].gen = g
  BY <1>1, <1>2, Kinds DEF Inv, FieldsOK, Is, Fields
<1>5. CASE c.stopped \/ ~CanRun(c, req)
  <2>1. /\ prom' = [prom EXCEPT ![s] = Settled(@, "stopped")]
        /\ coord' = [coord EXCEPT ![g] = c]
    BY <1>1, <1>5 DEF EnqueueRequest
  <2>2. Settled(prom[s], "stopped") \in Calls \cup Checks
    BY <1>1, Settles DEF Outcome
  <2>3. TypeOK' /\ \A h \in Coordinator : SameRun(h)
    BY <1>1, <1>2, <1>4, <2>1, <2>2 DEF Inv, TypeOK, Others, Promise
  <2>4. \A t \in Slot : SameKind(t) /\ (t # s => prom'[t] = prom[t])
    BY <1>1, <2>1 DEF SameKind, Is, Settled, Calls, Checks
  <2>5. req.force => coord'[g].everStopped
    BY <1>1, <1>2, <1>5, <2>3 DEF SameRun, Inv, FieldsOK, CanRun, Req
  <2>6. prom'[s].step = "settled" /\ prom'[s].gen = g /\ prom'[s].kind = prom[s].kind
    BY <1>1, <2>1 DEF Settled, Calls, Checks
  <2>7. SlotOK(s)'
    <3>1. Is(s, "call") => prom'[s].req = req
      BY <1>1, <2>4 DEF Asks, At, Is, SameKind
    <3> QED BY <1>1, <1>9, <2>5, <2>6, <3>1 DEF SlotOK, JobOK, CheckOK, CallOK, Is, Fulfilled
  <2> QED BY <1>1, <1>9, <2>3, <2>4, <2>7, Moved DEF SameSteps, Is
<1>6. CASE ~c.stopped /\ CanRun(c, req) /\ j # None /\ Supersedes(c, req)
  <2>1. /\ prom' = [prom EXCEPT ![s] = Wait(@, "forced", j), ![j].aborted = TRUE]
        /\ coord' = [coord EXCEPT ![g] = queued]
    BY <1>1, <1>6, <1>10 DEF EnqueueRequest, Abort
  <2>2. Wait(prom[s], "forced", j) \in Calls /\ Is(s, "call") /\ prom[s].req = req /\ req.force
    BY <1>1, <1>6, <1>10, Waits DEF Asks, Supersedes, DeferredReq, Req, At, Is, Calls, Checks
  <2>3. [prom[j] EXCEPT !.aborted = TRUE] \in AllJobs /\ ~prom[j].req.force
    BY <1>6, <1>10 DEF AllJobs, Supersedes, ActiveRequest
  <2>4. TypeOK' /\ \A h \in Coordinator : SameRun(h)
    <3>1. queued.inFlight = j /\ queued.stopped = c.stopped /\ queued.status = c.status
          /\ queued.everStopped = c.everStopped /\ queued.auto = c.auto
      BY <1>2 DEF Fields
    <3>2. coord' \in [Coordinator -> Fields] /\ \A h \in Coordinator : SameRun(h)
      BY <1>3, <1>4, <2>1, <3>1
    <3>3. prom' \in [Slot -> Promise]
      BY <1>1, <1>6, <1>10, <2>1, <2>2, <2>3 DEF Promise
    <3> QED BY <3>2, <3>3 DEF Inv, TypeOK, Others
  <2>5. \A t \in Slot : SameKind(t) /\ (t # s => SameSteps(t))
    BY <1>1, <1>6, <1>10, <2>1, <2>2 DEF SameKind, SameSteps, Is, Wait, Calls, AllJobs
  <2>6. \A t \in Slot : t # s /\ t # j => prom'[t] = prom[t]
    BY <1>1, <2>1
  <2>7. prom'[s] = Wait(prom[s], "forced", j) /\ prom'[j].aborted
    BY <1>1, <1>6, <1>10, <2>1 DEF AllJobs
  <2>8. /\ prom'[s].kind = "call" /\ prom'[s].step = "forced" /\ prom'[s].on = j
        /\ prom'[s].req = req /\ prom'[s].gen = g
    BY <1>1, <2>2, <2>7 DEF Wait, Calls, Is
  <2>9. SlotOK(s)'
    <3>1. Is(j, "job")' /\ prom'[j].gen = g
      BY <1>6, <1>10, <2>5 DEF SameKind, Is
    <3> QED BY <1>1, <1>6, <1>9, <1>10, <2>2, <2>8, <3>1 DEF SlotOK, JobOK, CheckOK, CallOK, Is
  <2> QED BY <1>1, <1>9, <2>3, <2>4, <2>5, <2>6, <2>7, <2>8, <2>9, Moved DEF Is, Waiting
<1>7. CASE ~c.stopped /\ CanRun(c, req) /\ j # None /\ ~Supersedes(c, req) /\ req.source = "watcher"
  <2>1. /\ prom' = [prom EXCEPT ![s] = Wait(@, "follow", j)]
        /\ coord' = [coord EXCEPT ![g] = queued]
    BY <1>1, <1>7, <1>10 DEF EnqueueRequest
  <2>2. Wait(prom[s], "follow", j) \in Calls \cup Checks
    BY <1>1, <1>7, <1>10, Waits
  <2>3. TypeOK' /\ \A h \in Coordinator : SameRun(h)
    BY <1>1, <1>3, <1>4, <2>1, <2>2 DEF Inv, TypeOK, Others, Promise, Fields
  <2>4. \A t \in Slot : SameKind(t) /\ (t # s => prom'[t] = prom[t])
    BY <1>1, <2>1 DEF SameKind, Is, Wait, Calls, Checks
  <2>5. prom'[s].kind = prom[s].kind /\ prom'[s].step = "follow" /\ prom'[s].gen = g
    BY <1>1, <2>1 DEF Wait, Calls, Checks
  <2>6. Is(s, "call") => ~prom'[s].req.force
    BY <1>1, <1>7, <2>4 DEF Asks, SameKind, Req, At, Is
  <2>7. SlotOK(s)'
    BY <1>1, <1>9, <2>5, <2>6 DEF SlotOK, JobOK, CheckOK, CallOK, Is, Others
  <2> QED BY <1>1, <1>9, <2>3, <2>4, <2>7, Moved DEF SameSteps, Is
<1>8. CASE ~c.stopped /\ CanRun(c, req) /\ j # None /\ ~Supersedes(c, req) /\ req.source # "watcher"
  <2>1. /\ prom' = [prom EXCEPT ![s] = Wait(@, "adopt", j)]
        /\ coord' = [coord EXCEPT ![g] = CheckJob(s, c, j)]
    BY <1>1, <1>8, <1>10 DEF EnqueueRequest
  <2>2. Wait(prom[s], "adopt", j) \in Calls \cup Checks
    BY <1>1, <1>8, <1>10, Waits
  <2>3. TypeOK' /\ \A h \in Coordinator : SameRun(h)
    <3>1. CheckJob(s, c, j).inFlight = j /\ CheckJob(s, c, j).stopped = c.stopped
          /\ CheckJob(s, c, j).status = c.status /\ CheckJob(s, c, j).everStopped = c.everStopped
          /\ CheckJob(s, c, j).auto = c.auto
      BY <1>2 DEF Fields, CheckJob
    <3>2. coord' \in [Coordinator -> Fields] /\ \A h \in Coordinator : SameRun(h)
      BY <1>3, <1>4, <1>8, <1>10, <2>1, <3>1
    <3>3. prom' \in [Slot -> Promise]
      BY <1>1, <2>1, <2>2 DEF Promise
    <3> QED BY <3>2, <3>3 DEF Inv, TypeOK, Others
  <2>4. \A t \in Slot : SameKind(t) /\ (t # s => prom'[t] = prom[t])
    BY <1>1, <2>1 DEF SameKind, Is, Wait, Calls, Checks
  <2>5. prom'[s].kind = prom[s].kind /\ prom'[s].step = "adopt" /\ prom'[s].on = j /\ prom'[s].gen = g
    BY <1>1, <2>1 DEF Wait, Calls, Checks
  <2>6. Is(s, "call") /\ prom'[s].req.force => prom[j].req.force
    BY <1>1, <1>8, <1>10, <2>4 DEF Asks, SameKind, At, Is, Supersedes, ActiveRequest
  <2>7. SlotOK(s)'
    <3>1. Is(j, "job")' /\ prom'[j] = prom[j]
      BY <1>8, <1>10, <2>4 DEF Is
    <3> QED BY <1>1, <1>8, <1>9, <1>10, <2>5, <2>6, <3>1 DEF SlotOK, JobOK, CheckOK, CallOK, Is
  <2> QED BY <1>1, <1>9, <2>3, <2>4, <2>7, Moved DEF SameSteps, Is
<1> QED BY <1>5, <1>6, <1>7, <1>8

\* A job begins for an active coordinator that has none: startRequest.  What else changes
\* of it, and of the promise s that will follow the job, is left open.
LEMMA RunStarted ==
  ASSUME Inv, Others, NEW s, NEW req, NEW c, Asks(s, req), Given(s, c), StartRequest(s, c, req),
         ~c.stopped, c.inFlight = None
  PROVE  Inv'
<1>0. PICK g \in Coordinator : g = prom[s].gen
  BY AskerFacts
<1>1. /\ s \in Slot /\ prom[s] \in Calls \cup Checks /\ prom[s].gen = g
      /\ prom[s].kind \in {"call", "check"} /\ g <= current /\ req \in Req
      /\ prom \in [Slot -> Promise] /\ coord \in [Coordinator -> Fields] /\ current \in Coordinator
      /\ prom[s].step # "forced"
  BY <1>0, AskerFacts DEF Asks, LoopSteps, Inv, TypeOK, At
<1>2. /\ c \in Fields /\ c.inFlight = coord[g].inFlight /\ c.stopped = coord[g].stopped
      /\ c.everStopped = coord[g].everStopped /\ c.status = coord[g].status
      /\ c.auto = coord[g].auto
  BY <1>1, GivenFacts
<1>3. PICK j \in Slot : j = Lowest(Unused) /\ Is(j, "free") /\ j # s
  <2>1. Unused # {} /\ Unused \in SUBSET Slot
    BY DEF StartRequest, Unused
  <2> QED BY <1>1, <2>1, LowestIn DEF Unused, Is
<1>4. PICK d : d = CheckJob(s, [SetState(c, IF FirstStep(req) = "fresh" THEN "checking"
                                            ELSE "indexing") EXCEPT !.inFlight = j], j)
  OBVIOUS
<1>5. /\ d \in Fields /\ d.inFlight = j /\ ~d.stopped /\ d.everStopped = c.everStopped
      /\ d.auto = c.auto
  <2>1. PICK e : e = SetState(c, IF FirstStep(req) = "fresh" THEN "checking" ELSE "indexing")
    OBVIOUS
  <2>2. /\ e \in Fields /\ e.stopped = c.stopped /\ e.everStopped = c.everStopped
        /\ e.auto = c.auto
    BY <1>2, <2>1 DEF SetState, Fields, State
  <2>3. PICK f : f = [e EXCEPT !.inFlight = j]
    OBVIOUS
  <2>4. /\ f \in Fields /\ f.inFlight = j /\ f.stopped = c.stopped
        /\ f.everStopped = c.everStopped /\ f.auto = c.auto
    BY <1>3, <2>2, <2>3 DEF Fields
  <2>5. d = CheckJob(s, f, j)
    BY <1>4, <2>1, <2>3
  <2> QED BY <1>3, <2>4, <2>5 DEF CheckJob, Fields
<1>6. /\ prom' = [prom EXCEPT ![j] = Job(g, req), ![s] = Wait(@, "adopt", j)]
      /\ coord' = [coord EXCEPT ![g] = d]
  BY <1>1, <1>3, <1>4 DEF StartRequest
<1>7. Job(g, req) \in AllJobs /\ Wait(prom[s], "adopt", j) \in Calls \cup Checks
  BY <1>1, <1>3, NewPromises, Waits
<1>8. TypeOK'
  <2>1. prom' \in [Slot -> Promise]
    BY <1>1, <1>6, <1>7 DEF Promise
  <2> QED BY <1>1, <1>5, <1>6, <2>1 DEF Inv, TypeOK, Others
<1>9. prom'[j] = Job(g, req) /\ prom'[s] = Wait(prom[s], "adopt", j)
      /\ \A t \in Slot : t # s /\ t # j => prom'[t] = prom[t]
  BY <1>1, <1>3, <1>6
<1>10. coord'[g] = d /\ \A h \in Coordinator : h # g => coord'[h] = coord[h]
  BY <1>1, <1>6
<1>11. g = current /\ Activated(g)' /\ current' = current
  BY <1>1, <1>2 DEF Asks, Others, Activated, Inv, FieldsOK, Coordinator
<1>12. /\ prom'[s].kind = prom[s].kind /\ prom'[s].gen = g /\ prom'[s].step = "adopt"
       /\ prom'[s].on = j /\ (Is(s, "call") => prom'[s].req = prom[s].req /\ prom[s].req = req)
  BY <1>1, <1>9 DEF Wait, Calls, Checks, Asks, At, Is
<1>13. /\ prom'[j].kind = "job" /\ prom'[j].gen = g /\ prom'[j].req = req
       /\ ~prom'[j].aborted /\ prom'[j].step = FirstStep(req)
  BY <1>9 DEF Job
<1>14. \A t \in Slot : SlotOK(t)'
  <2> SUFFICES ASSUME NEW t \in Slot PROVE SlotOK(t)'
    OBVIOUS
  <2>1. CASE t = j
    BY <1>1, <1>3, <1>5, <1>10, <1>11, <1>13, <2>1, NewPromises
       DEF SlotOK, JobOK, CheckOK, CallOK, Is, ForcedJob
  <2>2. CASE t = s
    BY <1>1, <1>3, <1>11, <1>12, <1>13, <2>2 DEF SlotOK, JobOK, CheckOK, CallOK, Is, None, Slot
  <2>3. CASE t # s /\ t # j
    <3>1. SlotOK(t) /\ prom'[t] = prom[t] /\ (~Is(t, "free") => prom[t].gen \in Coordinator)
      BY <1>1, <1>9, <2>3, Kinds DEF Inv, Is, Calls, Checks, AllJobs
    <3>2. JobOK(t)'
      BY <1>2, <1>10, <2>3, <3>1 DEF SlotOK, JobOK, Is, Activated, Others, ForcedJob, Fulfilled,
         None, Slot
    <3>3. CheckOK(t)'
      BY <3>1 DEF SlotOK, CheckOK, Is, Activated, Others
    <3>4. CallOK(t)'
      <4> SUFFICES ASSUME Is(t, "call") PROVE CallOK(t)'
        BY <3>1 DEF CallOK, Is
      <4>1. prom[t] \in Calls
        BY <1>1, Kinds DEF Is
      <4>2. \A n \in Slot : Is(n, "job") => prom'[n] = prom[n]
        BY <1>1, <1>3, <1>9 DEF Is
      <4>3. coord'[prom[t].gen].everStopped = coord[prom[t].gen].everStopped
        BY <1>2, <1>5, <1>10, <4>1 DEF Calls
      <4> QED BY <3>1, <4>1, <4>2, <4>3 DEF SlotOK, CallOK, Is, Fulfilled, Calls, None
    <3> QED BY <1>11, <3>1, <3>2, <3>3, <3>4 DEF SlotOK, Is
  <2> QED BY <2>1, <2>2, <2>3
<1>15. \A h \in Coordinator : FieldsOK(h)' /\ ClaimOK(h)'
  <2> SUFFICES ASSUME NEW h \in Coordinator PROVE FieldsOK(h)' /\ ClaimOK(h)'
    OBVIOUS
  <2>1. CASE h = g
    <3>1. FieldsOK(h)'
      BY <1>3, <1>5, <1>10, <1>11, <1>13, <2>1 DEF FieldsOK, Is, Coordinator
    <3>2. ClaimOK(h)'
      <4>1. coord'[h].inFlight = j /\ j # None /\ coord'[h].auto = coord[h].auto
        BY <1>2, <1>3, <1>5, <1>10, <2>1 DEF None, Slot
      <4>2. prom'[j].step # "settled"
        BY <1>1, <1>13, NewPromises
      <4>3. world.autos = {TRUE} => coord[h].auto
        BY DEF ClaimOK, Inv
      <4> QED BY <1>13, <4>1, <4>2, <4>3 DEF ClaimOK, Others
    <3> QED BY <3>1, <3>2
  <2>2. CASE h # g
    <3>1. coord'[h] = coord[h] /\ FieldsOK(h) /\ ClaimOK(h) /\ coord[h] \in Fields
      BY <1>1, <1>10, <2>2 DEF Inv
    <3>2. coord[h].inFlight # None =>
            /\ coord[h].inFlight \in Slot
            /\ prom'[coord[h].inFlight] = prom[coord[h].inFlight]
      BY <1>1, <1>3, <1>9, <3>1 DEF FieldsOK, Is, Fields
    <3>3. \A t \in Slot : Waiting(t, "forced", coord[h].inFlight) => prom'[t] = prom[t]
      BY <1>1, <1>3, <1>9 DEF Waiting, Is
    <3>4. FieldsOK(h)'
      BY <3>1, <3>2 DEF FieldsOK, Is, Others
    <3>5. ClaimOK(h)'
      BY <3>1, <3>2, <3>3 DEF ClaimOK, Waiting, Others
    <3> QED BY <3>4, <3>5
  <2> QED BY <2>1, <2>2
<1> QED BY <1>8, <1>14, <1>15 DEF Inv

\* enqueueRequest keeps the invariant.
LEMMA Requested ==
  ASSUME Inv, Others, NEW s, NEW req, NEW c, Asks(s, req), Given(s, c), EnqueueRequest(s, c, req)
  PROVE  Inv'
<1>1. CASE ~c.stopped /\ CanRun(c, req) /\ c.inFlight = None
  <2>1. StartRequest(s, c, req)
    BY <1>1 DEF EnqueueRequest
  <2> QED BY <1>1, <2>1, RunStarted
<1>2. CASE ~(~c.stopped /\ CanRun(c, req) /\ c.inFlight = None)
  BY <1>2, RequestParked
<1> QED BY <1>1, <1>2

\* A request that enters is enqueued, or deferred behind the battery check.
LEMMA Entered == ASSUME Inv, NEW s \in Slot, Enter(s), UNCHANGED world PROVE Inv'
<1>0. PICK g \in Coordinator : g = prom[s].gen
  BY Kinds DEF Enter, At, Is, Inv, TypeOK, Calls
<1>1. PICK c : c = coord[g]
  OBVIOUS
<1>2. PICK req : req = prom[s].req
  OBVIOUS
<1>3. /\ prom[s] \in Calls /\ Is(s, "call") /\ prom[s].step = "enter" /\ req \in Req
      /\ prom \in [Slot -> Promise] /\ coord \in [Coordinator -> Fields] /\ c \in Fields
      /\ g <= current /\ Activated(g) /\ Others
  BY <1>0, <1>1, <1>2, Kinds DEF Enter, At, Is, Inv, TypeOK, Calls, SlotOK, Others
<1>4. CASE EnqueueRequest(s, c, req)
  <2>1. Asks(s, req)
    BY <1>0, <1>2, <1>3 DEF Asks, At, Is
  <2>2. c = [c EXCEPT !.deferred = c.deferred] /\ c.deferred \in DeferredReq \cup {NoRequest}
    BY <1>3 DEF Fields
  <2>3. Given(s, c)
    BY <1>0, <1>1, <2>2 DEF Given
  <2> QED BY <1>3, <1>4, <2>1, <2>3, Requested
<1>5. CASE ShouldDefer(c, req) /\ Enter(s) /\ ~EnqueueRequest(s, c, req)
  <2>1. req \in DeferredReq /\ ~req.force
    BY <1>3, <1>5 DEF ShouldDefer, DeferredReq, Req
  <2>2. PICK d : d = [c EXCEPT !.deferred = Merge(@, req)]
    OBVIOUS
  <2>3. d \in Fields /\ d.inFlight = c.inFlight /\ d.stopped = c.stopped /\ d.status = c.status
        /\ d.everStopped = c.everStopped /\ d.auto = c.auto
    <3>1. Merge(c.deferred, req) \in DeferredReq
      BY <1>3, <2>1, Merged DEF Fields, DeferredReq
    <3> QED BY <1>3, <2>2, <3>1 DEF Fields
  <2>4. CASE c.check # None
    <3>1. /\ prom' = [prom EXCEPT ![s] = Wait(@, "adopt", c.check)]
          /\ coord' = [coord EXCEPT ![g] = d]
      BY <1>0, <1>1, <1>2, <1>5, <2>2, <2>4 DEF Enter
    <3>2. Wait(prom[s], "adopt", c.check) \in Calls
      BY <1>3, <2>4, Waits DEF Fields
    <3>3. TypeOK' /\ \A h \in Coordinator : SameRun(h)
      BY <1>1, <1>3, <2>3, <3>1, <3>2 DEF Inv, TypeOK, Others, Promise, SameRun
    <3>4. /\ \A t \in Slot : t # s => prom'[t] = prom[t]
          /\ prom'[s].kind = "call" /\ prom'[s].step = "adopt" /\ prom'[s].gen = g
          /\ prom'[s].req = req
      BY <1>0, <1>2, <1>3, <3>1 DEF Wait, Calls, Is
    <3>5. SlotOK(s)'
      BY <1>3, <2>1, <3>4 DEF SlotOK, JobOK, CheckOK, CallOK, Is, Others
    <3> QED BY <1>3, <3>3, <3>4, <3>5, Moved DEF SameKind, SameSteps, Is
  <2>5. CASE c.check = None
    <3>1. PICK b \in Slot : b = Lowest(Unused) /\ Is(b, "free") /\ b # s
      <4>1. Unused # {} /\ Unused \in SUBSET Slot
        BY <1>0, <1>1, <1>2, <1>5, <2>5 DEF Enter, Unused
      <4> QED BY <1>3, <4>1, LowestIn DEF Unused, Is
    <3>2. PICK q : q = IF c.stopped THEN Settled(Check(g), "stopped") ELSE Check(g)
      OBVIOUS
    <3>3. PICK e : e = [d EXCEPT !.check = b]
      OBVIOUS
    <3>4. /\ prom' = [prom EXCEPT ![s] = Wait(@, "adopt", b), ![b] = q]
          /\ coord' = [coord EXCEPT ![g] = e]
      BY <1>0, <1>1, <1>2, <1>5, <2>2, <2>5, <3>1, <3>2, <3>3 DEF Enter
    <3>5. e \in Fields /\ e.inFlight = c.inFlight /\ e.stopped = c.stopped /\ e.status = c.status
          /\ e.everStopped = c.everStopped /\ e.auto = c.auto
      BY <2>3, <3>1, <3>3 DEF Fields
    <3>6. q \in Checks /\ q.gen = g
      BY <1>3, <3>2, NewPromises, Settles DEF Outcome, Check, Settled
    <3>7. Wait(prom[s], "adopt", b) \in Calls
      BY <1>3, <3>1, Waits
    <3>8. TypeOK' /\ \A h \in Coordinator : SameRun(h)
      BY <1>1, <1>3, <3>1, <3>4, <3>5, <3>6, <3>7 DEF Inv, TypeOK, Others, Promise, SameRun
    <3>9. /\ \A t \in Slot : t # s /\ t # b => prom'[t] = prom[t]
          /\ prom'[s].kind = "call" /\ prom'[s].step = "adopt" /\ prom'[s].gen = g
          /\ prom'[s].req = req /\ prom'[b] = q
      BY <1>0, <1>2, <1>3, <3>1, <3>4 DEF Wait, Calls, Is
    <3>10. SlotOK(s)' /\ SlotOK(b)'
      BY <1>3, <2>1, <3>6, <3>9 DEF SlotOK, JobOK, CheckOK, CallOK, Is, Others, Activated, Checks
    <3>11. PICK S \in SUBSET Slot : S = {s, b}
      BY <3>1
    <3>12. \A t \in S : ~Is(t, "job") /\ SlotOK(t)' /\ \A j \in Slot : ~Waiting(t, "forced", j)
      BY <1>3, <3>1, <3>10, <3>11 DEF Is, Waiting
    <3>13. \A t \in Slot \ S : SameKind(t) /\ SameSteps(t)
      BY <3>9, <3>11 DEF SameKind, SameSteps
    <3>14. \A t \in Slot : Is(t, "job") => prom'[t].aborted = prom[t].aborted
      BY <1>3, <3>1, <3>9 DEF Is
    <3> QED BY <1>3, <3>8, <3>12, <3>13, <3>14, Framed
  <2> QED BY <2>4, <2>5
<1>6. ShouldDefer(c, req) \/ EnqueueRequest(s, c, req)
  BY <1>0, <1>1, <1>2 DEF Enter
<1> QED BY <1>4, <1>5, <1>6

\* A battery check takes its next step.
LEMMA CheckMoved ==
  ASSUME Inv, Others, NEW b \in Slot, Is(b, "check"), NEW q \in Checks, q.gen = prom[b].gen,
         prom' = [prom EXCEPT ![b] = q], UNCHANGED coord
  PROVE  Inv'
<1>0. PICK g \in Coordinator : g = prom[b].gen
  BY Kinds DEF Is, Inv, TypeOK, Checks
<1>1. /\ prom[b] \in Checks /\ prom \in [Slot -> Promise] /\ g <= current /\ Activated(g)
  BY <1>0, Kinds DEF Is, Inv, TypeOK, SlotOK, CheckOK
<1>2. TypeOK' /\ \A h \in Coordinator : SameRun(h)
  BY <1>1 DEF Inv, TypeOK, Others, Promise, SameRun
<1>3. prom'[b] = q /\ \A t \in Slot : t # b => prom'[t] = prom[t]
  BY <1>1
<1>4. SlotOK(b)'
  BY <1>0, <1>1, <1>3 DEF SlotOK, JobOK, CheckOK, CallOK, Is, Others, Activated, Checks
<1> QED BY <1>1, <1>2, <1>3, <1>4, Moved DEF SameKind, SameSteps, Is, Checks

\* waitForACPower leaves its loop.
LEMMA CheckLeft ==
  ASSUME Inv, Others, NEW b \in Slot, Is(b, "check"), prom[b].step \in LoopSteps,
         LeaveCheck(b)
  PROVE  Inv'
<1>0. PICK g \in Coordinator : g = prom[b].gen
  BY Kinds DEF Is, Inv, TypeOK, Checks
<1>1. PICK c : c = coord[g]
  OBVIOUS
<1>2. prom[b] \in Checks /\ c \in Fields /\ Activated(g)
  BY <1>0, <1>1, Kinds DEF Is, Inv, TypeOK, SlotOK, CheckOK
<1>3. CASE c.deferred = NoRequest
  <2>1. PICK q : q = Settled(prom[b], "stopped")
    OBVIOUS
  <2>2. q \in Checks /\ q.gen = prom[b].gen
    <3>1. "stopped" \in Outcome
      BY DEF Outcome
    <3> QED BY <1>2, <2>1, <3>1, Settles DEF Settled, Checks
  <2>3. prom' = [prom EXCEPT ![b] = q] /\ UNCHANGED coord
    BY <1>0, <1>1, <1>3, <2>1 DEF LeaveCheck
  <2> QED BY <2>2, <2>3, CheckMoved
<1>4. CASE c.deferred # NoRequest
  <2>1. PICK req, d : req = c.deferred /\ d = [c EXCEPT !.deferred = NoRequest]
    OBVIOUS
  <2>2. req \in DeferredReq /\ req \in Req
    BY <1>2, <1>4, <2>1 DEF Fields, DeferredReq
  <2>3. EnqueueRequest(b, d, req)
    BY <1>0, <1>1, <1>4, <2>1 DEF LeaveCheck
  <2>4. Asks(b, req) /\ Given(b, d)
    BY <1>0, <1>1, <1>2, <2>1, <2>2 DEF Asks, Given, Is
  <2> QED BY <2>3, <2>4, Requested
<1> QED BY <1>3, <1>4

\* The steps of waitForACPower keep the invariant.
LEMMA PowerAnswered ==
  ASSUME Inv, NEW b \in Slot, PowerRead(b) \/ AskEnds(b) \/ BatteryTimer(b) \/ Woken(b), UNCHANGED world
  PROVE  Inv'
<1>0. Others /\ Is(b, "check") /\ prom[b].step \in LoopSteps
  BY DEF PowerRead, AskEnds, BatteryTimer, Woken, At, Is, Others, LoopSteps, NotPaused
<1>1. prom[b] \in Checks
  BY <1>0, Kinds DEF Is, Inv, TypeOK
<1>2. CASE LeaveCheck(b)
  BY <1>0, <1>2, CheckLeft
<1>3. CASE ~LeaveCheck(b)
  <2>1. PICK q \in {[prom[b] EXCEPT !.step = "sleep"], [prom[b] EXCEPT !.step = "ask"],
                    [prom[b] EXCEPT !.step = "onBattery"], [prom[b] EXCEPT !.step = "onAC"],
                    [prom[b] EXCEPT !.step = "unread"], Settled(prom[b], "stopped")} :
          prom' = [prom EXCEPT ![b] = q] /\ UNCHANGED coord
    BY <1>3 DEF PowerRead, AskEnds, BatteryTimer, Woken, RecheckPower
  <2>2. q \in Checks /\ q.gen = prom[b].gen
    <3>1. "stopped" \in Outcome
      BY DEF Outcome
    <3>2. /\ Settled(prom[b], "stopped") \in Checks
          /\ Settled(prom[b], "stopped").gen = prom[b].gen
      <4>1. Settled(prom[b], "stopped") \in Checks
        BY <1>1, <3>1, Settles
      <4> QED BY <1>1, <4>1 DEF Settled, Checks
    <3>3. \A step \in {"sleep", "ask", "onBattery", "onAC", "unread"} :
            /\ [prom[b] EXCEPT !.step = step] \in Checks
            /\ [prom[b] EXCEPT !.step = step].gen = prom[b].gen
      BY <1>1 DEF Checks
    <3> QED BY <2>1, <3>2, <3>3
  <2> QED BY <1>0, <2>1, <2>2, CheckMoved
<1> QED BY <1>2, <1>3

-----------------------------------------------------------------------------
(* Jobs.                                                                   *)

\* A job takes its next step, or settles, and sets the status of its coordinator.  The
\* status claims a run only for a job that goes on, or stays that of an aborted job.
LEMMA JobMoved ==
  ASSUME Inv, Others, NEW j \in Slot, Is(j, "job"), NEW q \in AllJobs,
         q.gen = prom[j].gen, q.req = prom[j].req, q.aborted = prom[j].aborted,
         q.req.force =>
           /\ q.step \in {"index", "delay", "settled"}
           /\ q.step = "settled" => q.out \in {"rebuilt", "failed"} \/ coord[q.gen].everStopped,
         NEW state \in State, coord[q.gen].stopped => state = "stopped",
         state \in Claims => \/ ~q.aborted /\ q.step # "settled"
                             \/ q.aborted /\ state = coord[q.gen].status
                             \/ world.autos # {TRUE},
         prom' = [prom EXCEPT ![j] = q],
         coord' = [coord EXCEPT ![q.gen] = [@ EXCEPT !.status = state]]
  PROVE  Inv'
<1>0. PICK g \in Coordinator : g = q.gen
  BY DEF AllJobs
<1>1. /\ prom[j] \in AllJobs /\ prom \in [Slot -> Promise] /\ coord \in [Coordinator -> Fields]
      /\ g <= current /\ Activated(g)' /\ coord[g].inFlight = j /\ coord[g] \in Fields
  BY <1>0, Kinds DEF Is, Inv, TypeOK, SlotOK, JobOK, Others, Activated
<1>2. PICK d : d = [coord[g] EXCEPT !.status = state]
  OBVIOUS
<1>3. /\ d \in Fields /\ d.inFlight = coord[g].inFlight /\ d.stopped = coord[g].stopped
      /\ d.everStopped = coord[g].everStopped /\ d.auto = coord[g].auto /\ d.status = state
  BY <1>1, <1>2 DEF Fields
<1>4. coord' = [coord EXCEPT ![g] = d]
  BY <1>0, <1>2
<1>5. coord'[g] = d /\ \A h \in Coordinator : h # g => coord'[h] = coord[h]
  BY <1>1, <1>4
<1>6. prom'[j] = q /\ \A t \in Slot : t # j => prom'[t] = prom[t]
  BY <1>1
<1>7. TypeOK'
  <2>1. prom' \in [Slot -> Promise]
    BY <1>1 DEF Promise
  <2>2. coord' \in [Coordinator -> Fields]
    BY <1>1, <1>3, <1>4
  <2> QED BY <2>1, <2>2 DEF Inv, TypeOK, Others
<1>8. ASSUME NEW t \in Slot PROVE SlotOK(t)'
  <2>1. CASE t = j
    <3>1. prom[j].req.force => ForcedJob(prom[j])
      BY DEF Inv, SlotOK, JobOK
    <3>2. coord[g].stopped => q.aborted
      BY <1>0 DEF Inv, SlotOK, JobOK
    <3> QED BY <1>0, <1>1, <1>3, <1>5, <1>6, <2>1, <3>1, <3>2
          DEF SlotOK, JobOK, CheckOK, CallOK, Is, ForcedJob, Fulfilled, Others, AllJobs
  <2>2. CASE t # j
    <3>1. SlotOK(t) /\ prom'[t] = prom[t] /\ (~Is(t, "free") => prom[t].gen \in Coordinator)
      BY <1>1, <1>6, <2>2, Kinds DEF Inv, Is, Calls, Checks, AllJobs
    <3>2. \A h \in Coordinator : /\ coord'[h].inFlight = coord[h].inFlight
                                 /\ coord'[h].stopped = coord[h].stopped
                                 /\ coord'[h].everStopped = coord[h].everStopped
      BY <1>3, <1>5
    <3>3. JobOK(t)'
      BY <3>1, <3>2 DEF SlotOK, JobOK, Is, Activated, Others, ForcedJob, Fulfilled
    <3>4. CheckOK(t)'
      BY <3>1 DEF SlotOK, CheckOK, Is, Activated, Others
    <3>5. CallOK(t)'
      <4> SUFFICES ASSUME Is(t, "call") PROVE CallOK(t)'
        BY <3>1 DEF CallOK, Is
      <4>1. prom[t] \in Calls
        BY <1>1, Kinds DEF Is
      <4>2. \A n \in Slot : /\ Is(n, "job") => prom'[n].kind = "job"
                            /\ Is(n, "job") => prom'[n].gen = prom[n].gen
                            /\ Is(n, "job") => prom'[n].req = prom[n].req
        BY <1>6 DEF Is, AllJobs
      <4> QED BY <3>1, <3>2, <4>1, <4>2 DEF SlotOK, CallOK, Is, Fulfilled, Calls, None
    <3> QED BY <3>1, <3>3, <3>4, <3>5 DEF SlotOK, Is, Others
  <2> QED BY <2>1, <2>2
<1>9. ASSUME NEW h \in Coordinator PROVE FieldsOK(h)'
  <2>1. FieldsOK(h) /\ coord[h] \in Fields
    BY <1>1 DEF Inv
  <2>2. coord[h].inFlight # None =>
          /\ prom'[coord[h].inFlight].kind = "job"
          /\ prom'[coord[h].inFlight].gen = h
    BY <1>6, <2>1 DEF FieldsOK, Is, Fields, AllJobs
  <2>3. CASE h = g
    BY <1>0, <1>3, <1>5, <2>1, <2>2, <2>3 DEF FieldsOK, Is, Others
  <2>4. CASE h # g
    BY <1>5, <2>1, <2>2, <2>4 DEF FieldsOK, Is, Others
  <2> QED BY <2>3, <2>4
<1>10. ASSUME NEW h \in Coordinator PROVE ClaimOK(h)'
  <2>1. ClaimOK(h) /\ FieldsOK(h)
    BY DEF Inv
  <2>2. \A t, n \in Slot : Waiting(t, "forced", n) => Waiting(t, "forced", n)'
    BY <1>6 DEF Waiting, Is
  <2>3. CASE h = g
    BY <1>0, <1>1, <1>3, <1>5, <1>6, <2>1, <2>2, <2>3 DEF ClaimOK, Others, None, Slot
  <2>4. CASE h # g
    <3>1. coord[h].inFlight # None => prom'[coord[h].inFlight] = prom[coord[h].inFlight]
                                      /\ coord[h].inFlight \in Slot
      BY <1>0, <1>1, <1>6, <2>1, <2>4 DEF FieldsOK, Fields
    <3> QED BY <1>5, <2>1, <2>2, <2>4, <3>1 DEF ClaimOK, Others
  <2> QED BY <2>3, <2>4
<1> QED BY <1>7, <1>8, <1>9, <1>10 DEF Inv

\* A job that ends, whatever has become of it.
LEMMA JobEnded ==
  ASSUME Inv, Others, NEW j \in Slot, Is(j, "job"), NEW out \in Outcome, NEW state \in State,
         prom[j].req.force => out \in {"rebuilt", "failed"} \/ coord[prom[j].gen].everStopped,
         coord[prom[j].gen].stopped => state = "stopped",
         state \in Claims => \/ prom[j].aborted /\ state = coord[prom[j].gen].status
                             \/ world.autos # {TRUE},
         NEW c, c = [coord[prom[j].gen] EXCEPT !.status = state], Ends(j, out, c)
  PROVE  Inv'
<1>1. prom[j] \in AllJobs
  BY Kinds DEF Is, Inv, TypeOK
<1>2. PICK q : q = Settled(prom[j], out)
  OBVIOUS
<1>3. /\ q \in AllJobs /\ q.gen = prom[j].gen /\ q.req = prom[j].req
      /\ q.aborted = prom[j].aborted /\ q.step = "settled" /\ q.out = out
  <2>1. q \in AllJobs
    BY <1>1, <1>2, Settles
  <2> QED BY <1>1, <1>2, <2>1 DEF Settled, AllJobs
<1>4. prom' = [prom EXCEPT ![j] = q] /\ coord' = [coord EXCEPT ![q.gen] = [@ EXCEPT !.status = state]]
  BY <1>2, <1>3 DEF Ends
<1> QED BY <1>3, <1>4, JobMoved

\* What setState leaves of a coordinator's status.
LEMMA StateKept ==
  ASSUME Inv, NEW g \in Coordinator, NEW state \in State
  PROVE  \E s \in State :
           /\ SetState(coord[g], state) = [coord[g] EXCEPT !.status = s]
           /\ coord[g].stopped => s = "stopped"
           /\ ~coord[g].stopped => s = state
<1>1. PICK c : c = coord[g]
  OBVIOUS
<1>2. c \in Fields /\ (c.stopped => c.status = "stopped")
  BY <1>1 DEF Inv, TypeOK, FieldsOK
<1>3. c = [c EXCEPT !.status = c.status] /\ c.status \in State
  BY <1>2 DEF Fields
<1>4. CASE c.stopped /\ state # "stopped"
  BY <1>1, <1>2, <1>3, <1>4 DEF SetState
<1>5. CASE ~(c.stopped /\ state # "stopped")
  BY <1>1, <1>5 DEF SetState
<1> QED BY <1>4, <1>5

\* A cancelled job: its status stays, unless the coordinator or automatic indexing is off.
LEMMA JobCancelled ==
  ASSUME Inv, Others, NEW j \in Slot, Is(j, "job"), prom[j].aborted,
         Cancelled(j) \/ Ends(j, "stopped", IF coord[prom[j].gen].stopped
                                           THEN SetState(coord[prom[j].gen], "stopped")
                                           ELSE coord[prom[j].gen])
  PROVE  Inv'
<1>1. prom[j] \in AllJobs
  BY Kinds DEF Is, Inv, TypeOK
<1>2. PICK g \in Coordinator : g = prom[j].gen
  BY <1>1 DEF AllJobs
<1>3. PICK c : c = coord[g]
  OBVIOUS
<1>4. c \in Fields /\ (c.stopped => c.status = "stopped") /\ (world.autos = {TRUE} => c.auto)
  BY <1>3 DEF Inv, TypeOK, FieldsOK, ClaimOK
<1>5. prom[j].req.force => c.everStopped
  BY <1>2, <1>3 DEF Inv, SlotOK, JobOK, ForcedJob
<1>6. PICK state \in State :
        /\ Ends(j, "stopped", [c EXCEPT !.status = state])
        /\ c.stopped => state = "stopped"
        /\ state = c.status \/ state \in {"stopped", "idle"}
  <2>1. c = [c EXCEPT !.status = c.status] /\ c.status \in State
    BY <1>4 DEF Fields
  <2>2. CASE c.stopped
    <3>1. Ends(j, "stopped", SetState(c, "stopped"))
      BY <1>2, <1>3, <2>2 DEF Cancelled
    <3>2. SetState(c, "stopped") = [c EXCEPT !.status = "stopped"]
      BY DEF SetState
    <3> QED BY <3>1, <3>2 DEF State
  <2>3. CASE ~c.stopped
    <3>1. Ends(j, "stopped", SetState(c, "idle")) \/ Ends(j, "stopped", c)
      BY <1>2, <1>3, <2>3 DEF Cancelled
    <3>2. SetState(c, "idle") = [c EXCEPT !.status = "idle"]
      BY <2>3 DEF SetState
    <3> QED BY <2>1, <2>3, <3>1, <3>2 DEF State
  <2> QED BY <2>2, <2>3
<1>7. "stopped" \in Outcome
  BY DEF Outcome
<1>8. state \in Claims => prom[j].aborted /\ state = c.status
  BY <1>6 DEF Claims
<1> QED BY <1>2, <1>3, <1>5, <1>6, <1>7, <1>8, JobEnded

\* A job that is not aborted goes on with another step, under a status that says so.
LEMMA JobGoesOn ==
  ASSUME Inv, Others, NEW j \in Slot, Is(j, "job"), ~prom[j].aborted,
         NEW step \in {"fresh", "index", "delay"}, step = "fresh" => ~prom[j].req.force,
         NEW retry \in Nat, NEW state \in Claims,
         NEW q, q = [prom[j] EXCEPT !.step = step, !.retry = retry], prom' = [prom EXCEPT ![j] = q],
         coord' = [coord EXCEPT ![prom[j].gen] = SetState(@, state)]
  PROVE  Inv'
<1>1. prom[j] \in AllJobs
  BY Kinds DEF Is, Inv, TypeOK
<1>2. PICK g \in Coordinator : g = prom[j].gen
  BY <1>1 DEF AllJobs
<1>3. state \in State
  BY DEF Claims, State
<1>4. PICK s \in State : SetState(coord[g], state) = [coord[g] EXCEPT !.status = s]
                         /\ (coord[g].stopped => s = "stopped")
  BY <1>3, StateKept
<1>6. /\ q \in AllJobs /\ q.gen = g /\ q.req = prom[j].req /\ q.aborted = prom[j].aborted
      /\ q.step = step
  BY <1>1, <1>2 DEF AllJobs
<1>7. coord' = [coord EXCEPT ![q.gen] = [@ EXCEPT !.status = s]]
  BY <1>2, <1>4, <1>6
<1>8. /\ q.req.force => q.step \in {"index", "delay", "settled"}
      /\ q.step # "settled" /\ ~q.aborted
      /\ q.gen = prom[j].gen /\ (coord[q.gen].stopped => s = "stopped")
  BY <1>2, <1>4, <1>6
<1>9. q.req.force =>
        /\ q.step \in {"index", "delay", "settled"}
        /\ q.step = "settled" => q.out \in {"rebuilt", "failed"} \/ coord[q.gen].everStopped
  BY <1>8
<1>10. s \in Claims => \/ ~q.aborted /\ q.step # "settled"
                       \/ q.aborted /\ s = coord[q.gen].status
                       \/ world.autos # {TRUE}
  BY <1>8
<1> QED BY <1>6, <1>7, <1>8, <1>9, <1>10, JobMoved

\* A job that is not aborted ends, and says how.
LEMMA JobReports ==
  ASSUME Inv, Others, NEW j \in Slot, Is(j, "job"), NEW out \in Outcome,
         prom[j].req.force => out \in {"rebuilt", "failed"},
         NEW state \in {"ready", "failed"},
         Ends(j, out, SetState(coord[prom[j].gen], state))
  PROVE  Inv'
<1>1. PICK g \in Coordinator : g = prom[j].gen
  BY Kinds DEF Is, Inv, TypeOK, AllJobs
<1>2. state \in State
  BY DEF State
<1>3. PICK s \in State : /\ SetState(coord[g], state) = [coord[g] EXCEPT !.status = s]
                         /\ coord[g].stopped => s = "stopped"
                         /\ ~coord[g].stopped => s = state
  BY <1>2, StateKept
<1>4. s \notin Claims
  BY <1>3 DEF Claims
<1> QED BY <1>1, <1>3, <1>4, JobEnded

\* The catch clause.
LEMMA JobCaught ==
  ASSUME Inv, Others, NEW j \in Slot, Is(j, "job"), NEW error, Caught(j, error)
  PROVE  Inv'
<1>1. prom[j] \in AllJobs
  BY Kinds DEF Is, Inv, TypeOK
<1>2. CASE prom[j].aborted
  BY <1>2, JobCancelled DEF Caught
<1>3. CASE ~prom[j].aborted /\ error = "busy" /\ prom[j].retry < RetriesOf(prom[j].req)
  <2>1. PICK retry \in Nat : retry = prom[j].retry + 1
    BY <1>1 DEF AllJobs
  <2>2. PICK q : q = [prom[j] EXCEPT !.step = "delay", !.retry = retry]
    OBVIOUS
  <2>4. prom' = [prom EXCEPT ![j] = q]
    BY <1>1, <1>3, <2>1, <2>2 DEF Caught, AllJobs, Inv, TypeOK
  <2>3. coord' = [coord EXCEPT ![prom[j].gen] = SetState(@, "busy-retrying")]
    BY <1>3 DEF Caught
  <2> QED BY <1>3, <2>2, <2>3, <2>4, JobGoesOn DEF Claims
<1>4. CASE ~prom[j].aborted /\ ~(error = "busy" /\ prom[j].retry < RetriesOf(prom[j].req))
  <2>1. Ends(j, "failed", SetState(coord[prom[j].gen], "failed"))
    BY <1>4 DEF Caught
  <2>2. "failed" \in Outcome
    BY DEF Outcome
  <2> QED BY <2>1, <2>2, JobReports
<1> QED BY <1>2, <1>3, <1>4

\* A job that is not aborted begins its index operation.
LEMMA IndexBegun ==
  ASSUME Inv, Others, NEW j \in Slot, Is(j, "job"), ~prom[j].aborted, BeginIndex(j)
  PROVE  Inv'
<1>1. prom[j] \in AllJobs
  BY Kinds DEF Is, Inv, TypeOK
<1>2. PICK retry \in Nat : retry = prom[j].retry
  BY <1>1 DEF AllJobs
<1>3. PICK q : q = [prom[j] EXCEPT !.step = "index", !.retry = retry]
  OBVIOUS
<1>5. prom' = [prom EXCEPT ![j] = q]
  <2>1. [prom[j] EXCEPT !.step = "index"] = q
    BY <1>1, <1>2, <1>3 DEF AllJobs
  <2>2. prom' = [prom EXCEPT ![j] = [prom[j] EXCEPT !.step = "index"]]
    BY DEF BeginIndex
  <2> QED BY <2>1, <2>2
<1>4. coord' = [coord EXCEPT ![prom[j].gen] = SetState(@, "indexing")]
  BY DEF BeginIndex
<1> QED BY <1>3, <1>4, <1>5, JobGoesOn DEF Claims

\* The answers a job waits for, and the end of its delay.
LEMMA JobAnswered ==
  ASSUME Inv, NEW j \in Slot, UNCHANGED world,
         FreshEnds(j) \/ IndexEnds(j) \/ StatusEnds(j) \/ DelayEnds(j) \/ DelayAborted(j)
  PROVE  Inv'
<1>1. Others /\ Is(j, "job")
  BY DEF FreshEnds, IndexEnds, StatusEnds, DelayEnds, DelayAborted, At, Is, Others
<1>2. /\ prom[j] \in AllJobs /\ prom \in [Slot -> Promise]
      /\ prom[j].req.force => ForcedJob(prom[j])
      /\ prom[j].req.force => prom[j].req.source = "manual"
  BY <1>1, Kinds DEF Is, Inv, TypeOK, SlotOK, JobOK, AllJobs, Req
<1>3. "ready" \in Outcome /\ "failed" \in Outcome /\ "skipped" \in Outcome /\ "rebuilt" \in Outcome
  BY DEF Outcome
<1>4. CASE FreshEnds(j)
  <2>1. ~prom[j].req.force
    BY <1>2, <1>4 DEF FreshEnds, At, ForcedJob
  <2>2. CASE prom[j].aborted /\ Cancelled(j)
    BY <1>1, <2>2, JobCancelled
  <2>3. CASE ~prom[j].aborted /\ Ends(j, "skipped", SetState(coord[prom[j].gen], "ready"))
    BY <1>1, <1>3, <2>1, <2>3, JobReports
  <2>4. CASE ~prom[j].aborted /\ BeginIndex(j)
    BY <1>1, <2>4, IndexBegun
  <2>5. CASE \E error \in {"busy", "error"} : Caught(j, error)
    BY <1>1, <2>5, JobCaught
  <2> QED BY <1>4, <2>2, <2>3, <2>4, <2>5 DEF FreshEnds
<1>5. CASE IndexEnds(j)
  <2>1. CASE prom[j].aborted /\ Cancelled(j)
    BY <1>1, <2>1, JobCancelled
  <2>2. CASE /\ ~prom[j].aborted /\ prom[j].req.source \in {"startup", "retrieval"}
             /\ prom' = [prom EXCEPT ![j].step = "status"] /\ UNCHANGED coord
    <3>1. PICK g \in Coordinator : g = prom[j].gen
      BY <1>2 DEF AllJobs
    <3>2. PICK q : q = [prom[j] EXCEPT !.step = "status"]
      OBVIOUS
    <3>3. /\ q \in AllJobs /\ q.gen = g /\ q.req = prom[j].req /\ q.aborted = prom[j].aborted
          /\ q.step = "status" /\ ~q.req.force
      BY <1>2, <2>2, <3>1, <3>2 DEF AllJobs
    <3>4. coord[g] \in Fields /\ (coord[g].stopped => coord[g].status = "stopped")
      BY DEF Inv, TypeOK, FieldsOK
    <3>5. PICK state \in State : state = coord[g].status
      BY <3>4 DEF Fields
    <3>6. coord' = [coord EXCEPT ![g] = [@ EXCEPT !.status = state]]
      <4>1. coord[g] = [coord[g] EXCEPT !.status = state]
        BY <3>4, <3>5 DEF Fields
      <4> QED BY <2>2, <4>1 DEF Inv, TypeOK
    <3> QED BY <1>1, <2>2, <3>1, <3>2, <3>3, <3>4, <3>5, <3>6, JobMoved
  <2>3. CASE Ends(j, IF prom[j].req.force THEN "rebuilt" ELSE "ready",
                  SetState(coord[prom[j].gen], "ready"))
    <3>1. CASE prom[j].req.force
      BY <1>1, <1>3, <2>3, <3>1, JobReports
    <3>2. CASE ~prom[j].req.force
      BY <1>1, <1>3, <2>3, <3>2, JobReports
    <3> QED BY <3>1, <3>2
  <2>4. CASE \E error \in {"busy", "error"} : Caught(j, error)
    BY <1>1, <2>4, JobCaught
  <2> QED BY <1>5, <2>1, <2>2, <2>3, <2>4 DEF IndexEnds
<1>6. CASE StatusEnds(j)
  <2>1. ~prom[j].req.force
    BY <1>2, <1>6 DEF StatusEnds, At, ForcedJob
  <2>2. CASE Ends(j, "ready", SetState(coord[prom[j].gen], "ready"))
    BY <1>1, <1>3, <2>1, <2>2, JobReports
  <2>3. CASE Ends(j, "failed", SetState(coord[prom[j].gen], "failed"))
    BY <1>1, <1>3, <2>1, <2>3, JobReports
  <2>4. CASE Caught(j, "error")
    BY <1>1, <2>4, JobCaught
  <2> QED BY <1>6, <2>2, <2>3, <2>4 DEF StatusEnds
<1>7. CASE DelayEnds(j)
  <2>1. CASE FirstStep(prom[j].req) = "fresh" /\ ~BeginIndex(j)
    <3>1. PICK retry \in Nat : retry = prom[j].retry
      BY <1>2 DEF AllJobs
    <3>2. PICK q : q = [prom[j] EXCEPT !.step = "fresh", !.retry = retry]
      OBVIOUS
    <3>5. prom' = [prom EXCEPT ![j] = q]
      BY <1>2, <1>7, <2>1, <3>1, <3>2 DEF DelayEnds, AllJobs
    <3>3. coord' = [coord EXCEPT ![prom[j].gen] = SetState(@, "checking")] /\ ~prom[j].aborted
      BY <1>7, <2>1 DEF DelayEnds
    <3>4. ~prom[j].req.force
      BY <2>1 DEF FirstStep
    <3> QED BY <1>1, <3>2, <3>3, <3>4, <3>5, JobGoesOn DEF Claims
  <2>2. CASE BeginIndex(j)
    BY <1>1, <1>7, <2>2, IndexBegun DEF DelayEnds
  <2> QED BY <1>7, <2>1, <2>2 DEF DelayEnds
<1>8. CASE DelayAborted(j)
  BY <1>1, <1>8, JobCancelled DEF DelayAborted
<1> QED BY <1>4, <1>5, <1>6, <1>7, <1>8

-----------------------------------------------------------------------------
(* Promises settle.                                                        *)

\* What becomes of a promise when another one settles.
LEMMA HeardPromise ==
  ASSUME Inv, NEW t \in Slot, NEW s \in Slot, NEW out \in Outcome, NEW q, q = Heard(t, s, out)
  PROVE  /\ q \in Promise /\ q.kind = prom[t].kind
         /\ ~Is(t, "free") => q.gen = prom[t].gen
         /\ Is(t, "call") \/ Is(t, "job") => q.req = prom[t].req
         /\ Waiting(t, "adopt", s) => q.step = "settled" /\ q.out = out
         /\ ~Waiting(t, "adopt", s) => q = prom[t]
<1>1. prom[t] \in Promise
  BY DEF Inv, TypeOK
<1>2. CASE Waiting(t, "adopt", s)
  <2>1. prom[t] \in Calls \cup Checks /\ q = Settled(prom[t], out)
    BY <1>1, <1>2, Kinds DEF Waiting, Heard
  <2>2. q \in Calls \cup Checks
    BY <2>1, Settles
  <2>3. q.kind = prom[t].kind /\ q.gen = prom[t].gen /\ q.step = "settled" /\ q.out = out
    BY <2>1 DEF Settled, Calls, Checks
  <2>4. prom[t] \in Calls => q.req = prom[t].req
    BY <2>1 DEF Settled, Calls
  <2>5. Is(t, "call") \/ Is(t, "job") => prom[t] \in Calls
    BY <1>1, <1>2, Kinds DEF Waiting, Is
  <2> QED BY <1>2, <2>2, <2>3, <2>4, <2>5 DEF Promise
<1>3. CASE ~Waiting(t, "adopt", s)
  BY <1>1, <1>3 DEF Heard
<1> QED BY <1>2, <1>3

\* Promises that adopted one that is no job are not forced calls.
LEMMA AdoptersFree ==
  ASSUME Inv, NEW s \in Slot, ~Is(s, "job"), NEW t \in Slot, Waiting(t, "adopt", s)
  PROVE  /\ prom[t].kind \in {"call", "check"} /\ prom[t].step = "adopt"
         /\ Is(t, "call") => ~prom[t].req.force
  BY DEF Inv, SlotOK, CallOK, Waiting, Is

\* A promise that hears a call or a check settle is in order.
LEMMA Hearing ==
  ASSUME Inv, Others, NEW s \in Slot, ~Is(s, "job"), NEW t \in Slot, Waiting(t, "adopt", s),
         NEW out \in Outcome, prom'[t] = Heard(t, s, out)
  PROVE  ~Is(t, "job") /\ SlotOK(t)' /\ \A j \in Slot : ~Waiting(t, "forced", j)
<1>1. /\ prom[t].kind \in {"call", "check"} /\ prom[t].step = "adopt"
      /\ Is(t, "call") => ~prom[t].req.force
  BY AdoptersFree
<1>2. /\ prom'[t].kind = prom[t].kind /\ prom'[t].gen = prom[t].gen
      /\ Is(t, "call") => prom'[t].req = prom[t].req
      /\ prom'[t].step = "settled"
  BY <1>1, HeardPromise DEF Is
<1>3. SlotOK(t) /\ prom[t].gen \in Coordinator
  BY <1>1, Kinds DEF Inv, TypeOK, Calls, Checks
<1>4. SlotOK(t)'
  BY <1>1, <1>2, <1>3 DEF SlotOK, JobOK, CheckOK, CallOK, Is, Others, Activated
<1> QED BY <1>1, <1>4 DEF Is, Waiting

\* A call or a battery check settles, and perhaps a new call begins (in F).
LEMMA Settling ==
  ASSUME Inv, Others, NEW s \in Slot, Is(s, "call") \/ Is(s, "check"), prom[s].step = "settled",
         NEW F \in SUBSET Slot, \A f \in F : Is(f, "free"), NEW g \in Coordinator, g <= current, NEW q,
         q = Free \/ \E req \in Req : q = Call(g, req),
         prom' = [t \in Slot |-> CASE t = s -> Free
                                   [] t \in F -> q
                                   [] OTHER -> Heard(t, s, prom[s].out)],
         coord' \in [Coordinator -> Fields], \A h \in Coordinator : SameRun(h)
  PROVE  Inv'
<1>1. prom[s] \in Calls \cup Checks /\ prom[s].out \in Outcome /\ ~Is(s, "job")
  BY Kinds DEF Inv, TypeOK, Is, Calls, Checks
<1>2. PICK out \in Outcome : out = prom[s].out
  BY <1>1
<1>3. /\ q \in Promise /\ (q = Free \/ q \in Calls) /\ q.kind \in {"free", "call"}
      /\ q.kind = "call" => q.gen = g /\ q.step = "enter"
  <2>1. CASE q = Free
    BY <2>1 DEF Promise, Free
  <2>2. ASSUME NEW req \in Req, q = Call(g, req) PROVE q \in Calls /\ q.kind = "call" /\ q.gen = g /\ q.step = "enter"
    BY <2>2, NewPromises DEF Call
  <2> QED BY <2>1, <2>2 DEF Promise
<1>4. \A t \in Slot : t # s /\ t \notin F => prom'[t] = Heard(t, s, out)
  BY <1>2
<1>5. prom'[s] = Free /\ \A f \in F : prom'[f] = q
  BY DEF Is, Free
<1>6. TypeOK'
  <2>1. \A t \in Slot : prom'[t] \in Promise
    BY <1>2, <1>3, <1>4, <1>5, HeardPromise DEF Promise
  <2>2. prom' \in [Slot -> Promise]
    BY <2>1
  <2> QED BY <2>2 DEF Inv, TypeOK, Others
<1>7. PICK S \in SUBSET Slot : S = {s} \cup F \cup {t \in Slot : Waiting(t, "adopt", s)}
  OBVIOUS
<1>8. \A t \in Slot \ S : SameKind(t) /\ SameSteps(t)
  BY <1>4, <1>7, <1>2, HeardPromise DEF SameKind, SameSteps
<1>9. ASSUME NEW t \in S PROVE ~Is(t, "job") /\ SlotOK(t)' /\ \A j \in Slot : ~Waiting(t, "forced", j)
  <2>1. CASE t = s
    BY <1>1, <1>5, <2>1 DEF SlotOK, JobOK, CheckOK, CallOK, Is, Waiting, Free
  <2>2. CASE t \in F
    BY <1>3, <1>5, <2>2 DEF SlotOK, JobOK, CheckOK, CallOK, Is, Waiting, Others
  <2>3. CASE t # s /\ t \notin F
    <3>1. t \in Slot /\ Waiting(t, "adopt", s)
      BY <1>7, <2>3
    <3>2. prom'[t] = Heard(t, s, out)
      BY <1>4, <2>3, <3>1
    <3> QED BY <1>1, <3>1, <3>2, Hearing
  <2> QED BY <2>1, <2>2, <2>3
<1>10. \A t \in Slot : Is(t, "job") => prom'[t].aborted = prom[t].aborted
  BY <1>1, <1>2, <1>4, HeardPromise DEF Is, Waiting
<1> QED BY <1>6, <1>8, <1>9, <1>10, Framed

\* A call settles.
LEMMA CallSettled == ASSUME Inv, NEW s \in Slot, SettleCall(s), UNCHANGED world PROVE Inv'
<1>1. Others /\ Is(s, "call") /\ prom[s].step = "settled" /\ prom[s] \in Calls
  BY Kinds DEF SettleCall, At, Is, Others, Inv, TypeOK
<1>2. PICK g \in Coordinator : g = prom[s].gen
  BY <1>1 DEF Calls
<1>3. coord' \in [Coordinator -> Fields] /\ \A h \in Coordinator : SameRun(h)
  <2>1. PICK c : c = [coord[g] EXCEPT !.followUp = IF @ = s THEN None ELSE @]
    OBVIOUS
  <2>2. /\ c \in Fields /\ c.inFlight = coord[g].inFlight /\ c.stopped = coord[g].stopped
        /\ c.everStopped = coord[g].everStopped /\ c.status = coord[g].status
        /\ c.auto = coord[g].auto
    BY <2>1 DEF Inv, TypeOK, Fields
  <2>3. coord' = [coord EXCEPT ![g] = c]
    BY <1>2, <2>1 DEF SettleCall
  <2> QED BY <2>2, <2>3 DEF Inv, TypeOK, SameRun
<1>4. PICK F \in SUBSET Slot : F = {}
  OBVIOUS
<1>5. prom' = [t \in Slot |-> CASE t = s -> Free
                                [] t \in F -> Free
                                [] OTHER -> Heard(t, s, prom[s].out)]
  <2>1. prom' = [t \in Slot |-> IF t = s THEN Free ELSE Heard(t, s, prom[s].out)]
    BY DEF SettleCall
  <2> QED BY <1>4, <2>1
<1>6. g <= current
  BY <1>1, <1>2 DEF Inv, SlotOK, Is
<1> QED BY <1>1, <1>3, <1>4, <1>5, <1>6, Settling

\* A battery check settles, and may lead to a new call.
LEMMA CheckSettled == ASSUME Inv, NEW b \in Slot, SettleCheck(b), UNCHANGED world PROVE Inv'
<1>1. Others /\ Is(b, "check") /\ prom[b].step = "settled" /\ prom[b] \in Checks
  BY Kinds DEF SettleCheck, At, Is, Others, Inv, TypeOK
<1>2. PICK g \in Coordinator : g = prom[b].gen
  BY <1>1 DEF Checks
<1>3. PICK c : c = coord[g]
  OBVIOUS
<1>4. c \in Fields
  BY <1>3 DEF Inv, TypeOK
<1>5. PICK again \in BOOLEAN : again = (c.check = b /\ c.deferred # NoRequest /\ ~c.stopped)
  OBVIOUS
<1>6. PICK f \in Slot : f = Lowest(Unused) /\ Is(f, "free")
  <2>1. Unused # {} /\ Unused \in SUBSET Slot
    BY DEF SettleCheck, Unused
  <2> QED BY <2>1, LowestIn DEF Unused
<1>7. coord' \in [Coordinator -> Fields] /\ \A h \in Coordinator : SameRun(h)
  <2>1. PICK d : d = IF c.check = b THEN [c EXCEPT !.check = None, !.deferred = NoRequest] ELSE c
    OBVIOUS
  <2>2. /\ d \in Fields /\ d.inFlight = c.inFlight /\ d.stopped = c.stopped
        /\ d.everStopped = c.everStopped /\ d.status = c.status /\ d.auto = c.auto
    BY <1>4, <2>1 DEF Fields
  <2>3. coord' = [coord EXCEPT ![g] = d]
    BY <1>2, <1>3, <2>1 DEF SettleCheck
  <2> QED BY <1>3, <2>2, <2>3 DEF Inv, TypeOK, SameRun
<1>8. PICK q : q = Call(g, c.deferred)
  OBVIOUS
<1>9. prom' = [t \in Slot |-> CASE t = b -> Free
                                [] t = f /\ again -> q
                                [] OTHER -> Heard(t, b, prom[b].out)]
  BY <1>2, <1>3, <1>5, <1>6, <1>8 DEF SettleCheck
<1>10. g <= current
  BY <1>1, <1>2 DEF Inv, SlotOK, Is
<1>11. PICK F \in SUBSET Slot : F = IF again THEN {f} ELSE {}
  BY <1>6
<1>12. \A t \in F : Is(t, "free")
  BY <1>6, <1>11
<1>13. prom' = [t \in Slot |-> CASE t = b -> Free
                                 [] t \in F -> q
                                 [] OTHER -> Heard(t, b, prom[b].out)]
  BY <1>9, <1>11
<1>14. CASE again
  <2>1. c.deferred \in Req
    BY <1>4, <1>5, <1>14 DEF Fields, DeferredReq
  <2>2. q = Free \/ \E req \in Req : q = Call(g, req)
    BY <1>8, <2>1
  <2> QED BY <1>1, <1>7, <1>10, <1>12, <1>13, <2>2, Settling
<1>15. CASE ~again
  <2>1. prom' = [t \in Slot |-> CASE t = b -> Free
                                 [] t \in F -> Free
                                 [] OTHER -> Heard(t, b, prom[b].out)]
    BY <1>11, <1>13, <1>15
  <2> QED BY <1>1, <1>7, <1>10, <1>12, <2>1, Settling
<1> QED BY <1>14, <1>15

\* The reactions of a job that has settled.  Its coordinator has no job then, or the one
\* that a forced request has waited to begin.
LEMMA CleanedUp == ASSUME Inv, NEW j \in Slot, Cleanup(j), UNCHANGED world PROVE Inv'
<1>1. /\ Is(j, "job") /\ prom[j].step = "settled" /\ prom[j] \in AllJobs
      /\ current' = current /\ battery' = battery /\ world' = world
  BY Kinds DEF Cleanup, At, Is, Inv, TypeOK
<1>2. PICK g \in Coordinator : g = prom[j].gen
  BY <1>1 DEF AllJobs
<1>3. PICK c : c = coord[g]
  OBVIOUS
<1>4. /\ c \in Fields /\ c.inFlight = j /\ Activated(g) /\ g <= current
      /\ c.stopped => c.status = "stopped" /\ c.everStopped
      /\ prom[j].req.force => prom[j].out \in {"rebuilt", "failed"} \/ c.everStopped
  BY <1>1, <1>2, <1>3 DEF Inv, TypeOK, SlotOK, JobOK, FieldsOK, Is, ForcedJob, Fulfilled
<1>5. PICK f, n \in Slot :
        /\ f = Lowest(Unused) /\ n = Lowest(Unused \ {f}) /\ f # n
        /\ Is(f, "free") /\ Is(n, "free") /\ f # j /\ n # j
  <2>1. Cardinality(Unused) >= 2
    BY DEF Cleanup
  <2> QED BY <1>1, <2>1, TwoFree DEF Unused, Is
<1>6. PICK forced \in SUBSET Slot : forced = Forcing(j)
  BY DEF Forcing
<1>7. \A s \in forced : /\ Is(s, "call") /\ prom[s] \in Calls /\ prom[s].req \in Req
                        /\ prom[s].req.force /\ prom[s].gen = g
  <2> SUFFICES ASSUME NEW s \in forced
               PROVE  /\ Is(s, "call") /\ prom[s] \in Calls /\ prom[s].req \in Req
                      /\ prom[s].req.force /\ prom[s].gen = g
    OBVIOUS
  <2>1. prom[s] \in Calls \cup Checks /\ prom[s].step = "forced" /\ prom[s].on = j
    BY <1>6, Kinds DEF Inv, TypeOK, Waiting, Forcing
  <2>2. prom[s] \in Calls
    BY <2>1 DEF Checks
  <2> QED BY <1>2, <1>6, <2>1, <2>2 DEF Inv, SlotOK, CallOK, Is, Calls
<1>8. PICK starts \in BOOLEAN : starts = (forced # {} /\ ~c.stopped)
  OBVIOUS
<1>9. PICK force : force = prom[CHOOSE s \in forced : TRUE].req
  OBVIOUS
<1>10. starts => force \in Req /\ force.force
  BY <1>7, <1>8, <1>9
<1>11. PICK req : req = IF c.stopped THEN NoRequest ELSE c.pending
  OBVIOUS
<1>12. req \in Req \cup {NoRequest} /\ (c.stopped => req = NoRequest)
  BY <1>4, <1>11 DEF Fields
<1>15. PICK followed : followed = Cleared(c, j, req, f)
  OBVIOUS
<1>16. /\ followed \in Fields /\ followed.inFlight = None /\ followed.stopped = c.stopped
       /\ followed.everStopped = c.everStopped /\ followed.status = c.status
       /\ followed.auto = c.auto
  BY <1>4, <1>5, <1>15 DEF Fields, Cleared
<1>17. PICK d : d = IF starts THEN SetState([followed EXCEPT !.inFlight = n], "indexing")
                    ELSE followed
  OBVIOUS
<1>18. /\ d \in Fields /\ d.stopped = c.stopped /\ d.everStopped = c.everStopped
       /\ d.auto = c.auto
       /\ starts => d.inFlight = n /\ d.status = "indexing" /\ ~d.stopped
       /\ ~starts => d.inFlight = None /\ d.status = c.status
  <2>1. CASE ~starts
    BY <1>16, <1>17, <2>1
  <2>2. CASE starts
    <3>1. PICK e : e = [followed EXCEPT !.inFlight = n]
      OBVIOUS
    <3>2. /\ e \in Fields /\ e.inFlight = n /\ ~e.stopped /\ e.everStopped = c.everStopped
          /\ e.auto = c.auto /\ ~c.stopped /\ e.stopped = c.stopped
      BY <1>8, <1>16, <2>2, <3>1 DEF Fields
    <3>3. d = [e EXCEPT !.status = "indexing"]
      BY <1>17, <2>2, <3>1, <3>2 DEF SetState
    <3> QED BY <2>2, <3>2, <3>3 DEF Fields, State
  <2> QED BY <2>1, <2>2
<1>19. PICK out \in Outcome : out = prom[j].out
  BY <1>1 DEF AllJobs
<1>20. req = IF c.inFlight = j THEN Requeued(c) ELSE NoRequest
  BY <1>4, <1>11 DEF Requeued
<1>21. n = IF followed.inFlight # None THEN followed.inFlight ELSE n
  BY <1>16
<1>22. coord' = [coord EXCEPT ![g] = d]
  BY <1>2, <1>3, <1>5, <1>6, <1>8, <1>15, <1>17, <1>20, <1>21 DEF Cleanup
<1>23. barrier' = [h \in Coordinator |-> IF barrier[h] = j THEN None ELSE barrier[h]]
  BY DEF Cleanup
<1>24. prom' = [s \in Slot |->
           CASE s = j -> Free
             [] s = f /\ req # NoRequest -> Call(g, req)
             [] s = n /\ starts -> Job(g, force)
             [] Waiting(s, "follow", j) -> Released(s, c, followed.followUp)
             [] Waiting(s, "forced", j) -> Released(s, c, n)
             [] OTHER -> Heard(s, j, out)]
  <2> DEFINE g1 == prom[j].gen
             c1 == coord[g1]
             req1 == IF c1.inFlight = j THEN Requeued(c1) ELSE NoRequest
             starts1 == Forcing(j) # {} /\ ~c1.stopped
             force1 == prom[CHOOSE s \in Forcing(j) : TRUE].req
             f1 == Lowest(Unused)
             n1 == Lowest(Unused \ {f1})
             followed1 == Cleared(c1, j, req1, f1)
             job1 == IF followed1.inFlight # None THEN followed1.inFlight ELSE n1
             now1(s) == CASE s = j -> Free
                          [] s = f1 /\ req1 # NoRequest -> Call(g1, req1)
                          [] s = n1 /\ starts1 /\ job1 = n1 -> Job(g1, force1)
                          [] Waiting(s, "follow", j) -> Released(s, c1, followed1.followUp)
                          [] Waiting(s, "forced", j) -> Released(s, c1, job1)
                          [] OTHER -> Heard(s, j, prom[j].out)
  <2>1. prom' = [s \in Slot |-> now1(s)]
    BY Zenon DEF Cleanup
  <2>2. /\ g1 = g /\ c1 = c /\ req1 = req /\ starts1 = starts /\ force1 = force
        /\ f1 = f /\ n1 = n
    BY <1>2, <1>3, <1>5, <1>6, <1>8, <1>9, <1>20
  <2>3. followed1 = followed
    BY <1>15, <2>2
  <2>4. job1 = n
    BY <1>21, <2>2, <2>3
  <2>5. prom[j].out = out
    BY <1>19
  <2> HIDE DEF g1, c1, req1, starts1, force1, f1, n1, followed1, job1
  <2> QED BY <2>1, <2>2, <2>3, <2>4, <2>5
<1>25. /\ prom'[j] = Free
       /\ prom'[f] = IF req # NoRequest THEN Call(g, req) ELSE Free
       /\ prom'[n] = IF starts THEN Job(g, force) ELSE Free
  <2>1. ASSUME NEW s \in Slot, Is(s, "free")
        PROVE  prom[s] = Free /\ Heard(s, j, out) = Free
               /\ ~Waiting(s, "follow", j) /\ ~Waiting(s, "forced", j)
    BY <2>1, Kinds DEF Is, Waiting, Heard, Inv, TypeOK
  <2>2. f \in Slot /\ f # j /\ f # n /\ Heard(f, j, out) = Free /\ ~Waiting(f, "follow", j)
        /\ ~Waiting(f, "forced", j)
    BY <1>5, <2>1
  <2>3. n \in Slot /\ n # j /\ n # f /\ Heard(n, j, out) = Free /\ ~Waiting(n, "follow", j)
        /\ ~Waiting(n, "forced", j)
    BY <1>5, <2>1
  <2>4. prom'[j] = Free
    <3>1. ~Waiting(j, "follow", j) /\ ~Waiting(j, "forced", j)
      BY <1>1 DEF Waiting, Is
    <3> QED BY <1>5, <1>24, <3>1
  <2>5. prom'[f] = IF req # NoRequest THEN Call(g, req) ELSE Free
    BY <1>24, <2>2
  <2>6. prom'[n] = IF starts THEN Job(g, force) ELSE Free
    BY <1>24, <2>3
  <2> QED BY <2>4, <2>5, <2>6
<1>26. ASSUME NEW s \in Slot, s \notin {j, f, n}
       PROVE  prom'[s] = CASE Waiting(s, "follow", j) -> Released(s, c, followed.followUp)
                           [] Waiting(s, "forced", j) -> Released(s, c, n)
                           [] OTHER -> Heard(s, j, out)
  BY <1>24, <1>26
<1>27. ASSUME NEW s \in Slot, s # j, \A on \in {j} : ~Waiting(s, "follow", on),
              ~Waiting(s, "forced", j), ~Waiting(s, "adopt", j), ~Is(s, "free")
       PROVE  prom'[s] = prom[s]
  BY <1>5, <1>26, <1>27 DEF Heard
<1>28. \A s \in Slot : Is(s, "job") /\ s # j => prom'[s] = prom[s] /\ prom[s].gen # g
  BY <1>2, <1>3, <1>4, <1>27 DEF Is, Waiting, Inv, SlotOK, JobOK
<1>29. \A h \in Coordinator : Activated(h) => \A i \in Coordinator : i <= h => barrier'[i] = None
  BY <1>23 DEF Activated
<1>30. \A s \in Slot : ~Is(s, "free") => prom[s].gen \in Coordinator
  BY Kinds DEF Inv, TypeOK, Is, Calls, Checks, AllJobs
<1>31. /\ req # NoRequest => Call(g, req) \in Calls
       /\ starts => Job(g, force) \in AllJobs /\ FirstStep(force) = "index"
  BY <1>10, <1>12, NewPromises
<1>32. "stopped" \in Outcome
  BY DEF Outcome
<1>33. ASSUME NEW s \in Slot, s # j, Waiting(s, "follow", j)
       PROVE  prom'[s] \in Promise /\ SlotOK(s)'
  <2>1. /\ prom[s] \in Calls \cup Checks /\ SlotOK(s)
        /\ Is(s, "call") => prom[s] \in Calls /\ ~prom[s].req.force
        /\ Is(s, "check") => prom[s] \in Checks
    BY <1>33, Kinds DEF Inv, TypeOK, Waiting, SlotOK, CallOK, Is
  <2>2. PICK k \in Slot \cup {None} : k = followed.followUp
    BY <1>16 DEF Fields
  <2>3. prom'[s] = IF c.stopped \/ k = None THEN Settled(prom[s], "stopped")
                   ELSE Wait(prom[s], "adopt", k)
    BY <1>5, <1>26, <1>33, <2>2 DEF Released, Waiting, Is
  <2>4. prom'[s] \in Promise
    BY <1>32, <2>1, <2>2, <2>3, Settles, Waits DEF Promise
  <2>5. /\ prom'[s].kind = prom[s].kind /\ prom'[s].gen = prom[s].gen
        /\ Is(s, "call") => prom'[s].req = prom[s].req
        /\ prom'[s].step \in {"settled", "adopt"}
    BY <2>1, <2>3 DEF Settled, Wait, Calls, Checks, Is
  <2>6. SlotOK(s)'
    BY <1>1, <1>29, <1>30, <2>1, <2>5 DEF SlotOK, JobOK, CheckOK, CallOK, Is, Calls, Checks, Activated
  <2> QED BY <2>4, <2>6
<1>34. ASSUME NEW s \in Slot, s # j, Waiting(s, "forced", j)
       PROVE  prom'[s] \in Promise /\ SlotOK(s)'
  <2>1. /\ prom[s] \in Calls /\ prom[s].req.force /\ prom[s].gen = g /\ Is(s, "call")
        /\ ~c.stopped => starts
    BY <1>6, <1>7, <1>8, <1>34 DEF Forcing
  <2>2. prom'[s] = IF c.stopped THEN Settled(prom[s], "stopped") ELSE Wait(prom[s], "adopt", n)
    <3>1. ~Waiting(s, "follow", j) /\ s \notin {j, f, n} /\ n # None
      BY <1>5, <1>34 DEF Waiting, Is, Slot, None
    <3>2. prom'[s] = Released(s, c, n)
      BY <1>26, <1>34, <3>1
    <3> QED BY <3>1, <3>2 DEF Released
  <2>3. prom'[s] \in Calls
    BY <1>32, <2>1, <2>2, Settles, Waits
  <2>4. CASE c.stopped
    <3>1. /\ prom'[s].kind = "call" /\ prom'[s].gen = g /\ prom'[s].step = "settled"
          /\ coord'[g].everStopped
      BY <1>4, <1>18, <1>22, <2>1, <2>2, <2>4 DEF Settled, Calls, Inv, TypeOK
    <3> QED BY <1>1, <1>4, <2>3, <3>1 DEF SlotOK, JobOK, CheckOK, CallOK, Is, Fulfilled, Promise
  <2>5. CASE ~c.stopped
    <3>1. /\ prom'[s].kind = "call" /\ prom'[s].gen = g /\ prom'[s].step = "adopt"
          /\ prom'[s].on = n /\ prom'[s].req = prom[s].req
      BY <2>1, <2>2, <2>5 DEF Wait, Calls
    <3>2. /\ prom'[n].kind = "job" /\ prom'[n].gen = g /\ prom'[n].req = force
          /\ force.force /\ n # None
      BY <1>10, <1>25, <2>1, <2>5 DEF Job, Slot, None
    <3> QED BY <1>1, <1>4, <2>1, <2>3, <3>1, <3>2 DEF SlotOK, JobOK, CheckOK, CallOK, Is, Promise
  <2> QED BY <2>4, <2>5, <2>3 DEF Promise
<1>35. ASSUME NEW s \in Slot, s # j, ~Is(s, "free"), ~Waiting(s, "follow", j), ~Waiting(s, "forced", j)
       PROVE  prom'[s] \in Promise /\ SlotOK(s)'
  <2>1. prom'[s] = Heard(s, j, out)
    BY <1>5, <1>26, <1>35
  <2>2. /\ prom'[s] \in Promise /\ prom'[s].kind = prom[s].kind /\ prom'[s].gen = prom[s].gen
        /\ Is(s, "call") \/ Is(s, "job") => prom'[s].req = prom[s].req
        /\ Waiting(s, "adopt", j) => prom'[s].step = "settled" /\ prom'[s].out = out
        /\ ~Waiting(s, "adopt", j) => prom'[s] = prom[s]
    BY <1>35, <2>1, HeardPromise
  <2>3. SlotOK(s) /\ prom[s] \in Promise
    BY DEF Inv, TypeOK
  <2>4. CASE Is(s, "job")
    <3>1. prom'[s] = prom[s] /\ prom[s].gen # g /\ coord'[prom[s].gen] = coord[prom[s].gen]
      BY <1>22, <1>28, <1>30, <1>35, <2>4 DEF Inv, TypeOK
    <3> QED BY <1>1, <1>29, <1>30, <1>35, <2>2, <2>3, <2>4, <3>1
            DEF SlotOK, JobOK, CheckOK, CallOK, Is, ForcedJob, Fulfilled, Activated
  <2>5. CASE Is(s, "check")
    BY <1>1, <1>29, <1>30, <1>35, <2>2, <2>3, <2>5 DEF SlotOK, JobOK, CheckOK, CallOK, Is, Activated
  <2>6. CASE Is(s, "call")
    <3>1. \A h \in Coordinator : coord[h].everStopped => coord'[h].everStopped
      BY <1>3, <1>18, <1>22 DEF Inv, TypeOK
    <3>2. CASE Waiting(s, "adopt", j)
      <4>1. CallOK(s) /\ prom[s].step = "adopt" /\ prom[s].on = j
        BY <2>3, <3>2 DEF SlotOK, Waiting
      <4>2. prom[s].req.force => prom[j].req.force /\ prom[s].gen = g
        BY <1>2, <2>6, <4>1 DEF CallOK
      <4>3. prom[s].req.force => out \in {"rebuilt", "failed"} \/ coord'[g].everStopped
        BY <1>4, <1>3, <1>19, <3>1, <4>2
      <4>4. CallOK(s)'
        BY <2>2, <2>6, <3>2, <4>2, <4>3 DEF CallOK, Is, Fulfilled
      <4> QED BY <1>1, <1>30, <1>35, <2>2, <2>3, <2>6, <4>4 DEF SlotOK, JobOK, CheckOK, Is
    <3>3. CASE ~Waiting(s, "adopt", j)
      <4>1. prom'[s] = prom[s]
        BY <2>2, <3>3
      <4>2. prom[s].step \in {"forced", "adopt"} => prom[s].on # j
        BY <1>35, <2>6, <3>3 DEF Waiting, Is
      <4>3. prom[s] \in Calls
        BY <2>3, <2>6, Kinds DEF Is
      <4>4. prom[s].on # None => prom[s].on \in Slot
        BY <4>3 DEF Calls
      <4>5. CallOK(s)'
        BY <1>28, <1>30, <1>35, <2>3, <2>6, <3>1, <4>1, <4>2, <4>4 DEF SlotOK, CallOK, Is, Fulfilled
      <4> QED BY <1>1, <1>30, <1>35, <2>2, <2>3, <2>6, <4>1, <4>5 DEF SlotOK, JobOK, CheckOK, Is
    <3> QED BY <3>2, <3>3
  <2> QED BY <1>35, <2>2, <2>3, <2>4, <2>5, <2>6, Kinds DEF Is
<1>36. ASSUME NEW s \in Slot PROVE prom'[s] \in Promise /\ SlotOK(s)'
  <2>1. CASE s = j
    BY <1>25, <2>1 DEF SlotOK, JobOK, CheckOK, CallOK, Is, Free, Promise
  <2>2. CASE s = f
    <3>1. CASE req = NoRequest
      BY <1>25, <2>2, <3>1 DEF SlotOK, JobOK, CheckOK, CallOK, Is, Free, Promise
    <3>2. CASE req # NoRequest
      <4>1. /\ prom'[s] = Call(g, req) /\ prom'[s] \in Promise
            /\ prom'[s].kind = "call" /\ prom'[s].step = "enter" /\ prom'[s].gen = g
        BY <1>25, <1>31, <2>2, <3>2 DEF Promise, Call
      <4> QED BY <1>1, <1>4, <4>1 DEF SlotOK, JobOK, CheckOK, CallOK, Is
    <3> QED BY <3>1, <3>2
  <2>3. CASE s = n
    <3>1. CASE ~starts
      BY <1>25, <2>3, <3>1 DEF SlotOK, JobOK, CheckOK, CallOK, Is, Free, Promise
    <3>2. CASE starts
      <4>1. /\ prom'[s] = Job(g, force) /\ prom'[s] \in Promise
            /\ prom'[s].kind = "job" /\ prom'[s].step = "index" /\ prom'[s].gen = g
            /\ ~prom'[s].aborted
        BY <1>25, <1>31, <2>3, <3>2 DEF Promise, Job
      <4>2. coord'[g].inFlight = s /\ ~coord'[g].stopped
        BY <1>18, <1>22, <2>3, <3>2 DEF Inv, TypeOK
      <4>3. \A i \in Coordinator : i <= g => barrier'[i] = None
        BY <1>4, <1>29
      <4> QED BY <1>1, <1>4, <4>1, <4>2, <4>3
              DEF SlotOK, JobOK, CheckOK, CallOK, Is, ForcedJob, Activated
    <3> QED BY <3>1, <3>2
  <2>4. CASE s \notin {j, f, n} /\ Is(s, "free")
    <3>1. ~Waiting(s, "follow", j) /\ ~Waiting(s, "forced", j) /\ Heard(s, j, out) = prom[s]
      BY <2>4 DEF Waiting, Is, Heard
    <3>2. prom'[s] = prom[s]
      BY <1>26, <2>4, <3>1
    <3> QED BY <2>4, <3>2 DEF SlotOK, JobOK, CheckOK, CallOK, Is, Inv, TypeOK
  <2>5. CASE s \notin {j, f, n} /\ ~Is(s, "free")
    BY <1>33, <1>34, <1>35, <2>5
  <2> QED BY <2>1, <2>2, <2>3, <2>4, <2>5
<1>37. TypeOK'
  <2>1. prom' \in [Slot -> Promise]
    BY <1>24, <1>36
  <2>2. coord' \in [Coordinator -> Fields] /\ barrier' \in [Coordinator -> Slot \cup {None}]
    BY <1>18, <1>22, <1>23 DEF Inv, TypeOK
  <2> QED BY <1>1, <2>1, <2>2 DEF Inv, TypeOK
<1>38. starts => /\ prom'[n].kind = "job" /\ prom'[n].gen = g /\ prom'[n].step = "index"
                 /\ ~prom'[n].aborted
  BY <1>25, <1>31 DEF Job
<1>39. ASSUME NEW h \in Coordinator, h # g
       PROVE  /\ coord'[h] = coord[h] /\ coord[h].inFlight # j
              /\ coord[h].inFlight # None =>
                   /\ coord[h].inFlight \in Slot /\ Is(coord[h].inFlight, "job")
                   /\ prom'[coord[h].inFlight] = prom[coord[h].inFlight]
  <2>1. coord'[h] = coord[h]
    BY <1>22, <1>39 DEF Inv, TypeOK
  <2>2. FieldsOK(h) /\ coord[h] \in Fields
    BY DEF Inv, TypeOK
  <2>3. coord[h].inFlight # None =>
          coord[h].inFlight \in Slot /\ Is(coord[h].inFlight, "job") /\ prom[coord[h].inFlight].gen = h
    BY <2>2 DEF FieldsOK, Fields
  <2>4. coord[h].inFlight # j
    BY <1>2, <1>39, <2>3 DEF Slot, None
  <2> QED BY <1>28, <2>1, <2>3, <2>4
<1>40. ASSUME NEW h \in Coordinator PROVE FieldsOK(h)'
  <2>1. FieldsOK(h) /\ barrier'[h] = IF barrier[h] = j THEN None ELSE barrier[h]
    BY <1>23 DEF Inv
  <2>2. CASE h = g
    <3>1. coord'[h] = d
      BY <1>22, <2>2 DEF Inv, TypeOK
    <3>2. d.inFlight # None => prom'[d.inFlight].kind = "job" /\ prom'[d.inFlight].gen = g
      BY <1>18, <1>38
    <3>3. d.stopped => d.status = "stopped" /\ d.everStopped
      BY <1>4, <1>8, <1>18
    <3>4. g < current => d.stopped /\ d.inFlight = None
      BY <1>3, <1>8, <1>18, <2>1, <2>2 DEF FieldsOK
    <3>5. ~(g > current)
      BY <1>4 DEF Inv, TypeOK, Coordinator
    <3> QED BY <1>1, <2>2, <3>1, <3>2, <3>3, <3>4, <3>5 DEF FieldsOK, Is
  <2>3. CASE h # g
    <3>1. h < current => h + 1 \in Coordinator
      BY BoundsAssumption DEF Inv, TypeOK, Coordinator
    <3> QED BY <1>1, <1>23, <1>39, <2>1, <2>3, <3>1 DEF FieldsOK, Is
  <2> QED BY <2>2, <2>3
<1>41. ASSUME NEW h \in Coordinator, world.autos = {TRUE} PROVE ClaimOK(h)'
  <2>1. ClaimOK(h) /\ coord[h].auto
    BY <1>41 DEF Inv, ClaimOK
  <2>2. CASE h = g
    <3>1. coord'[h] = d
      BY <1>22, <2>2 DEF Inv, TypeOK
    <3>2. CASE starts
      BY <1>1, <1>3, <1>5, <1>18, <1>38, <2>1, <2>2, <3>1, <3>2 DEF ClaimOK, Slot, None
    <3>3. CASE ~starts
      <4>1. c.status \in Claims => forced # {}
        BY <1>1, <1>3, <1>4, <1>6, <1>41, <2>1, <2>2 DEF ClaimOK, Forcing
      <4>2. c.status \notin Claims
        BY <1>4, <1>8, <3>3, <4>1 DEF Claims
      <4> QED BY <1>1, <1>3, <1>18, <2>1, <2>2, <3>1, <3>3, <4>2 DEF ClaimOK
    <3> QED BY <3>2, <3>3
  <2>3. CASE h # g
    <3>1. ASSUME NEW s \in Slot, Waiting(s, "forced", coord[h].inFlight)
          PROVE  Waiting(s, "forced", coord[h].inFlight)'
      <4>1. /\ ~Is(s, "free") /\ s # j /\ prom[s].step = "forced" /\ prom[s].on # j
        BY <1>1, <1>39, <2>3, <3>1 DEF Waiting, Is
      <4>2. prom'[s] = prom[s]
        BY <1>27, <4>1 DEF Waiting
      <4> QED BY <1>39, <2>3, <3>1, <4>2 DEF Waiting
    <3> QED BY <1>1, <1>39, <2>1, <2>3, <3>1, <1>41 DEF ClaimOK
  <2> QED BY <2>2, <2>3
<1>42. \A h \in Coordinator : ClaimOK(h)'
  <2>1. CASE world.autos = {TRUE}
    BY <1>41, <2>1
  <2>2. CASE world.autos # {TRUE}
    BY <1>1, <2>2 DEF ClaimOK
  <2> QED BY <2>1, <2>2
<1> QED BY <1>36, <1>37, <1>40, <1>42 DEF Inv

-----------------------------------------------------------------------------
(* The callers and the world.                                              *)

\* Steps that leave promises and fields alone.
LEMMA Untouched ==
  ASSUME Inv, UNCHANGED <<world, prom, coord, barrier, current>>, battery' \in BOOLEAN
  PROVE  Inv'
<1>1. TypeOK'
  BY DEF Inv, TypeOK
<1>2. ASSUME NEW s \in Slot PROVE SlotOK(s)'
  <2>1. SlotOK(s)
    BY DEF Inv
  <2> QED BY <2>1 DEF SlotOK, JobOK, CheckOK, CallOK, ForcedJob, Fulfilled, Activated, Is
<1>3. ASSUME NEW g \in Coordinator PROVE FieldsOK(g)' /\ ClaimOK(g)'
  <2>1. FieldsOK(g) /\ ClaimOK(g)
    BY DEF Inv
  <2> QED BY <2>1 DEF FieldsOK, ClaimOK, Is, Waiting
<1> QED BY <1>1, <1>2, <1>3 DEF Inv

\* A new call, or none from a stopped coordinator.
LEMMA Asked ==
  ASSUME Inv, Others, UNCHANGED coord, Room, NEW req \in Req, Ask(req)
  PROVE  Inv'
<1>1. CASE coord[current].stopped
  BY <1>1, Untouched DEF Ask, Others, Inv, TypeOK
<1>2. CASE ~coord[current].stopped
  <2>1. Unused \in SUBSET Slot /\ Unused # {}
    <3>1. Unused \in SUBSET Slot
      BY DEF Unused
    <3> QED BY <3>1, FS_EmptySet DEF Room
  <2>2. PICK s \in Slot : s = Lowest(Unused) /\ Is(s, "free")
    BY <2>1, LowestIn DEF Unused
  <2>3. PICK g \in Coordinator : g = current
    BY DEF Inv, TypeOK
  <2>4. PICK q \in Calls : q = Call(g, req)
    BY NewPromises
  <2>5. q.kind = "call" /\ q.gen = g /\ q.step = "enter" /\ q \in Promise
    BY <2>4 DEF Call, Promise
  <2>6. prom' = [prom EXCEPT ![s] = q]
    BY <1>2, <2>2, <2>3, <2>4 DEF Ask
  <2>7. TypeOK'
    BY <2>5, <2>6 DEF Inv, TypeOK, Others
  <2>8. prom'[s] = q /\ \A t \in Slot : t # s => prom'[t] = prom[t]
    BY <2>6 DEF Inv, TypeOK
  <2>9. SlotOK(s)'
    <3>1. g <= current /\ current' = current
      BY <2>3 DEF Inv, TypeOK, Coordinator, Others
    <3> QED BY <2>5, <2>8, <3>1 DEF SlotOK, JobOK, CheckOK, CallOK, Is
  <2>10. \A t \in Slot : t # s => SameKind(t) /\ SameSteps(t)
    BY <2>8 DEF SameKind, SameSteps
  <2>11. ~Is(s, "job") /\ \A t \in Slot : Is(t, "job") => prom'[t].aborted = prom[t].aborted
    BY <2>2, <2>8 DEF Is
  <2>12. \A h \in Coordinator : SameRun(h)
    BY DEF SameRun
  <2> QED BY <2>2, <2>7, <2>9, <2>10, <2>11, <2>12, Moved
<1> QED BY <1>1, <1>2

\* The watcher reports its changes.
LEMMA Notified == ASSUME Inv, Notify PROVE Inv'
<1>1. Changes \in Req
  BY DEF Changes, Req, Source
<1> QED BY <1>1, Asked DEF Notify, Others

\* A caller makes a request.
LEMMA Called == ASSUME Inv, NEW req \in Requests, External(req), UNCHANGED world PROVE Inv'
<1>1. req \in Req
  <2>1. Startup \in Req /\ Retrieval \in Req /\ Manual \in Req /\ Rebuild \in Req
    BY DEF Startup, Retrieval, Manual, Rebuild, Req, Source
  <2> QED BY <2>1, RequestsAssumption
<1> QED BY <1>1, Asked DEF External, Others

\* What a stop or a new configuration does to the promises: sleeping checks may wake, and
\* the run of the current coordinator may be aborted.
Shaken(Q) ==
  /\ Q \in [Slot -> Promise]
  /\ \A t \in Slot :
       /\ Q[t].kind = prom[t].kind
       /\ ~Is(t, "free") => Q[t].gen = prom[t].gen
       /\ Is(t, "call") => Q[t] = prom[t]
       /\ Is(t, "job") => Q[t].req = prom[t].req /\ Q[t].step = prom[t].step
                          /\ Q[t].out = prom[t].out
       /\ Is(t, "job") /\ t # coord[current].inFlight => Q[t].aborted = prom[t].aborted

\* cancelBatteryRetry and the abort shake the promises at most.
LEMMA Shakes ==
  ASSUME Inv, NEW P, P \in {prom, WakeCheck(prom, current)}
  PROVE  /\ Shaken(P) /\ \A t \in Slot : Is(t, "job") => P[t] = prom[t]
         /\ Shaken(Abort(P, coord[current]))
         /\ \A t \in Slot : Is(t, "job") /\ t = coord[current].inFlight =>
                              Abort(P, coord[current])[t].aborted
<1>1. PICK j \in Slot \cup {None} : j = coord[current].inFlight
  BY DEF Inv, TypeOK, Fields
<1>2. P \in [Slot -> Promise] /\ \A t \in Slot : ~Is(t, "check") => P[t] = prom[t]
  <2>1. CASE P = prom
    BY <2>1 DEF Inv, TypeOK
  <2>2. CASE P = WakeCheck(prom, current)
    <3>1. ASSUME NEW t \in Slot PROVE P[t] \in Promise /\ (~Is(t, "check") => P[t] = prom[t])
      <4>1. prom[t] \in Promise
        BY DEF Inv, TypeOK
      <4>2. PICK w : w = [prom[t] EXCEPT !.step = "woken"]
        OBVIOUS
      <4>3. prom[t] \in Checks => w \in Checks
        BY <4>2 DEF Checks
      <4>4. P[t] = IF Is(t, "check") /\ prom[t].gen = current /\ prom[t].step = "sleep" THEN w ELSE prom[t]
        BY <2>2, <4>2 DEF WakeCheck, Is
      <4> QED BY <4>1, <4>3, <4>4, Kinds DEF Is, Promise
    <3> QED BY <2>2, <3>1 DEF WakeCheck
  <2> QED BY <2>1, <2>2
<1>3. ASSUME NEW t \in Slot, Is(t, "check") PROVE P[t].kind = "check" /\ P[t].gen = prom[t].gen
  <2>1. prom[t] \in Checks
    BY <1>3, Kinds DEF Is, Inv, TypeOK
  <2>2. PICK w : w = [prom[t] EXCEPT !.step = "woken"]
    OBVIOUS
  <2>3. P[t] \in {prom[t], w}
    BY <2>2 DEF WakeCheck
  <2> QED BY <2>1, <2>2, <2>3 DEF Checks
<1>4. Shaken(P) /\ \A t \in Slot : Is(t, "job") => P[t] = prom[t]
  BY <1>2, <1>3 DEF Shaken, Is
<1>5. CASE j = None
  BY <1>1, <1>4, <1>5 DEF Abort, None, Slot
<1>6. CASE j # None
  <2>1. j \in Slot /\ Is(j, "job") /\ P[j] = prom[j] /\ prom[j] \in AllJobs
    BY <1>1, <1>4, <1>6, Kinds DEF Inv, TypeOK, FieldsOK, Is
  <2>2. PICK q : q = [prom[j] EXCEPT !.aborted = TRUE]
    OBVIOUS
  <2>3. /\ q \in AllJobs /\ q \in Promise /\ q.kind = "job" /\ q.gen = prom[j].gen /\ q.req = prom[j].req
        /\ q.step = prom[j].step /\ q.out = prom[j].out /\ q.aborted
    BY <2>1, <2>2 DEF AllJobs, Promise
  <2>4. Abort(P, coord[current]) = [P EXCEPT ![j] = q]
    BY <1>1, <1>6, <2>1, <2>2 DEF Abort
  <2> QED BY <1>1, <1>4, <2>1, <2>3, <2>4 DEF Shaken, Is
<1> QED BY <1>4, <1>5, <1>6

\* Promises that are shaken are in order, if the aborts agree with who is stopped.
LEMMA ShakenSlots ==
  ASSUME Inv, Shaken(prom'), current' \in {current, current + 1},
         \A h \in Coordinator : h <= current =>
           /\ coord'[h].inFlight = coord[h].inFlight
           /\ coord[h].everStopped => coord'[h].everStopped
           /\ barrier'[h] = barrier[h],
         \A t \in Slot : Is(t, "job") =>
           /\ coord'[prom[t].gen].stopped => prom'[t].aborted
           /\ prom'[t].aborted /\ prom[t].req.force => coord'[prom[t].gen].everStopped
  PROVE  \A s \in Slot : SlotOK(s)'
<1> SUFFICES ASSUME NEW s \in Slot PROVE SlotOK(s)'
  OBVIOUS
<1>1. SlotOK(s) /\ prom[s] \in Promise /\ prom'[s].kind = prom[s].kind
  BY DEF Inv, TypeOK, Shaken
<1>2. ASSUME NEW h \in Coordinator, h <= current, Activated(h)
      PROVE  \A i \in Coordinator : i <= h => barrier'[i] = None
  BY <1>2 DEF Activated, Inv, TypeOK, Coordinator
<1>3. CASE Is(s, "free")
  BY <1>1, <1>3 DEF SlotOK, JobOK, CheckOK, CallOK, Is
<1>4. CASE ~Is(s, "free")
  <2>1. /\ prom[s].gen \in Coordinator /\ prom[s].gen <= current /\ prom'[s].gen = prom[s].gen
        /\ prom[s].gen <= current'
    BY <1>1, <1>4, Kinds DEF SlotOK, Is, Calls, Checks, AllJobs, Shaken, Inv, TypeOK, Coordinator
  <2>2. PICK g \in Coordinator : g = prom[s].gen
    BY <2>1
  <2>3. CASE Is(s, "job")
    <3>1. /\ prom'[s].req = prom[s].req /\ prom'[s].step = prom[s].step
          /\ prom'[s].out = prom[s].out
      BY <2>3 DEF Shaken
    <3>2. /\ coord[g].inFlight = s /\ Activated(g)
          /\ prom[s].req.force => ForcedJob(prom[s])
      BY <1>1, <2>2, <2>3 DEF SlotOK, JobOK
    <3>3. coord'[g].inFlight = s /\ (coord[g].everStopped => coord'[g].everStopped)
      BY <2>1, <2>2, <3>2
    <3>4. prom[s].req.force => ForcedJob(prom[s])'
      BY <2>1, <2>2, <2>3, <3>1, <3>2, <3>3 DEF ForcedJob, Fulfilled
    <3>5. \A i \in Coordinator : i <= g => barrier'[i] = None
      BY <1>2, <2>1, <2>2, <3>2
    <3>6. JobOK(s)'
      BY <2>1, <2>2, <2>3, <3>1, <3>3, <3>4, <3>5 DEF JobOK, Activated
    <3> QED BY <1>1, <2>1, <2>3, <3>6 DEF SlotOK, CheckOK, CallOK, Is
  <2>4. CASE Is(s, "check")
    <3>1. \A i \in Coordinator : i <= g => barrier'[i] = None
      BY <1>1, <1>2, <2>1, <2>2, <2>4 DEF SlotOK, CheckOK
    <3> QED BY <1>1, <2>1, <2>2, <2>4, <3>1 DEF SlotOK, JobOK, CheckOK, CallOK, Is, Activated
  <2>5. CASE Is(s, "call")
    <3>1. prom'[s] = prom[s] /\ prom[s] \in Calls
      BY <1>1, <2>5, Kinds DEF Shaken, Is
    <3>2. coord[g].everStopped => coord'[g].everStopped
      BY <2>1, <2>2
    <3>3. \A t \in Slot : Is(t, "job") => /\ prom'[t].kind = "job" /\ prom'[t].req = prom[t].req
                                          /\ prom'[t].gen = prom[t].gen
      BY DEF Shaken, Is
    <3>4. prom[s].on # None => prom[s].on \in Slot
      BY <3>1 DEF Calls
    <3>5. CallOK(s)'
      BY <1>1, <2>2, <2>5, <3>1, <3>2, <3>3, <3>4 DEF SlotOK, CallOK, Is, Fulfilled
    <3> QED BY <1>1, <2>1, <2>5, <3>5 DEF SlotOK, JobOK, CheckOK, Is
  <2> QED BY <1>1, <1>4, <2>3, <2>4, <2>5, Kinds DEF Is
<1> QED BY <1>3, <1>4

\* The run of a coordinator other than the current one is no other's.
LEMMA Abiding ==
  ASSUME Inv, Shaken(prom'), world' = world, NEW h \in Coordinator,
         coord'[h].inFlight = coord[h].inFlight
  PROVE  /\ coord[h].inFlight # None =>
              /\ coord[h].inFlight \in Slot /\ Is(coord[h].inFlight, "job")
              /\ prom'[coord[h].inFlight].kind = "job" /\ prom'[coord[h].inFlight].gen = h
         /\ coord[h].inFlight # None /\ coord[h].inFlight # coord[current].inFlight =>
              prom'[coord[h].inFlight].aborted = prom[coord[h].inFlight].aborted
         /\ h # current => coord[h].inFlight = None \/ coord[h].inFlight # coord[current].inFlight
<1>1. FieldsOK(h) /\ coord[h] \in Fields /\ FieldsOK(current) /\ current \in Coordinator
  BY DEF Inv, TypeOK
<1>2. coord[h].inFlight # None => /\ coord[h].inFlight \in Slot /\ Is(coord[h].inFlight, "job")
                                  /\ prom[coord[h].inFlight].gen = h
  BY <1>1 DEF FieldsOK, Fields
<1> QED BY <1>1, <1>2 DEF Shaken, FieldsOK, Is

\* A call that waits for the end of a job is not touched.
LEMMA StillWaiting ==
  ASSUME Inv, Shaken(prom'), NEW s \in Slot, NEW k, Waiting(s, "forced", k)
  PROVE  prom'[s] = prom[s]
  BY Kinds DEF Inv, TypeOK, Waiting, Checks, Shaken, Is

\* A coordinator whose run is not touched claims as before.
LEMMA ClaimsKept ==
  ASSUME Inv, Shaken(prom'), world' = world, NEW h \in Coordinator,
         coord'[h].inFlight = coord[h].inFlight, coord'[h].auto = coord[h].auto \/ coord'[h].auto,
         coord'[h].status = coord[h].status \/ coord'[h].status \notin Claims,
         coord[h].inFlight # None => prom'[coord[h].inFlight].aborted = prom[coord[h].inFlight].aborted
  PROVE  ClaimOK(h)'
<1> SUFFICES ASSUME world.autos = {TRUE}, coord'[h].status \in Claims PROVE ClaimOK(h)'
  BY DEF Inv, ClaimOK
<1>1. PICK k \in Slot : k = coord[h].inFlight /\ prom'[k].step = prom[k].step
  BY Abiding DEF Inv, ClaimOK, Shaken
<1>2. ASSUME NEW s \in Slot, Waiting(s, "forced", k) PROVE Waiting(s, "forced", k)'
  BY <1>2, StillWaiting DEF Waiting
<1> QED BY <1>1, <1>2 DEF Inv, ClaimOK

\* stopAutoIndex, and the end of a coordinator that is replaced.
LEMMA StoppedFields ==
  ASSUME NEW c \in Fields, NEW d, d = Stopped(c)
  PROVE  /\ d \in Fields /\ d.inFlight = c.inFlight /\ d.stopped /\ d.everStopped
         /\ d.status = "stopped" /\ d.auto = c.auto
  BY DEF Stopped, Fields, State

\* stopAutoIndex.
LEMMA Halted == ASSUME Inv, Stop, UNCHANGED world PROVE Inv'
<1>1. PICK g \in Coordinator : g = current
  BY DEF Inv, TypeOK
<1>2. PICK d : d = Stopped(coord[g])
  OBVIOUS
<1>3. /\ d \in Fields /\ d.inFlight = coord[g].inFlight /\ d.stopped /\ d.everStopped
      /\ d.status = "stopped" /\ d.auto = coord[g].auto
  BY <1>2, StoppedFields DEF Inv, TypeOK
<1>4. coord' = [coord EXCEPT ![g] = d] /\ UNCHANGED <<world, barrier, current, battery>>
  BY <1>1, <1>2 DEF Stop
<1>5. /\ Shaken(prom')
      /\ \A t \in Slot : Is(t, "job") /\ t = coord[current].inFlight => prom'[t].aborted
  BY Shakes DEF Stop
<1>6. /\ coord'[g] = d /\ \A h \in Coordinator : h # g => coord'[h] = coord[h]
      /\ coord' \in [Coordinator -> Fields]
  BY <1>3, <1>4 DEF Inv, TypeOK
<1>7. TypeOK'
  BY <1>4, <1>5, <1>6 DEF Inv, TypeOK, Shaken
<1>8. \A s \in Slot : SlotOK(s)'
  <2>1. \A h \in Coordinator : h <= current =>
           /\ coord'[h].inFlight = coord[h].inFlight
           /\ coord[h].everStopped => coord'[h].everStopped
           /\ barrier'[h] = barrier[h]
    BY <1>3, <1>4, <1>6
  <2>2. ASSUME NEW t \in Slot, Is(t, "job")
        PROVE  /\ coord'[prom[t].gen].stopped => prom'[t].aborted
               /\ prom'[t].aborted /\ prom[t].req.force => coord'[prom[t].gen].everStopped
    <3>1. prom[t] \in AllJobs /\ JobOK(t)
      BY <2>2, Kinds DEF Inv, TypeOK, Is, SlotOK
    <3>2. PICK i \in Coordinator : i = prom[t].gen
      BY <3>1 DEF AllJobs
    <3>3. /\ coord[i].inFlight = t /\ (coord[i].stopped => prom[t].aborted)
          /\ prom[t].req.force => ForcedJob(prom[t])
      BY <2>2, <3>1, <3>2 DEF JobOK
    <3>4. CASE i = g
      BY <1>1, <1>3, <1>5, <1>6, <2>2, <3>2, <3>3, <3>4
    <3>5. CASE i # g
      <4>1. prom'[t].aborted = prom[t].aborted
        BY <1>1, <1>4, <1>5, <1>6, <2>2, <3>3, <3>5, Abiding DEF Slot, None
      <4> QED BY <1>6, <3>2, <3>3, <3>5, <4>1 DEF ForcedJob
    <3> QED BY <3>4, <3>5
  <2> QED BY <1>4, <1>5, <2>1, <2>2, ShakenSlots
<1>9. \A h \in Coordinator : FieldsOK(h)'
  <2> SUFFICES ASSUME NEW h \in Coordinator PROVE FieldsOK(h)'
    OBVIOUS
  <2>1. coord'[h].inFlight = coord[h].inFlight /\ FieldsOK(h)
    BY <1>3, <1>6 DEF Inv
  <2> QED BY <1>1, <1>3, <1>4, <1>5, <1>6, <2>1, Abiding DEF FieldsOK, Is, Coordinator
<1>10. \A h \in Coordinator : ClaimOK(h)'
  <2> SUFFICES ASSUME NEW h \in Coordinator PROVE ClaimOK(h)'
    OBVIOUS
  <2>1. CASE h = g
    BY <1>3, <1>4, <1>6, <2>1 DEF Inv, ClaimOK, Claims
  <2>2. CASE h # g
    BY <1>1, <1>4, <1>5, <1>6, <2>2, Abiding, ClaimsKept
  <2> QED BY <2>1, <2>2
<1> QED BY <1>7, <1>8, <1>9, <1>10 DEF Inv

\* Waking the checks after an abort shakes the promises no further.
LEMMA WokenShakes ==
  ASSUME Inv, NEW P, Shaken(P), NEW Q, Q \in {P, WakeCheck(P, current)}
  PROVE  Shaken(Q) /\ \A t \in Slot : Is(t, "job") => Q[t] = P[t]
<1>1. ASSUME NEW t \in Slot, Q = WakeCheck(P, current)
      PROVE  /\ Q[t] \in Promise /\ Q[t].kind = P[t].kind /\ (~Is(t, "free") => Q[t].gen = P[t].gen)
             /\ (~Is(t, "check") => Q[t] = P[t])
  <2>1. P[t] \in Promise /\ P[t].kind = prom[t].kind
    BY DEF Shaken
  <2>2. PICK w : w = [P[t] EXCEPT !.step = "woken"]
    OBVIOUS
  <2>3. P[t] \in Checks => w \in Checks /\ w.gen = P[t].gen
    BY <2>2 DEF Checks
  <2>4. Q[t] = IF P[t].kind = "check" /\ P[t].gen = current /\ P[t].step = "sleep" THEN w ELSE P[t]
    BY <1>1, <2>2 DEF WakeCheck
  <2>5. CASE P[t].kind = "check"
    <3>1. P[t] \in Checks
      BY <2>1, <2>5, Kinds
    <3> QED BY <2>1, <2>3, <2>4, <2>5, <3>1, Kinds DEF Is, Promise, Checks
  <2> QED BY <2>1, <2>4, <2>5 DEF Is
<1>2. CASE Q = P
  BY <1>2
<1>3. CASE Q = WakeCheck(P, current)
  <2>1. Q = [t \in Slot |-> Q[t]]
    BY <1>3 DEF WakeCheck
  <2>2. Q \in [Slot -> Promise]
    BY <1>1, <1>3, <2>1
  <2> QED BY <1>1, <1>3, <2>2 DEF Shaken, Is
<1> QED BY <1>2, <1>3

\* A new configuration for the coordinator there is.
LEMMA Updated ==
  ASSUME Inv, NEW auto \in world.autos, NEW policy \in world.policies,
         Update(auto, policy), UNCHANGED <<world, battery>>
  PROVE  Inv'
<1>1. PICK g \in Coordinator : g = current
  BY DEF Inv, TypeOK
<1>2. PICK c \in Fields : c = coord[g]
  BY DEF Inv, TypeOK
<1>3. auto \in BOOLEAN /\ policy \in BOOLEAN
  BY SwitchAssumption DEF World, Inv, TypeOK
<1>4. PICK drops \in BOOLEAN : drops = (~auto /\ ActiveRequest(c).source # "manual")
  OBVIOUS
<1>5. PICK revived : revived = IF c.stopped THEN [c EXCEPT !.stopped = FALSE, !.status = "idle"] ELSE c
  OBVIOUS
<1>6. /\ revived \in Fields /\ revived.inFlight = c.inFlight /\ ~revived.stopped
      /\ revived.everStopped = c.everStopped
      /\ revived.status = c.status \/ revived.status = "idle"
  BY <1>5 DEF Fields, State
<1>7. PICK told : told = [revived EXCEPT !.auto = auto, !.policy = policy]
  OBVIOUS
<1>8. /\ told \in Fields /\ told.inFlight = c.inFlight /\ ~told.stopped
      /\ told.everStopped = c.everStopped /\ told.auto = auto
      /\ told.status = c.status \/ told.status = "idle"
  <2>1. PICK half : half = [revived EXCEPT !.auto = auto]
    OBVIOUS
  <2>2. /\ half \in Fields /\ half.inFlight = c.inFlight /\ half.stopped = FALSE
        /\ half.everStopped = c.everStopped /\ half.auto = auto
        /\ half.status = c.status \/ half.status = "idle"
    BY <1>3, <1>6, <2>1 DEF Fields
  <2>3. told = [half EXCEPT !.policy = policy]
    BY <1>7, <2>1
  <2> QED BY <1>3, <2>2, <2>3 DEF Fields
<1>9. PICK dropped : dropped = [told EXCEPT !.pending = NoRequest,
                                            !.status = IF c.inFlight = None THEN "idle" ELSE @]
  OBVIOUS
<1>10. /\ dropped \in Fields /\ dropped.inFlight = c.inFlight /\ ~dropped.stopped
       /\ dropped.everStopped = c.everStopped /\ dropped.auto = auto
       /\ dropped.status = c.status \/ dropped.status = "idle"
  BY <1>8, <1>9 DEF Fields, State
<1>11. PICK d : d = IF drops THEN dropped ELSE told
  OBVIOUS
<1>12. /\ d \in Fields /\ d.inFlight = c.inFlight /\ ~d.stopped
       /\ d.everStopped = c.everStopped /\ d.auto = auto
       /\ d.status = c.status \/ d.status = "idle"
  BY <1>8, <1>10, <1>11
<1>13. coord' = [coord EXCEPT ![g] = d] /\ UNCHANGED <<world, barrier, current, battery>>
  BY <1>1, <1>2, <1>4, <1>5, <1>7, <1>9, <1>11 DEF Update
<1>14. PICK kept : kept = IF drops THEN Abort(prom, c) ELSE prom
  OBVIOUS
<1>15. prom' = IF policy # c.policy THEN WakeCheck(kept, current) ELSE kept
  BY <1>1, <1>2, <1>4, <1>14 DEF Update
<1>16. /\ Shaken(prom')
       /\ ~drops => \A t \in Slot : Is(t, "job") => prom'[t].aborted = prom[t].aborted
  <2>1. Shaken(kept) /\ (~drops => kept = prom)
    BY <1>1, <1>2, <1>14, Shakes
  <2> QED BY <1>15, <2>1, WokenShakes
<1>17. /\ coord'[g] = d /\ \A h \in Coordinator : h # g => coord'[h] = coord[h]
       /\ coord' \in [Coordinator -> Fields]
  BY <1>12, <1>13 DEF Inv, TypeOK
<1>18. TypeOK'
  BY <1>13, <1>16, <1>17 DEF Inv, TypeOK, Shaken
<1>19. \A s \in Slot : SlotOK(s)'
  <2>1. \A h \in Coordinator : h <= current =>
           /\ coord'[h].inFlight = coord[h].inFlight
           /\ coord[h].everStopped => coord'[h].everStopped
           /\ barrier'[h] = barrier[h]
    BY <1>2, <1>12, <1>13, <1>17
  <2>2. ASSUME NEW t \in Slot, Is(t, "job")
        PROVE  /\ coord'[prom[t].gen].stopped => prom'[t].aborted
               /\ prom'[t].aborted /\ prom[t].req.force => coord'[prom[t].gen].everStopped
    <3>1. prom[t] \in AllJobs /\ JobOK(t)
      BY <2>2, Kinds DEF Inv, TypeOK, Is, SlotOK
    <3>2. PICK i \in Coordinator : i = prom[t].gen
      BY <3>1 DEF AllJobs
    <3>3. /\ coord[i].inFlight = t /\ (coord[i].stopped => prom[t].aborted)
          /\ prom[t].req.force => ForcedJob(prom[t]) /\ prom[t].req.source = "manual"
      BY <2>2, <3>1, <3>2 DEF JobOK, AllJobs, Req
    <3>4. CASE i = g
      <4>1. prom[t].req.force => ~drops
        <5>1. c.inFlight = t /\ t # None
          BY <1>2, <3>3, <3>4 DEF Slot, None
        <5>2. ActiveRequest(c) = prom[t].req
          BY <5>1 DEF ActiveRequest
        <5> QED BY <1>4, <3>3, <5>2
      <4> QED BY <1>2, <1>12, <1>16, <1>17, <2>2, <3>2, <3>3, <3>4, <4>1 DEF ForcedJob
    <3>5. CASE i # g
      <4>1. prom'[t].aborted = prom[t].aborted
        BY <1>1, <1>13, <1>16, <1>17, <2>2, <3>3, <3>5, Abiding DEF Slot, None
      <4> QED BY <1>17, <3>2, <3>3, <3>5, <4>1 DEF ForcedJob
    <3> QED BY <3>4, <3>5
  <2> QED BY <1>13, <1>16, <2>1, <2>2, ShakenSlots
<1>20. \A h \in Coordinator : FieldsOK(h)'
  <2> SUFFICES ASSUME NEW h \in Coordinator PROVE FieldsOK(h)'
    OBVIOUS
  <2>1. coord'[h].inFlight = coord[h].inFlight /\ FieldsOK(h)
    BY <1>2, <1>12, <1>17 DEF Inv
  <2> QED BY <1>1, <1>12, <1>13, <1>16, <1>17, <2>1, Abiding DEF FieldsOK, Is, Coordinator
<1>21. \A h \in Coordinator : ClaimOK(h)'
  <2> SUFFICES ASSUME NEW h \in Coordinator, world.autos = {TRUE} PROVE ClaimOK(h)'
    BY <1>13 DEF ClaimOK
  <2>1. auto /\ ~drops
    BY <1>4
  <2>2. coord[h].inFlight # None => prom'[coord[h].inFlight].aborted = prom[coord[h].inFlight].aborted
    BY <1>13, <1>16, <1>17, <1>12, <1>2, <2>1, Abiding
  <2>3. CASE h = g
    BY <1>2, <1>12, <1>13, <1>16, <1>17, <2>1, <2>2, <2>3, ClaimsKept DEF Claims
  <2>4. CASE h # g
    BY <1>13, <1>16, <1>17, <2>2, <2>4, ClaimsKept
  <2> QED BY <2>3, <2>4
<1> QED BY <1>18, <1>19, <1>20, <1>21 DEF Inv

\* The fields of a new coordinator.
LEMMA NewFields ==
  ASSUME NEW auto \in BOOLEAN, NEW policy \in BOOLEAN, NEW c, c = NewCoordinator(auto, policy)
  PROVE  /\ c \in Fields /\ c.inFlight = None /\ ~c.stopped /\ c.status = "idle" /\ c.auto = auto
         /\ c.policy = policy
  BY DEF NewCoordinator, Fields, State

\* A new coordinator: the one before is stopped, and its run is the barrier of the new one.
LEMMA Replaced ==
  ASSUME Inv, NEW auto \in world.autos, NEW policy \in world.policies,
         Replace(auto, policy), UNCHANGED <<world, battery>>
  PROVE  Inv'
<1>1. PICK g \in Coordinator : g = current
  BY DEF Inv, TypeOK
<1>2. auto \in BOOLEAN /\ policy \in BOOLEAN /\ g < Coordinators
  BY <1>1, SwitchAssumption, BoundsAssumption DEF World, Inv, TypeOK, Replace, Coordinator
<1>3. PICK n \in Coordinator : n = g + 1 /\ n # g
  BY <1>1, <1>2, BoundsAssumption DEF Coordinator
<1>4. PICK d : d = Stopped(coord[g])
  OBVIOUS
<1>5. /\ d \in Fields /\ d.inFlight = coord[g].inFlight /\ d.stopped /\ d.everStopped
      /\ d.status = "stopped" /\ d.auto = coord[g].auto
  BY <1>4, StoppedFields DEF Inv, TypeOK
<1>6. PICK e : e = NewCoordinator(auto, policy)
  OBVIOUS
<1>7. e \in Fields /\ e.inFlight = None /\ ~e.stopped /\ e.status = "idle" /\ e.auto = auto
  BY <1>2, <1>6, NewFields
<1>8. /\ coord' = [coord EXCEPT ![g] = d, ![n] = e]
      /\ barrier' = [barrier EXCEPT ![n] = coord[g].inFlight]
      /\ current' = n /\ world' = world /\ battery' = battery
  BY <1>1, <1>3, <1>4, <1>6 DEF Replace
<1>9. /\ coord'[g] = d /\ coord'[n] = e
      /\ \A h \in Coordinator : h \notin {g, n} => coord'[h] = coord[h]
      /\ barrier'[n] = coord[g].inFlight
      /\ \A h \in Coordinator : h # n => barrier'[h] = barrier[h]
  BY <1>3, <1>8 DEF Inv, TypeOK
<1>10. /\ Shaken(prom')
       /\ \A t \in Slot : Is(t, "job") /\ t = coord[current].inFlight => prom'[t].aborted
  BY Shakes DEF Replace
<1>11. coord[n].inFlight = None /\ \A h \in Coordinator : h <= current => h # n
  BY <1>1, <1>3 DEF Inv, FieldsOK, Coordinator
<1>12. TypeOK'
  BY <1>5, <1>7, <1>8, <1>10 DEF Inv, TypeOK, Shaken, Fields
<1>13. \A s \in Slot : SlotOK(s)'
  <2>1. \A h \in Coordinator : h <= current =>
           /\ coord'[h].inFlight = coord[h].inFlight
           /\ coord[h].everStopped => coord'[h].everStopped
           /\ barrier'[h] = barrier[h]
    BY <1>5, <1>9, <1>11
  <2>2. ASSUME NEW t \in Slot, Is(t, "job")
        PROVE  /\ coord'[prom[t].gen].stopped => prom'[t].aborted
               /\ prom'[t].aborted /\ prom[t].req.force => coord'[prom[t].gen].everStopped
    <3>1. prom[t] \in AllJobs /\ JobOK(t)
      BY <2>2, Kinds DEF Inv, TypeOK, Is, SlotOK
    <3>2. PICK i \in Coordinator : i = prom[t].gen
      BY <3>1 DEF AllJobs
    <3>3. /\ coord[i].inFlight = t /\ (coord[i].stopped => prom[t].aborted)
          /\ prom[t].req.force => ForcedJob(prom[t])
      BY <2>2, <3>1, <3>2 DEF JobOK
    <3>4. i # n
      BY <1>11, <3>3 DEF Slot, None
    <3>5. CASE i = g
      BY <1>1, <1>5, <1>9, <1>10, <2>2, <3>2, <3>3, <3>5
    <3>6. CASE i # g
      <4>1. prom'[t].aborted = prom[t].aborted
        <5>1. coord'[i].inFlight = coord[i].inFlight /\ i # current /\ coord[i].inFlight # None
          BY <1>1, <1>9, <3>3, <3>4, <3>6 DEF Slot, None
        <5> QED BY <1>8, <1>10, <3>3, <5>1, Abiding
      <4> QED BY <1>9, <3>2, <3>3, <3>4, <3>6, <4>1 DEF ForcedJob
    <3> QED BY <3>5, <3>6
  <2>3. current' \in {current, current + 1}
    BY <1>1, <1>3, <1>8
  <2> QED BY <1>10, <2>1, <2>2, <2>3, ShakenSlots
<1>14. \A h \in Coordinator : FieldsOK(h)'
  <2> SUFFICES ASSUME NEW h \in Coordinator PROVE FieldsOK(h)'
    OBVIOUS
  <2>1. FieldsOK(h)
    BY DEF Inv
  <2>2. CASE h = g
    <3>1. coord'[h].inFlight = coord[h].inFlight
      BY <1>5, <1>9, <2>2
    <3>2. coord[g].inFlight # None =>
            prom'[coord[g].inFlight].kind = "job" /\ prom'[coord[g].inFlight].gen = g
      BY <1>8, <1>10, <2>2, <3>1, Abiding
    <3>3. ~(g > n)
      BY <1>3 DEF Coordinator
    <3> QED BY <1>3, <1>5, <1>8, <1>9, <2>2, <3>2, <3>3 DEF FieldsOK, Is
  <2>3. CASE h = n
    BY <1>3, <1>7, <1>8, <1>9, <2>3 DEF FieldsOK, Coordinator
  <2>4. CASE h \notin {g, n}
    <3>1. coord'[h] = coord[h] /\ barrier'[h] = barrier[h]
      BY <1>9, <2>4
    <3>2. h < n => h < g /\ h + 1 # n /\ h + 1 \in Coordinator
      BY <1>3, <2>4, BoundsAssumption DEF Coordinator
    <3>3. h > n => h > g
      BY <1>3, BoundsAssumption DEF Coordinator
    <3>4. coord[h].inFlight # None =>
            prom'[coord[h].inFlight].kind = "job" /\ prom'[coord[h].inFlight].gen = h
      BY <1>8, <1>10, <3>1, Abiding
    <3> QED BY <1>1, <1>8, <1>9, <2>1, <3>1, <3>2, <3>3, <3>4 DEF FieldsOK, Is
  <2> QED BY <2>2, <2>3, <2>4
<1>15. \A h \in Coordinator : ClaimOK(h)'
  <2> SUFFICES ASSUME NEW h \in Coordinator, world.autos = {TRUE} PROVE ClaimOK(h)'
    BY <1>8 DEF ClaimOK
  <2>1. CASE h = g
    BY <1>5, <1>8, <1>9, <2>1 DEF Inv, ClaimOK, Claims
  <2>2. CASE h = n
    BY <1>7, <1>8, <1>9, <2>2 DEF ClaimOK, Claims
  <2>3. CASE h \notin {g, n}
    BY <1>1, <1>8, <1>9, <1>10, <2>3, Abiding, ClaimsKept
  <2> QED BY <2>1, <2>2, <2>3
<1> QED BY <1>12, <1>13, <1>14, <1>15 DEF Inv

-----------------------------------------------------------------------------
(* The invariant.                                                          *)

\* The invariant holds at the start.
LEMMA InvInit == Init => Inv
<1> SUFFICES ASSUME Init PROVE Inv
  OBVIOUS
<1>1. PICK auto \in world.autos, policy \in world.policies :
        coord = [g \in Coordinator |->
                   IF g = 1 THEN NewCoordinator(auto, policy) ELSE NewCoordinator(TRUE, FALSE)]
  BY DEF Init
<1>2. world \in Worlds /\ auto \in BOOLEAN /\ policy \in BOOLEAN /\ world.policies \subseteq BOOLEAN
  BY SwitchAssumption DEF Init, World
<1>3. current \in Coordinator
  BY BoundsAssumption DEF Init, Coordinator
<1>4. ASSUME NEW g \in Coordinator
      PROVE  /\ coord[g] \in Fields /\ coord[g].inFlight = None /\ ~coord[g].stopped
             /\ coord[g].status = "idle" /\ coord[g].auto \in {auto, TRUE}
  BY <1>1, <1>2, NewFields
<1>5. prom = [s \in Slot |-> Free] /\ barrier = [g \in Coordinator |-> None] /\ current = 1
  BY DEF Init
<1>6. coord \in [Coordinator -> Fields] /\ battery \in BOOLEAN
  BY <1>1, <1>2, <1>4 DEF Init
<1>7. TypeOK
  BY <1>2, <1>3, <1>5, <1>6 DEF TypeOK, Promise
<1>8. \A s \in Slot : SlotOK(s)
  BY <1>5 DEF SlotOK, JobOK, CheckOK, CallOK, Is, Free
<1>9. \A g \in Coordinator : FieldsOK(g)
  <2> SUFFICES ASSUME NEW g \in Coordinator PROVE FieldsOK(g)
    OBVIOUS
  <2>1. ~(g < current) /\ barrier[g] = None
    BY <1>5, BoundsAssumption DEF Coordinator
  <2> QED BY <1>4, <2>1 DEF FieldsOK
<1>10. \A g \in Coordinator : ClaimOK(g)
  <2> SUFFICES ASSUME NEW g \in Coordinator, world.autos = {TRUE} PROVE ClaimOK(g)
    BY DEF ClaimOK
  <2>1. auto = TRUE
    OBVIOUS
  <2>2. coord[g].auto = TRUE
    BY <1>4, <2>1
  <2> QED BY <1>4, <2>2 DEF ClaimOK, Claims
<1> QED BY <1>7, <1>8, <1>9, <1>10 DEF Inv

\* Every step keeps it.
LEMMA InvNext == Inv /\ [Next]_vars => Inv'
<1> SUFFICES ASSUME Inv, [Next]_vars PROVE Inv'
  OBVIOUS
<1>1. CASE UNCHANGED vars
  <2>1. UNCHANGED <<world, prom, coord, barrier, current>> /\ battery' \in BOOLEAN
    BY <1>1 DEF vars, Inv, TypeOK
  <2> QED BY <2>1, Untouched
<1>2. ASSUME NEW s \in Slot, Callback(s) PROVE Inv'
  BY <1>2, Entered, PowerAnswered, JobAnswered, CleanedUp, CallSettled, CheckSettled DEF Callback
<1>3. ASSUME NEW s \in Slot, JobAnswer(s) PROVE Inv'
  BY <1>3, JobAnswered DEF JobAnswer
<1>4. ASSUME NEW s \in Slot, PowerAnswer(s) PROVE Inv'
  BY <1>4, PowerAnswered DEF PowerAnswer
<1>5. CASE Notify
  BY <1>5, Notified
<1>6. CASE Outside
  <2>1. world' = world
    BY <1>6 DEF Outside
  <2>2. ASSUME NEW req \in Requests, External(req) PROVE Inv'
    BY <2>1, <2>2, Called
  <2>3. ASSUME NEW auto \in world.autos, NEW policy \in world.policies, Reconfigure(auto, policy)
        PROVE  Inv'
    BY <2>1, <2>3, Updated, Replaced DEF Reconfigure
  <2>4. CASE Edit \/ Power
    <3>1. UNCHANGED <<world, prom, coord, barrier, current>> /\ battery' \in BOOLEAN
      BY <2>1, <2>4 DEF Edit, Power, Inv, TypeOK
    <3> QED BY <3>1, Untouched
  <2>5. CASE Stop
    BY <2>1, <2>5, Halted
  <2> QED BY <1>6, <2>2, <2>3, <2>4, <2>5 DEF Outside
<1> QED BY <1>1, <1>2, <1>3, <1>4, <1>5, <1>6 DEF Next

\* It holds throughout.
LEMMA Invariance == Spec => []Inv
  BY InvInit, InvNext, PTL DEF Spec

-----------------------------------------------------------------------------
(* What holds between two steps.                                           *)

\* A later coordinator waits until an earlier one's job is gone: no two jobs are pending.
LEMMA OneJob == Inv => \A i, j \in Jobs : i = j
<1> SUFFICES ASSUME Inv, NEW i \in Jobs, NEW j \in Jobs, i # j PROVE FALSE
  OBVIOUS
<1>1. \A s \in {i, j} : s \in Slot /\ s # None /\ prom[s] \in AllJobs /\ JobOK(s) /\ Is(s, "job")
  BY Kinds DEF Jobs, Slot, None, Is, Inv, TypeOK, SlotOK
<1>2. PICK g, h \in Coordinator : g = prom[i].gen /\ h = prom[j].gen
  BY <1>1 DEF AllJobs
<1>3. /\ coord[g].inFlight = i /\ coord[h].inFlight = j /\ Activated(g) /\ Activated(h)
      /\ g <= current /\ h <= current /\ g # h
  BY <1>1, <1>2 DEF JobOK, Inv, SlotOK, Is
<1>4. ASSUME NEW a \in Coordinator, NEW b \in Coordinator, a < b, b <= current, Activated(b),
             coord[a].inFlight # None
      PROVE  FALSE
  <2>1. a < current /\ a + 1 \in Coordinator /\ a + 1 <= b
    BY <1>4, BoundsAssumption DEF Coordinator, Inv, TypeOK
  <2>2. barrier[a + 1] = coord[a].inFlight
    BY <1>4, <2>1 DEF Inv, FieldsOK
  <2> QED BY <1>4, <2>1, <2>2 DEF Activated
<1>5. g < h \/ h < g
  BY <1>3 DEF Coordinator
<1> QED BY <1>1, <1>3, <1>4, <1>5

\* Two runs of one project never overlap, whichever of its coordinators began them.
THEOREM SerialRuns == Spec => []SerialJobs
<1>1. ASSUME Inv PROVE SerialJobs
  <2>1. Running \in SUBSET Slot /\ Running \subseteq Jobs
    BY DEF Running, Jobs
  <2>2. CASE Running = {}
    BY <2>2, FS_EmptySet DEF SerialJobs
  <2>3. CASE Running # {}
    <3>1. PICK j \in Running : TRUE
      BY <2>3
    <3>2. Running = {j}
      BY <1>1, <2>1, <3>1, OneJob
    <3>3. Cardinality({j}) = 1
      BY FS_Singleton
    <3> QED BY <3>2, <3>3 DEF SerialJobs
  <2> QED BY <2>2, <2>3
<1> QED BY <1>1, Invariance, PTL

\* A call for a rebuild is answered with a rebuild or a failure, unless a stop came.
THEOREM RebuildsHonoured == Spec => []ForceHonoured
<1>1. ASSUME Inv PROVE ForceHonoured
  BY <1>1 DEF Inv, SlotOK, CallOK, ForceHonoured, At, Is, Fulfilled
<1> QED BY <1>1, Invariance, PTL

\* Where automatic indexing stays on, a status that claims a run has a run.
THEOREM StatusBacked == Spec => []StatusHonest
<1>1. ASSUME Inv PROVE StatusHonest
  BY <1>1 DEF Inv, ClaimOK, StatusHonest, Claims
<1> QED BY <1>1, Invariance, PTL

-----------------------------------------------------------------------------
(* What a step does to the runs.                                           *)

\* A run that goes on enters an index operation only when it is not aborted.
RunKept(s) ==
  prom'[s].kind = "job" /\ Is(s, "job") =>
    /\ prom'[s].gen = prom[s].gen
    /\ prom'[s].step = "index" => prom[s].step = "index" \/ ~prom[s].aborted

\* A run begins at the end of a power check that did not find the machine on battery.
PowerChecked(s) ==
  \E b \in Slot :
    /\ Is(b, "check") /\ prom[b].gen = prom'[s].gen /\ prom[b].step \in NotPaused
    /\ prom'[b].on = s

\* A run that begins is that of an active coordinator, and has waited for its power check.
RunBegun(s) ==
  prom'[s].kind = "job" /\ ~Is(s, "job") =>
    /\ ~coord[prom'[s].gen].stopped
    /\ prom'[s].req.source \in {"startup", "watcher"} /\ coord[prom'[s].gen].policy => PowerChecked(s)

RunSteps == \A s \in Slot : RunKept(s) /\ RunBegun(s)

\* Promises that settle or wait keep their kind.
LEMMA KindKept ==
  ASSUME NEW p \in Promise, NEW step, NEW on, NEW out
  PROVE  /\ p.kind # "job" => Wait(p, step, on).kind # "job" /\ Settled(p, out).kind # "job"
         /\ p.kind = "job" => /\ Settled(p, out).kind = "job" /\ Settled(p, out).gen = p.gen
                              /\ Settled(p, out).step = "settled"
  BY DEF Promise, Free, Calls, Checks, AllJobs, Wait, Settled

\* Promises other than jobs move, and a run is aborted at most.
LEMMA NoRunMoved ==
  ASSUME \A s \in Slot : \/ ~Is(s, "job") /\ prom'[s].kind # "job"
                         \/ /\ Is(s, "job") /\ prom'[s].gen = prom[s].gen
                            /\ prom'[s].step = prom[s].step
                         \/ prom'[s] = prom[s]
  PROVE  RunSteps
  BY DEF RunSteps, RunKept, RunBegun, Is

\* enqueueRequest begins a run only for an active coordinator that has none.
LEMMA RequestRuns ==
  ASSUME Inv, NEW s, NEW req, NEW c, Asks(s, req), Given(s, c), EnqueueRequest(s, c, req),
         c.inFlight = None /\ req.source \in {"startup", "watcher"} /\ c.policy
           => Is(s, "check") /\ prom[s].step \in NotPaused
  PROVE  RunSteps
<1>1. /\ s \in Slot /\ prom[s] \in Calls \cup Checks /\ prom[s].kind \in {"call", "check"}
      /\ prom[s] \in Promise /\ prom \in [Slot -> Promise] /\ ~Is(s, "job")
  BY AskerFacts DEF Inv, TypeOK, Is
<1>2. PICK g \in Coordinator : g = prom[s].gen
  BY AskerFacts
<1>3. c \in Fields /\ c.inFlight = coord[g].inFlight /\ c.stopped = coord[g].stopped
      /\ c.policy = coord[g].policy
  BY <1>2, GivenFacts
<1>4. CASE prom' = [prom EXCEPT ![s] = Settled(@, "stopped")]
  BY <1>1, <1>4, KindKept, NoRunMoved
<1>5. ASSUME NEW step, NEW on, prom' = [prom EXCEPT ![s] = Wait(@, step, on)] PROVE RunSteps
  BY <1>1, <1>5, KindKept, NoRunMoved
<1>6. CASE prom' = Abort([prom EXCEPT ![s] = Wait(@, "forced", c.inFlight)], c) /\ c.inFlight # None
  <2>1. PICK j \in Slot : j = c.inFlight /\ Is(j, "job") /\ j # s /\ prom[j] \in AllJobs
    BY <1>1, <1>2, <1>3, <1>6, Kinds DEF Inv, FieldsOK, Is, Fields
  <2>2. PICK q : q = [prom[j] EXCEPT !.aborted = TRUE]
    OBVIOUS
  <2>3. q.gen = prom[j].gen /\ q.step = prom[j].step
    BY <2>1, <2>2 DEF AllJobs
  <2>4. prom' = [prom EXCEPT ![s] = Wait(@, "forced", j), ![j] = q]
    BY <1>1, <1>6, <2>1, <2>2 DEF Abort
  <2>5. Wait(prom[s], "forced", j).kind # "job"
    BY <1>1, KindKept
  <2> QED BY <1>1, <2>1, <2>3, <2>4, <2>5, NoRunMoved
<1>7. CASE StartRequest(s, c, req) /\ ~c.stopped /\ c.inFlight = None
  <2>1. PICK j \in Slot : j = Lowest(Unused) /\ Is(j, "free") /\ j # s
    <3>1. Unused # {} /\ Unused \in SUBSET Slot
      BY <1>7 DEF StartRequest, Unused
    <3> QED BY <1>1, <3>1, LowestIn DEF Unused, Is
  <2>2. prom' = [prom EXCEPT ![j] = Job(g, req), ![s] = Wait(@, "adopt", j)]
    BY <1>2, <1>7, <2>1 DEF StartRequest
  <2>3. Wait(prom[s], "adopt", j).kind # "job"
    BY <1>1, KindKept
  <2>4. prom'[j].gen = g /\ prom'[j].req = req
    BY <1>1, <2>1, <2>2 DEF Job
  <2>5. RunBegun(j) /\ RunKept(j)
    <3>1. prom'[s].on = j
      <4>1. prom'[s] = Wait(prom[s], "adopt", j)
        BY <1>1, <2>1, <2>2
      <4> QED BY <1>1, <4>1 DEF Wait, Calls, Checks
    <3>2. Is(s, "check") /\ prom[s].step \in NotPaused => PowerChecked(j)
      BY <1>1, <1>2, <2>4, <3>1 DEF PowerChecked
    <3> QED BY <1>3, <1>7, <2>1, <2>4, <3>2 DEF RunBegun, RunKept, Is
  <2>6. RunBegun(s) /\ RunKept(s)
    BY <1>1, <2>1, <2>2, <2>3 DEF RunBegun, RunKept
  <2>7. \A t \in Slot : t # s /\ t # j => prom'[t] = prom[t]
    BY <1>1, <2>2
  <2> QED BY <2>5, <2>6, <2>7 DEF RunSteps, RunBegun, RunKept, Is
<1> QED BY <1>4, <1>5, <1>6, <1>7 DEF EnqueueRequest

\* A request that enters.
LEMMA EnteredRuns == ASSUME Inv, NEW s \in Slot, Enter(s) PROVE RunSteps
<1>1. PICK g \in Coordinator : g = prom[s].gen /\ prom[s] \in Calls
  BY Kinds DEF Enter, At, Is, Inv, TypeOK, Calls
<1>2. PICK c \in Fields : c = coord[g]
  BY DEF Inv, TypeOK
<1>3. PICK req \in Req : req = prom[s].req
  BY <1>1 DEF Calls
<1>4. /\ Is(s, "call") /\ prom[s].step = "enter" /\ Activated(g) /\ prom \in [Slot -> Promise]
      /\ prom[s] \in Promise
  BY <1>1 DEF Enter, At, Is, Inv, TypeOK
<1>5. CASE EnqueueRequest(s, c, req) /\ (~ShouldDefer(c, req) \/ c.inFlight # None)
  <2>1. Asks(s, req)
    BY <1>1, <1>3, <1>4 DEF Asks, At, Is
  <2>2. c = [c EXCEPT !.deferred = c.deferred] /\ c.deferred \in DeferredReq \cup {NoRequest}
    BY DEF Fields
  <2>3. Given(s, c)
    BY <1>1, <1>2, <2>2 DEF Given
  <2>4. ~(c.inFlight = None /\ req.source \in {"startup", "watcher"} /\ c.policy)
    BY <1>5 DEF ShouldDefer
  <2> QED BY <1>5, <2>1, <2>3, <2>4, RequestRuns
<1>6. CASE prom' = [prom EXCEPT ![s] = Wait(@, "adopt", c.check)]
  BY <1>4, <1>6, KindKept, NoRunMoved DEF Is
<1>7. CASE \E q \in {Settled(Check(g), "stopped"), Check(g)} :
             /\ prom' = [prom EXCEPT ![s] = Wait(@, "adopt", Lowest(Unused)), ![Lowest(Unused)] = q]
             /\ Unused # {}
  <2>1. PICK b \in Slot : b = Lowest(Unused) /\ Is(b, "free") /\ b # s
    <3>1. Unused \in SUBSET Slot /\ Unused # {}
      BY <1>7 DEF Unused
    <3> QED BY <1>4, <3>1, LowestIn DEF Unused, Is
  <2>2. \A q \in {Settled(Check(g), "stopped"), Check(g)} : q.kind # "job"
    <3>1. Check(g) \in Checks /\ Settled(Check(g), "stopped") \in Checks
      BY <1>3, NewPromises, Settles DEF Outcome
    <3> QED BY <3>1 DEF Checks
  <2>3. Wait(prom[s], "adopt", b).kind # "job"
    BY <1>4, KindKept DEF Is
  <2> QED BY <1>4, <1>7, <2>1, <2>2, <2>3, NoRunMoved DEF Is
<1> QED BY <1>1, <1>2, <1>3, <1>5, <1>6, <1>7 DEF Enter

\* A battery check begins a run when its reading lets it, or when the policy is gone.
LEMMA PowerRuns ==
  ASSUME Inv, NEW b \in Slot, PowerRead(b) \/ AskEnds(b) \/ BatteryTimer(b) \/ Woken(b)
  PROVE  RunSteps
<1>1. /\ Is(b, "check") /\ prom[b].step \in LoopSteps /\ prom[b] \in Checks
      /\ prom \in [Slot -> Promise] /\ prom[b] \in Promise
  BY Kinds DEF PowerRead, AskEnds, BatteryTimer, Woken, At, Is, Inv, TypeOK, LoopSteps, NotPaused
<1>2. PICK g \in Coordinator : g = prom[b].gen
  BY <1>1 DEF Checks
<1>3. PICK c \in Fields : c = coord[g]
  BY DEF Inv, TypeOK
<1>4. CASE prom' = [prom EXCEPT ![b] = Settled(@, "stopped")]
  BY <1>1, <1>4, KindKept, NoRunMoved DEF Is
<1>5. ASSUME NEW step \in LoopSteps, prom' = [prom EXCEPT ![b].step = step] PROVE RunSteps
  <2>1. PICK q : q = [prom[b] EXCEPT !.step = step]
    OBVIOUS
  <2>2. prom' = [prom EXCEPT ![b] = q] /\ q.kind = "check"
    BY <1>1, <1>5, <2>1 DEF Checks, Is
  <2> QED BY <1>1, <2>2, NoRunMoved DEF Is
<1>6. CASE LeaveCheck(b) /\ c.deferred # NoRequest /\ (prom[b].step \in NotPaused \/ ~c.policy)
  <2>1. PICK req, d : req = c.deferred /\ d = [c EXCEPT !.deferred = NoRequest]
    OBVIOUS
  <2>2. req \in DeferredReq /\ req \in Req /\ d.policy = c.policy
    BY <1>6, <2>1 DEF Fields, DeferredReq
  <2>3. EnqueueRequest(b, d, req)
    BY <1>2, <1>3, <1>6, <2>1 DEF LeaveCheck
  <2>4. Asks(b, req) /\ Given(b, d)
    BY <1>1, <1>2, <1>3, <2>1, <2>2 DEF Asks, Given, Is, Inv, SlotOK, CheckOK
  <2> QED BY <1>1, <1>6, <2>2, <2>3, <2>4, RequestRuns
<1>7. LeaveCheck(b) /\ c.deferred = NoRequest => prom' = [prom EXCEPT ![b] = Settled(@, "stopped")]
  BY <1>2, <1>3 DEF LeaveCheck
<1>8. \/ LeaveCheck(b) /\ (prom[b].step \in NotPaused \/ ~c.policy)
      \/ prom' = [prom EXCEPT ![b] = Settled(@, "stopped")]
      \/ \E step \in LoopSteps : prom' = [prom EXCEPT ![b].step = step]
  BY <1>2, <1>3 DEF PowerRead, AskEnds, BatteryTimer, Woken, RecheckPower, LoopSteps
<1> QED BY <1>4, <1>5, <1>6, <1>7, <1>8

\* The steps of a job.
LEMMA JobRuns ==
  ASSUME Inv, NEW j \in Slot,
         FreshEnds(j) \/ IndexEnds(j) \/ StatusEnds(j) \/ DelayEnds(j) \/ DelayAborted(j)
  PROVE  RunSteps
<1>1. /\ Is(j, "job") /\ prom[j] \in AllJobs /\ prom \in [Slot -> Promise] /\ prom[j] \in Promise
  BY Kinds DEF FreshEnds, IndexEnds, StatusEnds, DelayEnds, DelayAborted, At, Is, Inv, TypeOK
<1>2. ASSUME NEW out, prom' = [prom EXCEPT ![j] = Settled(@, out)] PROVE RunSteps
  BY <1>1, <1>2, KindKept DEF RunSteps, RunKept, RunBegun, Is
<1>3. ASSUME NEW step \in {"fresh", "index", "status"}, prom' = [prom EXCEPT ![j].step = step],
             step = "index" => ~prom[j].aborted
      PROVE  RunSteps
  <2>1. PICK q : q = [prom[j] EXCEPT !.step = step]
    OBVIOUS
  <2>2. prom' = [prom EXCEPT ![j] = q] /\ q.gen = prom[j].gen /\ q.step = step
    BY <1>1, <1>3, <2>1 DEF AllJobs
  <2> QED BY <1>1, <1>3, <2>2 DEF RunSteps, RunKept, RunBegun, Is
<1>4. CASE prom' = [prom EXCEPT ![j].step = "delay", ![j].retry = @ + 1]
  <2>1. PICK q : q = [prom[j] EXCEPT !.step = "delay", !.retry = @ + 1]
    OBVIOUS
  <2>2. prom' = [prom EXCEPT ![j] = q] /\ q.gen = prom[j].gen /\ q.step = "delay"
    BY <1>1, <1>4, <2>1 DEF AllJobs
  <2> QED BY <1>1, <2>2 DEF RunSteps, RunKept, RunBegun, Is
<1>5. \/ \E out : prom' = [prom EXCEPT ![j] = Settled(@, out)]
      \/ \E step \in {"fresh", "index", "status"} :
           /\ prom' = [prom EXCEPT ![j].step = step]
           /\ step = "index" => ~prom[j].aborted
      \/ prom' = [prom EXCEPT ![j].step = "delay", ![j].retry = @ + 1]
  BY DEF FreshEnds, IndexEnds, StatusEnds, DelayEnds, DelayAborted, Ends, Cancelled, Caught, BeginIndex
<1> QED BY <1>2, <1>3, <1>4, <1>5

\* Jobs hear nothing.
LEMMA HeardRuns ==
  ASSUME Inv, NEW t \in Slot, NEW s, NEW out
  PROVE  /\ ~Is(t, "job") => Heard(t, s, out).kind # "job"
         /\ Is(t, "job") => Heard(t, s, out) = prom[t]
  BY KindKept DEF Heard, Waiting, Is, Inv, TypeOK

\* Calls and checks that settle begin no run.
LEMMA SettledRuns ==
  ASSUME Inv, NEW s \in Slot, SettleCall(s) \/ SettleCheck(s)
  PROVE  RunSteps
<1>1. \A t \in Slot : prom'[t] = Free \/ (\E g, req : prom'[t] = Call(g, req)) \/ prom'[t] = Heard(t, s, prom[s].out)
  BY DEF SettleCall, SettleCheck
<1>2. \A t \in Slot : \/ prom'[t].kind # "job"
                      \/ prom'[t] = Heard(t, s, prom[s].out)
  <2>1. Free.kind # "job" /\ \A g, req : Call(g, req).kind # "job"
    BY DEF Free, Call
  <2> QED BY <1>1, <2>1
<1>3. \A t \in Slot : prom'[t].kind = "job" => prom'[t] = prom[t]
  BY <1>2, HeardRuns
<1> QED BY <1>3 DEF RunSteps, RunKept, RunBegun, Is

\* The reactions of a settled job begin a forced run at most.
LEMMA CleanupRuns ==
  ASSUME Inv, NEW j \in Slot, Cleanup(j)
  PROVE  RunSteps
<1>1. Is(j, "job") /\ prom[j] \in AllJobs
  BY Kinds DEF Cleanup, At, Is, Inv, TypeOK
<1>2. PICK g \in Coordinator : g = prom[j].gen
  BY <1>1 DEF AllJobs
<1>3. PICK force : force = prom[CHOOSE s \in Forcing(j) : TRUE].req
  OBVIOUS
<1>4. ASSUME Forcing(j) # {} PROVE force.source = "manual"
  <2>1. PICK s \in Slot : s = (CHOOSE t \in Forcing(j) : TRUE) /\ Waiting(s, "forced", j)
    BY <1>4 DEF Forcing
  <2>2. prom[s] \in Calls /\ prom[s].req.force
    <3>1. prom[s] \in Calls \cup Checks /\ prom[s].step = "forced"
      BY <2>1, Kinds DEF Inv, TypeOK, Waiting
    <3>2. prom[s] \in Calls
      BY <3>1 DEF Checks
    <3> QED BY <3>1, <3>2 DEF Inv, SlotOK, CallOK, Is, Calls
  <2> QED BY <1>3, <2>1, <2>2 DEF Calls, Req
<1>5. ASSUME NEW t \in Slot
      PROVE  \/ prom'[t] = Free \/ \E req : prom'[t] = Call(g, req)
             \/ prom'[t] = Job(g, force) /\ Forcing(j) # {} /\ ~coord[g].stopped /\ Is(t, "free")
             \/ \E step, on, out : /\ prom'[t] \in {Settled(prom[t], out), Wait(prom[t], step, on)}
                                   /\ Waiting(t, "follow", j) \/ Waiting(t, "forced", j)
             \/ \E out : prom'[t] = Heard(t, j, out)
  <2> DEFINE g1 == prom[j].gen
             c1 == coord[g1]
             req1 == IF c1.inFlight = j THEN Requeued(c1) ELSE NoRequest
             starts1 == Forcing(j) # {} /\ ~c1.stopped
             force1 == prom[CHOOSE s \in Forcing(j) : TRUE].req
             f1 == Lowest(Unused)
             n1 == Lowest(Unused \ {f1})
             followed1 == Cleared(c1, j, req1, f1)
             job1 == IF followed1.inFlight # None THEN followed1.inFlight ELSE n1
             now1(s) == CASE s = j -> Free
                          [] s = f1 /\ req1 # NoRequest -> Call(g1, req1)
                          [] s = n1 /\ starts1 /\ job1 = n1 -> Job(g1, force1)
                          [] Waiting(s, "follow", j) -> Released(s, c1, followed1.followUp)
                          [] Waiting(s, "forced", j) -> Released(s, c1, job1)
                          [] OTHER -> Heard(s, j, prom[j].out)
  <2>1. prom' = [s \in Slot |-> now1(s)]
    BY Zenon DEF Cleanup
  <2>2. g1 = g /\ force1 = force /\ (starts1 => Forcing(j) # {} /\ ~coord[g].stopped)
        /\ Is(n1, "free")
    <3>1. n1 \in Unused
      BY TwoFree DEF Cleanup
    <3> QED BY <1>2, <1>3, <3>1 DEF Unused
  <2>3. \A c, next : \E step, on, out : Released(t, c, next) \in {Settled(prom[t], out), Wait(prom[t], step, on)}
    BY DEF Released
  <2> HIDE DEF g1, c1, req1, starts1, force1, f1, n1, followed1, job1
  <2> QED BY <2>1, <2>2, <2>3
<1>6. ASSUME NEW t \in Slot PROVE RunKept(t) /\ RunBegun(t)
  <2>1. prom[t] \in Promise
    BY DEF Inv, TypeOK
  <2>2. CASE prom'[t].kind # "job" \/ prom'[t] = prom[t]
    BY <2>2 DEF RunKept, RunBegun, Is
  <2>3. CASE prom'[t] = Job(g, force) /\ Forcing(j) # {} /\ ~coord[g].stopped /\ Is(t, "free")
    <3>1. prom'[t].gen = g /\ prom'[t].req = force /\ ~Is(t, "job")
      BY <2>3 DEF Job, Is
    <3> QED BY <1>4, <2>3, <3>1 DEF RunKept, RunBegun
  <2>4. ASSUME NEW step, NEW on, NEW out,
               prom'[t] \in {Settled(prom[t], out), Wait(prom[t], step, on)},
               Waiting(t, "follow", j) \/ Waiting(t, "forced", j)
        PROVE  prom'[t].kind # "job"
    BY <2>1, <2>4, KindKept DEF Waiting
  <2>5. ASSUME NEW out, prom'[t] = Heard(t, j, out)
        PROVE  prom'[t].kind # "job" \/ prom'[t] = prom[t]
    BY <2>5, HeardRuns
  <2>6. Free.kind # "job" /\ \A req : Call(g, req).kind # "job"
    BY DEF Free, Call
  <2> QED BY <1>5, <2>2, <2>3, <2>4, <2>5, <2>6
<1> QED BY <1>6 DEF RunSteps

\* The callers, the watcher, stops and configurations begin no run.
LEMMA OutsideRuns ==
  ASSUME Inv, Notify \/ Outside
  PROVE  RunSteps
<1>1. CASE prom' = prom
  BY <1>1 DEF RunSteps, RunKept, RunBegun, Is
<1>2. ASSUME NEW req, prom' = [prom EXCEPT ![Lowest(Unused)] = Call(current, req)] PROVE RunSteps
  <2>1. \A t \in Slot : prom'[t] = prom[t] \/ prom'[t] = Call(current, req)
    BY <1>2 DEF Inv, TypeOK
  <2>2. Call(current, req).kind # "job"
    BY DEF Call
  <2> QED BY <2>1, <2>2 DEF RunSteps, RunKept, RunBegun, Is
<1>3. CASE Shaken(prom')
  BY <1>3 DEF Shaken, RunSteps, RunKept, RunBegun, Is
<1>4. ASSUME NEW auto, NEW policy, Update(auto, policy) PROVE Shaken(prom')
  <2>1. PICK kept \in {prom, Abort(prom, coord[current])} : prom' \in {kept, WakeCheck(kept, current)}
    BY <1>4 DEF Update
  <2>2. Shaken(kept)
    BY Shakes
  <2> QED BY <2>1, <2>2, WokenShakes
<1>5. ASSUME NEW auto, NEW policy, Replace(auto, policy) PROVE Shaken(prom')
  BY <1>5, Shakes DEF Replace
<1>6. Stop => Shaken(prom')
  BY Shakes DEF Stop
<1> QED BY <1>1, <1>2, <1>3, <1>4, <1>5, <1>6 DEF Notify, Outside, External, Ask, Edit, Power, Reconfigure

\* All steps.
LEMMA NextRuns == Inv /\ [Next]_vars => RunSteps
<1> SUFFICES ASSUME Inv, [Next]_vars PROVE RunSteps
  OBVIOUS
<1>1. CASE UNCHANGED vars
  BY <1>1 DEF vars, RunSteps, RunKept, RunBegun, Is
<1>2. CASE Next
  BY <1>2, EnteredRuns, PowerRuns, JobRuns, CleanupRuns, SettledRuns, OutsideRuns
     DEF Next, Callback, JobAnswer, PowerAnswer
<1> QED BY <1>1, <1>2

\* A coordinator that is stopped, and stays so, begins no run and no index operation, and
\* its status says that it is stopped.
THEOREM StopIsTerminal == Spec => StopTerminal
<1>1. ASSUME Inv, Inv', RunSteps, NEW g \in Coordinator, coord[g].stopped, coord'[g].stopped
      PROVE  /\ coord'[g].status = "stopped"
             /\ \A s \in Slot :
                  prom'[s].kind = "job" /\ prom'[s].gen = g /\ prom'[s].step # "settled" =>
                    /\ Is(s, "job")
                    /\ prom'[s].step = "index" => prom[s].step = "index"
  <2>1. coord'[g].status = "stopped"
    BY <1>1 DEF Inv, FieldsOK
  <2>2. ASSUME NEW s \in Slot, prom'[s].kind = "job", prom'[s].gen = g
        PROVE  Is(s, "job") /\ (prom'[s].step = "index" => prom[s].step = "index")
    <3>1. RunKept(s) /\ RunBegun(s) /\ JobOK(s)
      BY <1>1 DEF RunSteps, Inv, SlotOK
    <3> QED BY <1>1, <2>2, <3>1 DEF RunKept, RunBegun, JobOK
  <2> QED BY <2>1, <2>2
<1>2. Inv /\ Inv' /\ [Next]_vars =>
        [\A g \in Coordinator :
           coord[g].stopped /\ coord'[g].stopped =>
             /\ coord'[g].status = "stopped"
             /\ \A s \in Slot :
                  prom'[s].kind = "job" /\ prom'[s].gen = g /\ prom'[s].step # "settled" =>
                    /\ Is(s, "job")
                    /\ prom'[s].step = "index" => prom[s].step = "index"]_vars
  BY <1>1, NextRuns
<1> QED BY <1>2, Invariance, PTL DEF Spec, StopTerminal

\* A run for startup or watcher requests begins at the end of a power check whose reading
\* said AC or failed, and the check waits for it, where there is a policy.
THEOREM BatteryIsHeld == Spec => BatteryHeld
<1>1. Inv /\ [Next]_vars =>
        [\A s \in Slot :
           /\ prom'[s].kind = "job" /\ ~Is(s, "job")
           /\ prom'[s].req.source \in {"startup", "watcher"}
           /\ coord[prom'[s].gen].policy
           => \E b \in Slot :
                /\ Is(b, "check") /\ prom[b].gen = prom'[s].gen /\ prom[b].step \in NotPaused
                /\ prom'[b].on = s]_vars
  BY NextRuns DEF RunSteps, RunBegun, PowerChecked
<1> QED BY <1>1, Invariance, PTL DEF Spec, BatteryHeld
=============================================================================
