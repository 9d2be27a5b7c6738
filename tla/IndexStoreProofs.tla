------------------------- MODULE IndexStoreProofs -------------------------
(***************************************************************************)
(* Proofs that the six artifacts of an index agree (ArtifactsAgree), that  *)
(* an index reported current holds the checked-out tree                    *)
(* (CurrentMeansIndexed), and that a run indexes what it scanned           *)
(* (UncheckedRunIndexes), for any files, texts, branches and processes,    *)
(* and any number of edits, checkouts, kills and failed requests.          *)
(*                                                                         *)
(* The invariant has one assertion for every place of a run.  All but two  *)
(* of them say the same of different values: that a database, the keys of  *)
(* its vectors, the hash caches and the failed batches are Whole.  Before  *)
(* a run those are the artifacts on disk; while it publishes they are what *)
(* the artifacts will be when it ends; while it rebuilds the vectors they  *)
(* are, besides, what is left when the rebuild throws.                     *)
(***************************************************************************)
EXTENDS IndexStore, SequenceTheorems, TLAPS

-----------------------------------------------------------------------------
(* What the artifacts say together.                                        *)

\* The namespace of a branch, and the branches that a world may have indexed.
Place(w, b) == IF w.scope = "global" THEN Shared ELSE b

TrackedIn(w, b) == IF w.checkouts THEN Branch ELSE {b}

Words(i) == IF i = None THEN {} ELSE i

\* Failed chunks have their rows, and are not in the catalog.
Apart(d, b, records) == records \subseteq d.chunks /\ d.catalog[b] \cap records = {}

\* The chunks of the hashed files are in the branch's catalog or have failed; of the files
\* outside `present` they may have left the catalog.
Accounted(w, d, b, cache, records, present) ==
  "health" \notin w.ops /\ b \in d.versions =>
    /\ d.catalog[b] \cup records \subseteq ChunksOf(cache)
    /\ \A c \in ChunksOf(cache) : c[1] \in present => c \in d.catalog[b] \cup records

\* The data has the format of its scope, or there is none.
Marked(w, d, keys, caches) ==
  \/ w.scope = "global"
  \/ d.format
  \/ keys = {} /\ d.chunks = {} /\ \A k \in Namespace : caches[k] = NoHashes

Whole(w, tracked, strays, own, d, keys, caches, records, present) ==
  /\ keys = Referenced(d.catalog)
  /\ keys \subseteq d.chunks /\ TextsOf(keys) \subseteq d.embeddings
  /\ \A b \in Branch \ tracked : d.catalog[b] = {}
  /\ Marked(w, d, keys, caches)
  /\ \A b \in tracked :
       /\ Apart(d, b, records[Place(w, b)])
       /\ b \notin strays => Accounted(w, d, b, caches[Place(w, b)], records[Place(w, b)],
                                       IF b = own THEN present ELSE File)

Tracked == TrackedIn(world, branch)

\* The files whose chunks no health check of this run has dropped.
Looked == IF world.gc THEN Present(tree) ELSE File

WholeNow(d, keys, caches, records, present) ==
  Whole(world, Tracked, strayed, run.branch, d, keys, caches, records, present)

\* The vector files are a pair, and the keyword index has every word of them.
Paired(vec, meta, words) ==
  meta = vec /\ (IF vec = None THEN {} ELSE vec.keys) \subseteq Words(words)

Blank ==
  /\ db = None /\ pub.vec = None /\ pub.meta = None
  /\ \A k \in Namespace : hashes[k] = NoHashes /\ failed[k] = {}

\* Between two runs.
Resting ==
  \/ crashed
  \/ Blank
  \/ /\ db # None /\ Paired(pub.vec, pub.meta, inverted)
     /\ \E own \in Branch :
          Whole(world, Tracked, strayed, own, db, Keys(pub), hashes, failed, File)

Shown == Paired(pub.vec, pub.meta, inverted) /\ Keys(pub) = run.mem

Held == run.mem \subseteq inv[run.by]

Settled == WholeNow(db, run.mem, hashes, failed, Looked) /\ Shown /\ Held /\ run.compatible

\* A run reads and writes the files of one branch, unless a query has moved it between
\* branches; those have strayed.
Together == run.now = run.branch /\ run.file = run.branch

Moved == run.branch \in strayed /\ run.now \in strayed /\ run.file \in strayed

Placed ==
  /\ run.branch \in Tracked /\ run.now \in Tracked /\ run.file \in Tracked
  /\ Together \/ Moved
  /\ world.races = {} => run.now = branch

-----------------------------------------------------------------------------
(* The places of a run.                                                    *)

Cons(s, t) == <<s>> \o t

ToInverted(k) == Cons("putInverted", k)
ToMeta(k) == Cons("putMeta", ToInverted(k))
ToVec(k) == Cons("putVec", ToMeta(k))

ToDropMeta(k) == Cons("dropMeta", k)
ToDropVec(k) == Cons("dropVec", ToDropMeta(k))
AgainMeta(k) == Cons("putMeta", ToDropVec(k))
AgainVec(k) == Cons("putVec", AgainMeta(k))
ToAside(k) == Cons("setAside", AgainVec(k))

Endings == {<<>>, <<"metadata">>}
ToCommit(m) == Cons("commit", m)
ToFailed(m) == Cons("putFailed", ToCommit(m))
ToHashes(m) == Cons("putHashes", ToFailed(m))

ToClearDb == Cons("clearDb", Indexing)
ToWipe == Cons("wipe", ToClearDb)

\* What is left of a run after one health check, and after the rebuild it asks for.
Rests(op) == IF op = "health" THEN {<<>>, <<"health">>} ELSE {Plan(op)}
ToGc(r) == Cons("gc", r)
ToRows(r) == Cons("rows", ToVec(ToGc(r)))

\* The vectors and the keyword index are published, before k.
Publishing(k) ==
  \/ run.todo = ToVec(k)
  \/ run.todo = ToMeta(k) /\ pub.vec # None /\ Keys(pub) = run.mem
  \/ run.todo = ToInverted(k) /\ pub.meta = pub.vec /\ Keys(pub) = run.mem
  \/ run.todo = k /\ Shown

\* The index that a rebuild that throws leaves behind.
Restorable(vec, meta) ==
  world.faults # {} =>
    /\ Paired(vec, meta, inverted)
    /\ WholeNow(db, IF vec = None THEN {} ELSE vec.keys, hashes, failed, File)

\* The vectors are rebuilt, before k.
Restoring(k) ==
  \/ run.todo = ToAside(k) /\ Restorable(pub.vec, pub.meta)
  \/ run.todo \in {AgainVec(k), AgainMeta(k)} /\ Restorable(pub.bakVec, pub.bakMeta)
  \/ run.todo \in {ToDropVec(k), ToDropMeta(k)}

ReadyPhase ==
  /\ \/ run.todo \in Rests(run.op) \/ run.todo = Indexing
     \/ world.gc /\ \E r \in Rests(run.op) : run.todo = Cons("health", r)
  /\ Settled
  /\ run.todo = Indexing \/ Together

ScannedPhase ==
  /\ run.todo = <<"embed", "catalog">>
  /\ Settled
  /\ run.seen = tree
  /\ run.previous = db.catalog[run.branch] /\ run.existing = run.previous
  /\ run.tx = db
  /\ run.changed \subseteq Present(tree)
  /\ run.branch \notin strayed => run.changed = Changed(db)

Chosen == run.current \ run.lost

EmbeddedPhase ==
  /\ run.todo = <<"catalog">>
  /\ WholeNow(db, Keys(pub), hashes, failed, Looked)
  /\ Paired(pub.vec, pub.meta, inverted) /\ Held
  /\ run.seen \in Tree /\ run.tx # None
  /\ run.previous = db.catalog[run.branch] /\ run.existing = run.previous
  /\ run.tx.catalog = db.catalog /\ run.tx.versions = db.versions
  /\ run.mem = Keys(pub) \cup Chosen
  /\ run.mem \cup run.records \subseteq run.tx.chunks
  /\ TextsOf(run.mem) \subseteq run.tx.embeddings
  /\ run.records \cap (Chosen \cup run.previous) = {}
  /\ "health" \notin world.ops /\ run.branch \notin strayed =>
       Chosen \cup run.records = ChunksOf(run.seen)
  /\ ~run.embeds => Chosen \subseteq run.previous /\ run.lost = {}
  /\ ~world.fails => run.records = {}

\* The database, the hash caches and the failed batches once the run has ended.
Finished(d) == [d EXCEPT !.versions = @ \cup {run.branch}, !.format = TRUE]
FailedBranch == IF run.records = {} THEN run.now ELSE run.file
NewHashes == [hashes EXCEPT ![Key(run.now)] = run.seen]
NewFailed == [failed EXCEPT ![Key(FailedBranch)] = run.records]

Target(m) ==
  /\ run.seen \in Tree /\ run.tx # None
  /\ Held
  /\ ~world.fails => run.records = {}
  /\ WholeNow(Finished(run.tx), run.mem, NewHashes, NewFailed, File)
  /\ m = <<>> => run.tx = Finished(run.tx)

PublishPhase(m) ==
  /\ Target(m)
  /\ \/ Restoring(ToVec(ToHashes(m)))
     \/ Publishing(ToHashes(m))
     \/ run.todo = ToFailed(m) /\ Shown /\ hashes = NewHashes
     \/ run.todo = ToCommit(m) /\ Shown /\ hashes = NewHashes /\ failed = NewFailed

\* What UncheckedRunIndexes says of a run that is about to end.
Accomplished ==
  run.op \in {"index", "force"} /\ "health" \notin world.ops /\ run.branch \notin strayed =>
    db.catalog[run.branch] \cup run.records = ChunksOf(run.seen)

MetadataPhase ==
  /\ run.todo = <<"metadata">>
  /\ Shown /\ WholeNow(Finished(db), run.mem, hashes, failed, File) /\ Accomplished

EndPhase ==
  /\ run.todo = <<>>
  /\ Shown /\ WholeNow(db, run.mem, hashes, failed, File) /\ Accomplished

HealthPhase(r) ==
  /\ WholeNow(db, run.mem, hashes, failed, Looked) /\ Held /\ run.compatible
  /\ ~world.fails /\ world.faults = {} /\ Together
  /\ \/ Restoring(ToRows(r)) /\ run.drop \cap run.mem = {}
     \/ run.todo = ToRows(r) /\ run.drop \cap run.mem = {}
     \/ Publishing(ToGc(r))

ForcePhase ==
  /\ run.mem = {} /\ Together
  /\ \/ Publishing(ToWipe)
     \/ run.todo = ToClearDb /\ Shown /\ \A k \in Namespace : hashes[k] = NoHashes

RetryPhase ==
  /\ run.op = "retry" /\ Held
  /\ ~world.fails => run.records = {}
  /\ \/ run.todo = <<"putFailed">> /\ Shown
        /\ WholeNow(db, run.mem, hashes, NewFailed, File)
     \/ run.todo = Cons("putFailed", ToVec(<<>>))
        /\ WholeNow(db, run.mem, hashes, NewFailed, File)
     \/ Publishing(<<>>) /\ WholeNow(db, run.mem, hashes, failed, File)

InRun ==
  \/ ReadyPhase \/ ScannedPhase \/ EmbeddedPhase
  \/ \E m \in Endings : PublishPhase(m)
  \/ MetadataPhase \/ EndPhase
  \/ \E r \in Rests(run.op) : HealthPhase(r)
  \/ ForcePhase \/ RetryPhase

-----------------------------------------------------------------------------
(* The invariant.                                                          *)

Typed ==
  /\ world \in World /\ Calm(world)
  /\ refs \in [Branch -> Tree] /\ branch \in Branch /\ strayed \subseteq Branch
  /\ pub \in [vec : Publication \cup {None}, meta : Publication \cup {None},
              bakVec : Publication \cup {None}, bakMeta : Publication \cup {None}]
  /\ inverted \in (SUBSET Chunk) \cup {None}
  /\ hashes \in [Namespace -> Tree]
  /\ failed \in [Namespace -> SUBSET Chunk]
  /\ db \in Database \cup {None}
  /\ mode \in [Proc -> {"none", "writer"}]
  /\ inv \in [Proc -> SUBSET Chunk]
  /\ gone \in [Proc -> Database \cup {None}]
  /\ crashed \in BOOLEAN
  /\ run \in Mutation \cup {None}

Handles ==
  /\ holder = IF run = None THEN None ELSE run.by
  /\ \A q \in Proc : mode[q] = "writer" => q \in world.procs /\ db # None
  /\ \A q \in Proc : gone[q] # None => world.reads
  /\ run # None => /\ run.by \in world.procs /\ run.op \in world.ops
                   /\ Placed /\ gone[run.by] = None
  /\ crashed => world.kills
  /\ ~world.fails => \A k \in Namespace : failed[k] = {}

Progress ==
  \/ run = None /\ Resting
  \/ run # None /\ run.todo = <<"open">> /\ Resting
  \/ run # None /\ db # None /\ InRun

IInv == Typed /\ Handles /\ Progress

-----------------------------------------------------------------------------
(* The rest of a run, as a list of steps.                                  *)

\* One step before the others.
LEMMA ConsFacts ==
  ASSUME NEW S, NEW s \in S, NEW t \in Seq(S)
  PROVE  /\ Cons(s, t) \in Seq(S) /\ Cons(s, t) # <<>>
         /\ Head(Cons(s, t)) = s /\ Tail(Cons(s, t)) = t
<1>1. <<s>> \in Seq(S)
  OBVIOUS
<1>2. Len(<<s>>) = 1 /\ <<s>>[1] = s /\ Len(t) \in Nat
  OBVIOUS
<1>3. /\ Cons(s, t) \in Seq(S) /\ Len(Cons(s, t)) = Len(<<s>>) + Len(t)
      /\ \A i \in 1 .. Len(<<s>>) + Len(t) :
           Cons(s, t)[i] = IF i <= Len(<<s>>) THEN <<s>>[i] ELSE t[i - Len(<<s>>)]
  <2>1. DEFINE u == <<s>>
  <2>2. u \in Seq(S)
    BY <1>1
  <2> HIDE DEF u
  <2>3. /\ u \o t \in Seq(S) /\ Len(u \o t) = Len(u) + Len(t)
        /\ \A i \in 1 .. Len(u) + Len(t) : (u \o t)[i] = IF i <= Len(u) THEN u[i] ELSE t[i - Len(u)]
    BY <2>2, ConcatProperties
  <2> QED BY <2>3 DEF u, Cons
<1>4. Cons(s, t)[1] = s
  BY <1>2, <1>3
<1>5. Cons(s, t) # <<>>
  BY <1>2, <1>3
<1>6. Head(Cons(s, t)) = s
  BY <1>2, <1>3, <1>4, <1>5
<1>7. /\ Tail(Cons(s, t)) \in Seq(S) /\ Len(Tail(Cons(s, t))) = Len(Cons(s, t)) - 1
      /\ \A i \in 1 .. Len(Tail(Cons(s, t))) : Tail(Cons(s, t))[i] = Cons(s, t)[i + 1]
  BY <1>3, <1>5, HeadTailProperties
<1>8. /\ Len(Tail(Cons(s, t))) = Len(t)
      /\ \A i \in 1 .. Len(t) : Tail(Cons(s, t))[i] = t[i]
  BY <1>2, <1>3, <1>7
<1>9. Tail(Cons(s, t)) = t
  BY <1>7, <1>8, SeqEqual, Zenon
<1> QED BY <1>3, <1>5, <1>6, <1>9

\* The same of the names of steps.
LEMMA StepFacts ==
  ASSUME NEW s \in StepName, NEW t \in Seq(StepName)
  PROVE  /\ Cons(s, t) \in Seq(StepName) /\ Cons(s, t) # <<>>
         /\ Head(Cons(s, t)) = s /\ Tail(Cons(s, t)) = t
BY ConsFacts

\* The lists of the model, one step after the other.
LEMMA Lists ==
  ASSUME NEW k \in Seq(StepName)
  PROVE  /\ Saving \o k = ToVec(k)
         /\ Rebuilding \o k = ToAside(k)
         /\ <<>> \o k = k
         /\ <<"gc">> \o k = ToGc(k)
         /\ <<"health">> \o k = Cons("health", k)
         /\ <<"putHashes", "putFailed", "commit">> \o k = ToHashes(k)
<1>1. Saving \o k = ToVec(k)
  BY DEF Saving, ToVec, ToMeta, ToInverted, Cons
<1>2. Rebuilding \o k = ToAside(k)
  BY DEF Rebuilding, ToAside, AgainVec, AgainMeta, ToDropVec, ToDropMeta, Cons
<1>3. <<>> \o k = k
  BY ConcatEmptySeq
<1>4. <<"putHashes", "putFailed", "commit">> \o k = ToHashes(k)
  BY DEF ToHashes, ToFailed, ToCommit, Cons
<1> QED BY <1>1, <1>2, <1>3, <1>4 DEF ToGc, Cons

\* The sequences of a run are made of step names, and read as the continuations above.
LEMMA Literals ==
  /\ Indexing \in Seq(StepName) /\ <<"embed", "catalog">> \in Seq(StepName)
  /\ <<"catalog">> \in Seq(StepName) /\ <<"metadata">> \in Seq(StepName) /\ <<>> \in Seq(StepName)
  /\ Indexing = Cons("scan", <<"embed", "catalog">>)
  /\ <<"embed", "catalog">> = Cons("embed", <<"catalog">>)
  /\ <<"catalog">> = Cons("catalog", <<>>)
  /\ <<"metadata">> = Cons("metadata", <<>>)
  /\ <<"open">> = Cons("open", <<>>)
  /\ <<"putFailed">> = Cons("putFailed", <<>>)
  /\ <<"health">> = Cons("health", <<>>)
  /\ <<"retry">> = Cons("retry", <<>>)
  /\ Plan("index") = Indexing
  /\ Plan("retry") = <<"retry">>
  /\ Plan("health") = <<"health">>
  /\ Plan("force") = Cons("clear", ToVec(ToWipe))
<1>2. /\ Indexing = Cons("scan", <<"embed", "catalog">>)
      /\ <<"embed", "catalog">> = Cons("embed", <<"catalog">>)
      /\ <<"catalog">> = Cons("catalog", <<>>)
      /\ <<"metadata">> = Cons("metadata", <<>>)
      /\ <<"open">> = Cons("open", <<>>)
      /\ <<"putFailed">> = Cons("putFailed", <<>>)
      /\ <<"health">> = Cons("health", <<>>)
      /\ <<"retry">> = Cons("retry", <<>>)
  BY DEF Indexing, Cons
<1>1. /\ <<>> \in Seq(StepName)
      /\ Indexing \in Seq(StepName) /\ <<"embed", "catalog">> \in Seq(StepName)
      /\ <<"catalog">> \in Seq(StepName) /\ <<"metadata">> \in Seq(StepName)
  <2>1. <<>> \in Seq(StepName)
    OBVIOUS
  <2>2. <<"catalog">> \in Seq(StepName) /\ <<"metadata">> \in Seq(StepName)
    BY <1>2, <2>1, StepFacts DEF StepName
  <2>3. <<"embed", "catalog">> \in Seq(StepName)
    BY <1>2, <2>2, StepFacts DEF StepName
  <2>4. Indexing \in Seq(StepName)
    BY <1>2, <2>3, StepFacts DEF StepName
  <2> QED BY <2>1, <2>2, <2>3, <2>4
<1>3. Plan("index") = Indexing /\ Plan("retry") = <<"retry">> /\ Plan("health") = <<"health">>
  BY DEF Plan
<1>4. Plan("force") = Cons("clear", ToVec(ToWipe))
  <2>1. Plan("force") = <<"clear">> \o Saving \o <<"wipe", "clearDb">> \o Indexing
    BY DEF Plan
  <2> QED BY <2>1 DEF Saving, Indexing, ToVec, ToMeta, ToInverted, ToWipe, ToClearDb, Cons
<1> QED BY <1>1, <1>2, <1>3, <1>4

\* The places of a publication, of a rebuild, and at the end of a run: the step that is
\* next there, and the place after it.
LEMMA Places ==
  ASSUME NEW k \in Seq(StepName)
  PROVE  /\ ToVec(k) \in Seq(StepName) /\ ToVec(k) # <<>>
         /\ Head(ToVec(k)) = "putVec" /\ Tail(ToVec(k)) = ToMeta(k)
         /\ ToMeta(k) \in Seq(StepName) /\ ToMeta(k) # <<>>
         /\ Head(ToMeta(k)) = "putMeta" /\ Tail(ToMeta(k)) = ToInverted(k)
         /\ ToInverted(k) \in Seq(StepName) /\ ToInverted(k) # <<>>
         /\ Head(ToInverted(k)) = "putInverted" /\ Tail(ToInverted(k)) = k
<1>1. /\ ToInverted(k) \in Seq(StepName) /\ ToInverted(k) # <<>>
      /\ Head(ToInverted(k)) = "putInverted" /\ Tail(ToInverted(k)) = k
  BY StepFacts DEF StepName, ToInverted
<1>2. /\ ToMeta(k) \in Seq(StepName) /\ ToMeta(k) # <<>>
      /\ Head(ToMeta(k)) = "putMeta" /\ Tail(ToMeta(k)) = ToInverted(k)
  BY <1>1, StepFacts DEF StepName, ToMeta
<1>3. /\ ToVec(k) \in Seq(StepName) /\ ToVec(k) # <<>>
      /\ Head(ToVec(k)) = "putVec" /\ Tail(ToVec(k)) = ToMeta(k)
  BY <1>2, StepFacts DEF StepName, ToVec
<1> QED BY <1>1, <1>2, <1>3

\* Where a rebuild of the vectors stands, step by step.
LEMMA RebuildPlaces ==
  ASSUME NEW k \in Seq(StepName)
  PROVE  /\ ToAside(k) \in Seq(StepName) /\ ToAside(k) # <<>>
         /\ Head(ToAside(k)) = "setAside" /\ Tail(ToAside(k)) = AgainVec(k)
         /\ AgainVec(k) \in Seq(StepName) /\ AgainVec(k) # <<>>
         /\ Head(AgainVec(k)) = "putVec" /\ Tail(AgainVec(k)) = AgainMeta(k)
         /\ AgainMeta(k) \in Seq(StepName) /\ AgainMeta(k) # <<>>
         /\ Head(AgainMeta(k)) = "putMeta" /\ Tail(AgainMeta(k)) = ToDropVec(k)
         /\ ToDropVec(k) \in Seq(StepName) /\ ToDropVec(k) # <<>>
         /\ Head(ToDropVec(k)) = "dropVec" /\ Tail(ToDropVec(k)) = ToDropMeta(k)
         /\ ToDropMeta(k) \in Seq(StepName) /\ ToDropMeta(k) # <<>>
         /\ Head(ToDropMeta(k)) = "dropMeta" /\ Tail(ToDropMeta(k)) = k
<1>1. /\ ToDropMeta(k) \in Seq(StepName) /\ ToDropMeta(k) # <<>>
      /\ Head(ToDropMeta(k)) = "dropMeta" /\ Tail(ToDropMeta(k)) = k
  BY StepFacts DEF StepName, ToDropMeta
<1>2. /\ ToDropVec(k) \in Seq(StepName) /\ ToDropVec(k) # <<>>
      /\ Head(ToDropVec(k)) = "dropVec" /\ Tail(ToDropVec(k)) = ToDropMeta(k)
  BY <1>1, StepFacts DEF StepName, ToDropVec
<1>3. /\ AgainMeta(k) \in Seq(StepName) /\ AgainMeta(k) # <<>>
      /\ Head(AgainMeta(k)) = "putMeta" /\ Tail(AgainMeta(k)) = ToDropVec(k)
  BY <1>2, StepFacts DEF StepName, AgainMeta
<1>4. /\ AgainVec(k) \in Seq(StepName) /\ AgainVec(k) # <<>>
      /\ Head(AgainVec(k)) = "putVec" /\ Tail(AgainVec(k)) = AgainMeta(k)
  BY <1>3, StepFacts DEF StepName, AgainVec
<1>5. /\ ToAside(k) \in Seq(StepName) /\ ToAside(k) # <<>>
      /\ Head(ToAside(k)) = "setAside" /\ Tail(ToAside(k)) = AgainVec(k)
  BY <1>4, StepFacts DEF StepName, ToAside
<1> QED BY <1>1, <1>2, <1>3, <1>4, <1>5

\* Where the end of a run stands.
LEMMA EndPlaces ==
  ASSUME NEW m \in Seq(StepName)
  PROVE  /\ ToHashes(m) \in Seq(StepName) /\ ToHashes(m) # <<>>
         /\ Head(ToHashes(m)) = "putHashes" /\ Tail(ToHashes(m)) = ToFailed(m)
         /\ ToFailed(m) \in Seq(StepName) /\ ToFailed(m) # <<>>
         /\ Head(ToFailed(m)) = "putFailed" /\ Tail(ToFailed(m)) = ToCommit(m)
         /\ ToCommit(m) \in Seq(StepName) /\ ToCommit(m) # <<>>
         /\ Head(ToCommit(m)) = "commit" /\ Tail(ToCommit(m)) = m
<1>1. /\ ToCommit(m) \in Seq(StepName) /\ ToCommit(m) # <<>>
      /\ Head(ToCommit(m)) = "commit" /\ Tail(ToCommit(m)) = m
  BY StepFacts DEF StepName, ToCommit
<1>2. /\ ToFailed(m) \in Seq(StepName) /\ ToFailed(m) # <<>>
      /\ Head(ToFailed(m)) = "putFailed" /\ Tail(ToFailed(m)) = ToCommit(m)
  BY <1>1, StepFacts DEF StepName, ToFailed
<1>3. /\ ToHashes(m) \in Seq(StepName) /\ ToHashes(m) # <<>>
      /\ Head(ToHashes(m)) = "putHashes" /\ Tail(ToHashes(m)) = ToFailed(m)
  BY <1>2, StepFacts DEF StepName, ToHashes
<1> QED BY <1>1, <1>2, <1>3

\* Where the collection of a health check stands.
LEMMA HealthPlaces ==
  ASSUME NEW r \in Seq(StepName)
  PROVE  /\ ToGc(r) \in Seq(StepName) /\ ToGc(r) # <<>>
         /\ Head(ToGc(r)) = "gc" /\ Tail(ToGc(r)) = r
         /\ ToRows(r) \in Seq(StepName) /\ ToRows(r) # <<>>
         /\ Head(ToRows(r)) = "rows" /\ Tail(ToRows(r)) = ToVec(ToGc(r))
<1>1. /\ ToGc(r) \in Seq(StepName) /\ ToGc(r) # <<>>
      /\ Head(ToGc(r)) = "gc" /\ Tail(ToGc(r)) = r
  BY StepFacts DEF StepName, ToGc
<1> QED BY <1>1, Places, StepFacts DEF StepName, ToRows

\* Where the wipe before a forced run stands.
LEMMA ForcePlaces ==
  /\ ToClearDb \in Seq(StepName) /\ ToClearDb # <<>>
  /\ Head(ToClearDb) = "clearDb" /\ Tail(ToClearDb) = Indexing
  /\ ToWipe \in Seq(StepName) /\ ToWipe # <<>>
  /\ Head(ToWipe) = "wipe" /\ Tail(ToWipe) = ToClearDb
<1>1. /\ ToClearDb \in Seq(StepName) /\ ToClearDb # <<>>
      /\ Head(ToClearDb) = "clearDb" /\ Tail(ToClearDb) = Indexing
  BY Literals, StepFacts DEF StepName, ToClearDb
<1> QED BY <1>1, StepFacts DEF StepName, ToWipe

\* Where the steps of a run stand that is spelt out.
LEMMA LiteralPlaces ==
  /\ Indexing # <<>> /\ Head(Indexing) = "scan" /\ Tail(Indexing) = <<"embed", "catalog">>
  /\ <<"embed", "catalog">> # <<>>
  /\ Head(<<"embed", "catalog">>) = "embed" /\ Tail(<<"embed", "catalog">>) = <<"catalog">>
  /\ <<"catalog">> # <<>> /\ Head(<<"catalog">>) = "catalog" /\ Tail(<<"catalog">>) = <<>>
  /\ <<"metadata">> # <<>> /\ Head(<<"metadata">>) = "metadata" /\ Tail(<<"metadata">>) = <<>>
  /\ <<"open">> # <<>> /\ Head(<<"open">>) = "open" /\ Tail(<<"open">>) = <<>>
  /\ <<"putFailed">> # <<>> /\ Head(<<"putFailed">>) = "putFailed"
  /\ Tail(<<"putFailed">>) = <<>>
  /\ <<"retry">> \in Seq(StepName) /\ <<"retry">> # <<>> /\ Head(<<"retry">>) = "retry"
  /\ Tail(<<"retry">>) = <<>>
  /\ <<"health">> \in Seq(StepName) /\ <<"health">> # <<>> /\ Head(<<"health">>) = "health"
  /\ Tail(<<"health">>) = <<>>
<1>1. <<>> \in Seq(StepName) /\ <<"catalog">> \in Seq(StepName)
  BY Literals
<1>2. <<"embed", "catalog">> \in Seq(StepName)
  BY Literals
<1>3. \A s \in StepName : /\ Cons(s, <<>>) \in Seq(StepName) /\ Cons(s, <<>>) # <<>>
                          /\ Head(Cons(s, <<>>)) = s /\ Tail(Cons(s, <<>>)) = <<>>
  BY <1>1, StepFacts
<1>4. /\ Indexing # <<>> /\ Head(Indexing) = "scan" /\ Tail(Indexing) = <<"embed", "catalog">>
  <2>1. \A t \in Seq(StepName) : /\ Cons("scan", t) # <<>> /\ Head(Cons("scan", t)) = "scan"
                                 /\ Tail(Cons("scan", t)) = t
    BY StepFacts DEF StepName
  <2> QED BY <1>2, <2>1, Literals, Zenon
<1>5. /\ <<"embed", "catalog">> # <<>>
      /\ Head(<<"embed", "catalog">>) = "embed" /\ Tail(<<"embed", "catalog">>) = <<"catalog">>
  BY <1>1, Literals, StepFacts DEF StepName
<1>6. /\ <<"catalog">> # <<>> /\ Head(<<"catalog">>) = "catalog" /\ Tail(<<"catalog">>) = <<>>
      /\ <<"metadata">> # <<>> /\ Head(<<"metadata">>) = "metadata" /\ Tail(<<"metadata">>) = <<>>
      /\ <<"open">> # <<>> /\ Head(<<"open">>) = "open" /\ Tail(<<"open">>) = <<>>
  BY <1>3, Literals DEF StepName
<1>7. /\ <<"putFailed">> # <<>> /\ Head(<<"putFailed">>) = "putFailed"
      /\ Tail(<<"putFailed">>) = <<>>
      /\ <<"retry">> \in Seq(StepName) /\ <<"retry">> # <<>> /\ Head(<<"retry">>) = "retry"
      /\ Tail(<<"retry">>) = <<>>
      /\ <<"health">> \in Seq(StepName) /\ <<"health">> # <<>> /\ Head(<<"health">>) = "health"
      /\ Tail(<<"health">>) = <<>>
  BY <1>3, Literals DEF StepName
<1> QED BY <1>4, <1>5, <1>6, <1>7

\* The rests of a run after a health check, and their first steps.
LEMMA RestFacts ==
  ASSUME NEW op \in Ops, NEW r \in Rests(op)
  PROVE  /\ r \in Seq(StepName) /\ Plan(op) \in Seq(StepName)
         /\ r # <<>> => Head(r) \in {"scan", "clear", "retry", "health"}
         /\ Cons("health", r) \in Seq(StepName) /\ Cons("health", r) # <<>>
         /\ Head(Cons("health", r)) = "health" /\ Tail(Cons("health", r)) = r
<1>1. /\ Plan("force") \in Seq(StepName) /\ Plan("force") # <<>>
      /\ Head(Plan("force")) = "clear"
  BY Literals, ForcePlaces, Places, StepFacts DEF StepName
<1>2. /\ r \in Seq(StepName) /\ Plan(op) \in Seq(StepName)
      /\ r # <<>> => Head(r) \in {"scan", "clear", "retry", "health"}
  BY <1>1, Literals, LiteralPlaces DEF Rests, Ops
<1> QED BY <1>2, StepFacts DEF StepName

\* A run ends at once, or with its metadata.
LEMMA EndingFacts ==
  ASSUME NEW m \in Endings
  PROVE  m \in Seq(StepName) /\ (m # <<>> => Head(m) = "metadata")
BY Literals, LiteralPlaces DEF Endings

\* A step is followed by other steps, or by those that were left.
LEMMA ThenFacts ==
  ASSUME NEW r \in Mutation, r.todo # <<>>, NEW s \in Seq(StepName)
  PROVE  /\ Then(s, r) = [r EXCEPT !.todo = s \o Tail(r.todo)]
         /\ Then(s, r) \in Mutation
         /\ Then(s, r).todo = s \o Tail(r.todo)
         /\ Then(<<>>, r) = [r EXCEPT !.todo = Tail(r.todo)]
         /\ Then(<<>>, r) \in Mutation
         /\ Then(<<>>, r).todo = Tail(r.todo)
<1>1. r.todo \in Seq(StepName)
  BY DEF Mutation
<1>2. Tail(r.todo) \in Seq(StepName)
  BY <1>1, HeadTailProperties
<1>3. <<>> \o Tail(r.todo) = Tail(r.todo)
  BY <1>2, ConcatEmptySeq
<1>4. s \o Tail(r.todo) \in Seq(StepName)
  BY <1>2, ConcatProperties
<1>5. Then(s, r) = [r EXCEPT !.todo = s \o Tail(r.todo)]
  BY DEF Then
<1>6. Then(<<>>, r) = [r EXCEPT !.todo = Tail(r.todo)]
  BY <1>3 DEF Then
<1> QED BY <1>2, <1>4, <1>5, <1>6 DEF Mutation

-----------------------------------------------------------------------------
(* Types.                                                                  *)

\* A vector file is a publication of the vectors it is given: with four files at most in
\* use, one of the five numbers is free.
LEMMA PublicationType ==
  ASSUME Typed, NEW keys \in SUBSET Chunk
  PROVE  NewPublication(keys) \in Publication /\ NewPublication(keys).keys = keys
<1> DEFINE used == {pub[x].n : x \in {y \in DOMAIN pub : pub[y] # None}}
           free == CHOOSE i \in 0 .. 4 : i \notin used /\ \A j \in 0 .. i - 1 : j \in used
<1>1. used \subseteq {pub.vec.n, pub.meta.n, pub.bakVec.n, pub.bakMeta.n}
  BY DEF Typed
<1>2. \E i \in 0 .. 4 : i \notin used
  <2>1. ~ (0 \in used /\ 1 \in used /\ 2 \in used /\ 3 \in used /\ 4 \in used)
    BY <1>1
  <2> QED BY <2>1
<1>3. \E i \in 0 .. 4 : i \notin used /\ \A j \in 0 .. i - 1 : j \in used
  <2>1. CASE 0 \notin used
    BY <2>1
  <2>2. CASE 0 \in used /\ 1 \notin used
    BY <2>2
  <2>3. CASE 0 \in used /\ 1 \in used /\ 2 \notin used
    <3>1. \A j \in 0 .. 2 - 1 : j = 0 \/ j = 1
      OBVIOUS
    <3> QED BY <2>3, <3>1
  <2>4. CASE 0 \in used /\ 1 \in used /\ 2 \in used /\ 3 \notin used
    <3>1. \A j \in 0 .. 3 - 1 : j = 0 \/ j = 1 \/ j = 2
      OBVIOUS
    <3> QED BY <2>4, <3>1
  <2>5. CASE 0 \in used /\ 1 \in used /\ 2 \in used /\ 3 \in used
    <3>1. \A j \in 0 .. 4 - 1 : j = 0 \/ j = 1 \/ j = 2 \/ j = 3
      OBVIOUS
    <3>2. 4 \notin used
      BY <1>2, <2>5
    <3> QED BY <2>5, <3>1, <3>2
  <2> QED BY <2>1, <2>2, <2>3, <2>4, <2>5
<1>4. free \in 0 .. 4
  BY <1>3
<1>5. NewPublication(keys) = [n |-> free, keys |-> keys]
  BY DEF NewPublication
<1> QED BY <1>4, <1>5 DEF Publication

\* The texts of chunks are texts.
LEMMA TextType ==
  ASSUME NEW chunks \in SUBSET Chunk
  PROVE  TextsOf(chunks) \subseteq Text
BY DEF TextsOf, Chunk

\* A database starts empty.
LEMMA EmptyType == EmptyDatabase \in Database
BY DEF EmptyDatabase, Database

\* An empty hash cache is a tree in which no file is there.
LEMMA NoHashesType == NoHashes \in Tree
BY DEF NoHashes, Tree

\* The checked-out tree is a tree.
LEMMA TreeType ==
  ASSUME Typed
  PROVE  tree \in Tree /\ Present(tree) \subseteq File
BY DEF Typed, tree, Present

\* What a writer makes of a killed one's files are vector files.
LEMMA RecoveredType ==
  ASSUME Typed
  PROVE  /\ Recovered(pub) \in [vec : Publication \cup {None}, meta : Publication \cup {None},
                                bakVec : Publication \cup {None},
                                bakMeta : Publication \cup {None}]
         /\ Keys(Recovered(pub)) \subseteq Chunk
<1>1. Recovered(pub) \in [vec : Publication \cup {None}, meta : Publication \cup {None},
                          bakVec : Publication \cup {None},
                          bakMeta : Publication \cup {None}]
  BY DEF Typed, Recovered, NoPublication, Restored
<1> QED BY <1>1 DEF Keys, Publication

\* Only chunks that were asked about are removable.
LEMMA RemovableType ==
  ASSUME NEW chunks, NEW catalog
  PROVE  Removable(chunks, catalog) \subseteq chunks
BY DEF Removable

\* A rebuild adds no vector.
LEMMA RebuiltType ==
  ASSUME NEW d, NEW keys, NEW drop
  PROVE  Rebuilt(d, keys, drop) \subseteq keys
BY DEF Rebuilt

\* The files of a run are those of its place.
LEMMA KeyType ==
  ASSUME NEW b \in Branch
  PROVE  Key(b) \in Namespace /\ Key(b) = Place(world, b)
BY DEF Key, Namespace, Place

\* The database of a process.
LEMMA DbType ==
  ASSUME Typed, NEW p \in Proc, Db(p) \in Database, NEW d \in Database, WriteDb(p, d)
  PROVE  db' \in Database \cup {None} /\ gone' \in [Proc -> Database \cup {None}]
BY DEF Typed, WriteDb, Db

\* The user keeps the types.
LEMMA TypedUser ==
  ASSUME Typed, Edit \/ Checkout \/ Merge
  PROVE  Typed'
<1>1. refs' \in [Branch -> Tree]
  <2>1. CASE Edit
    BY <2>1 DEF Typed, Edit, tree, Tree
  <2>2. CASE Checkout
    BY <2>2 DEF Typed, Checkout
  <2>3. CASE Merge
    BY <2>3 DEF Typed, Merge
  <2> QED BY <2>1, <2>2, <2>3
<1>2. branch' \in Branch /\ strayed' \subseteq Branch
  BY DEF Typed, Edit, Checkout, Merge
<1>3. UNCHANGED <<world, files, memory, lease, run>>
  BY DEF Edit, Checkout, Merge
<1> QED BY <1>1, <1>2, <1>3 DEF Typed, files, memory, lease

\* So does the start of a run, which opens the index first.
LEMMA TypedBegin ==
  ASSUME Typed, NEW p \in Proc, NEW op \in Ops, Begin(p, op)
  PROVE  Typed' /\ run' \in Mutation /\ run'.todo = <<"open">>
<1>1. <<"open">> \in Seq(StepName)
  BY Literals, StepFacts DEF StepName
<1>2. run' = NewRun(p, op) /\ branch \in Branch
  BY DEF Begin, Typed
<1>3. run' \in Mutation /\ run'.todo = <<"open">>
  BY <1>1, <1>2 DEF NewRun, Mutation
<1> QED BY <1>3 DEF Typed, Begin, repo, files, memory

\* So does its end.
LEMMA TypedFinish ==
  ASSUME Typed, Finish
  PROVE  Typed'
BY DEF Typed, Finish, repo, files, memory

\* So does a run that throws.
LEMMA TypedGiveUp ==
  ASSUME Typed, GiveUp, UNCHANGED <<world, repo, files, memory>>
  PROVE  Typed'
BY DEF Typed, GiveUp, repo, files, memory

\* So does a scan, which chooses among the files that are there.
LEMMA TypedScan ==
  ASSUME Typed, Scan, Db(run.by) \in Database
  PROVE  Typed'
<1>1. CASE GiveUp
  BY <1>1, TypedGiveUp DEF Scan
<1>2. CASE ~GiveUp
  <2> DEFINE d == Db(run.by)
             previous == d.catalog[run.branch]
             restricted == Referenced(d.catalog) # {}
  <2>1. run \in Mutation /\ run.todo # <<>> /\ Then(<<>>, run) \in Mutation
    BY ThenFacts, Literals DEF Scan, At, Typed
  <2>2. run' = [Then(<<>>, run) EXCEPT
                  !.seen = tree, !.changed = Changed(d), !.previous = previous,
                  !.existing = IF restricted THEN run.mem \cap previous ELSE run.mem,
                  !.file = run.now, !.tx = d]
    BY <1>2, Zenon DEF Scan
  <2>7. UNCHANGED lease
    BY <1>2 DEF Scan
  <2>3. previous \in SUBSET Chunk /\ run.mem \in SUBSET Chunk
    BY <2>1 DEF Database, Mutation
  <2>4. Changed(d) \subseteq File /\ tree \in Tree
    BY TreeType DEF Changed
  <2> HIDE DEF d, previous, restricted
  <2>5. d \in Database
    BY DEF d
  <2>6. run' \in Mutation
    BY <2>1, <2>2, <2>3, <2>4, <2>5 DEF Mutation
  <2> QED BY <2>6, <2>7 DEF Typed, Scan, repo, files, memory, lease
<1> QED BY <1>1, <1>2

\* The values that Embed names.
NewChunks == {<<f, tree[f]>> : f \in run.changed}
Pending == NewChunks \ run.existing
Asked == {c \in Pending : c[2] \notin run.tx.embeddings}
Retried == Retryable(run)
Kept == {c \in run.existing : c[1] \in Present(run.seen) \ run.changed}
Known(f1) == run.tx.embeddings \cup TextsOf(Asked \ f1)
Stored(f1, f2) == (Pending \ f1) \cup (Retried \ f2)

EmbeddedRun(f1, f2) ==
  [Then(<<>>, run) EXCEPT
     !.mem = @ \cup Stored(f1, f2),
     !.current = Kept \cup NewChunks \cup Retried,
     !.lost = f1 \cup (f2 \ run.existing),
     !.records = f1 \cup f2,
     !.embeds = Pending \cup Retried # {},
     !.tx.chunks = @ \cup NewChunks,
     !.tx.embeddings = Known(f1) \cup TextsOf(Retried \ f2)]

\* Embed gives up, or stores all but two sets of chunks whose requests failed.
LEMMA EmbedOutcome ==
  ASSUME Embed
  PROVE  \/ ~(run.changed \subseteq Present(tree)) /\ GiveUp /\ UNCHANGED inv
         \/ /\ run.changed \subseteq Present(tree)
            /\ \E f1 \in SUBSET Asked :
               \E f2 \in SUBSET {c \in Retried : c[2] \notin Known(f1)} :
                 /\ f1 \cup f2 # {} => world.fails
                 /\ run' = EmbeddedRun(f1, f2)
                 /\ inv' = [inv EXCEPT ![run.by] = @ \cup Stored(f1, f2)]
            /\ UNCHANGED lease
BY ZenonT(60) DEF Embed, Pending, NewChunks, Asked, Retried, Kept, Known, Stored, EmbeddedRun

\* What is asked of the provider, retried and kept are chunks.
LEMMA EmbeddedTypes ==
  ASSUME Typed, run \in Mutation, run.tx \in Database, run.changed \subseteq Present(tree)
  PROVE  /\ NewChunks \subseteq Chunk /\ Pending \subseteq Chunk /\ Asked \subseteq Chunk
         /\ Retried \subseteq Chunk /\ Kept \subseteq Chunk
<1>1. NewChunks \subseteq Chunk
  BY TreeType DEF NewChunks, Present, Tree, Chunk
<1>2. Retried \subseteq Chunk
  BY KeyType DEF Retried, Retryable, Typed, Mutation
<1> QED BY <1>1, <1>2 DEF Pending, Asked, Kept, Mutation

\* What a run knows after Embed.
EmbedGives(r, f1, f2) ==
  /\ r \in Mutation
  /\ r.todo = Tail(run.todo)
  /\ r.tx \in Database
  /\ r.tx.chunks = run.tx.chunks \cup NewChunks
  /\ r.tx.embeddings = Known(f1) \cup TextsOf(Retried \ f2)
  /\ r.tx.catalog = run.tx.catalog
  /\ r.tx.versions = run.tx.versions
  /\ r.mem = run.mem \cup Stored(f1, f2)
  /\ r.current = Kept \cup NewChunks \cup Retried
  /\ r.lost = f1 \cup (f2 \ run.existing)
  /\ r.records = f1 \cup f2
  /\ r.embeds = (Pending \cup Retried # {})
  /\ r.by = run.by
  /\ r.op = run.op
  /\ r.branch = run.branch
  /\ r.now = run.now /\ r.file = run.file
  /\ r.seen = run.seen
  /\ r.previous = run.previous
  /\ r.existing = run.existing

\* The run after Embed is a run that knows it.
LEMMA EmbeddedFields ==
  ASSUME Typed, run \in Mutation, run.todo # <<>>, run.tx \in Database,
         run.changed \subseteq Present(tree), NEW f1, NEW f2, f1 \subseteq Asked, f2 \subseteq Retried
  PROVE  EmbedGives(EmbeddedRun(f1, f2), f1, f2)
<1> DEFINE r0 == Then(<<>>, run)
           r1 == [r0 EXCEPT !.mem = @ \cup Stored(f1, f2),
                            !.current = Kept \cup NewChunks \cup Retried,
                            !.lost = f1 \cup (f2 \ run.existing),
                            !.records = f1 \cup f2,
                            !.embeds = Pending \cup Retried # {},
                            !.tx.chunks = @ \cup NewChunks]
           texts == Known(f1) \cup TextsOf(Retried \ f2)
<1>1. /\ NewChunks \subseteq Chunk /\ Kept \subseteq Chunk /\ Retried \subseteq Chunk
      /\ Stored(f1, f2) \subseteq Chunk /\ f1 \subseteq Chunk /\ f2 \subseteq Chunk
      /\ texts \subseteq Text
  BY EmbeddedTypes, TextType DEF Known, Stored, Database
<1>2. /\ r0 \in Mutation /\ r0.tx \in Database /\ r0.tx = run.tx
      /\ r0.todo = Tail(run.todo) /\ r0.mem = run.mem /\ r0.by = run.by /\ r0.op = run.op
      /\ r0.branch = run.branch /\ r0.seen = run.seen /\ r0.previous = run.previous
      /\ r0.now = run.now /\ r0.file = run.file
      /\ r0.existing = run.existing
  <2>1. r0 = [run EXCEPT !.todo = Tail(run.todo)] /\ r0 \in Mutation
    BY ThenFacts, Literals
  <2> HIDE DEF r0
  <2> QED BY <2>1 DEF Mutation
<1>3. (Pending \cup Retried # {}) \in BOOLEAN
  OBVIOUS
<1>4. run.existing \subseteq Chunk
  BY DEF Mutation
<1>5. EmbeddedRun(f1, f2) = [r1 EXCEPT !.tx.embeddings = texts]
  BY DEF EmbeddedRun
<1>6. /\ r1 \in Mutation /\ r1.tx \in Database
      /\ r1.tx.chunks = run.tx.chunks \cup NewChunks
      /\ r1.tx.catalog = run.tx.catalog /\ r1.tx.versions = run.tx.versions
      /\ r1.todo = r0.todo /\ r1.mem = r0.mem \cup Stored(f1, f2)
      /\ r1.current = Kept \cup NewChunks \cup Retried
      /\ r1.lost = f1 \cup (f2 \ run.existing)
      /\ r1.records = f1 \cup f2
      /\ r1.embeds = (Pending \cup Retried # {})
      /\ r1.by = r0.by /\ r1.op = r0.op /\ r1.branch = r0.branch /\ r1.seen = r0.seen
      /\ r1.now = r0.now /\ r1.file = r0.file
      /\ r1.previous = r0.previous /\ r1.existing = r0.existing
  <2> DEFINE embeds == (Pending \cup Retried # {})
             current == Kept \cup NewChunks \cup Retried
             lost == f1 \cup (f2 \ run.existing)
             records == f1 \cup f2
             stored == Stored(f1, f2)
  <2>1. /\ embeds \in BOOLEAN /\ current \in SUBSET Chunk /\ lost \in SUBSET Chunk
        /\ records \in SUBSET Chunk /\ stored \in SUBSET Chunk /\ NewChunks \in SUBSET Chunk
    BY <1>1, <1>3, <1>4
  <2>2. r1 = [r0 EXCEPT !.mem = @ \cup stored, !.current = current, !.lost = lost,
                        !.records = records, !.embeds = embeds,
                        !.tx.chunks = @ \cup NewChunks]
    OBVIOUS
  <2> HIDE DEF r0, embeds, current, lost, records, stored, r1
  <2>3. r1 \in Mutation
    <3> DEFINE a == [r0 EXCEPT !.mem = @ \cup stored, !.current = current, !.lost = lost]
               b == [a EXCEPT !.records = records, !.embeds = embeds]
    <3>1. a \in Mutation /\ a.tx = r0.tx
      BY <1>2, <2>1 DEF Mutation
    <3>2. b \in Mutation /\ b.tx = a.tx
      <4> HIDE DEF a
      <4> QED BY <2>1, <3>1 DEF Mutation
    <3>3. r1 = [b EXCEPT !.tx.chunks = @ \cup NewChunks]
      BY <2>2
    <3> DEFINE tx == [b.tx EXCEPT !.chunks = @ \cup NewChunks]
    <3>4. r1 = [b EXCEPT !.tx = tx]
      BY <3>3
    <3> HIDE DEF a, b
    <3>5. b.tx \in Database
      BY <1>2, <3>1, <3>2
    <3>6. tx \in Database
      BY <2>1, <3>5 DEF Database
    <3> HIDE DEF tx
    <3> QED BY <3>2, <3>4, <3>6 DEF Mutation
  <2>4. r1.tx \in Database /\ r1.tx.chunks = run.tx.chunks \cup NewChunks
        /\ r1.tx.catalog = run.tx.catalog /\ r1.tx.versions = run.tx.versions
    BY <1>2, <2>1, <2>2 DEF Mutation, Database
  <2>5. /\ r1.todo = r0.todo /\ r1.mem = r0.mem \cup stored /\ r1.current = current
        /\ r1.lost = lost /\ r1.records = records /\ r1.embeds = embeds
    BY <1>2, <2>1, <2>2 DEF Mutation
  <2>6. /\ r1.by = r0.by /\ r1.op = r0.op /\ r1.branch = r0.branch /\ r1.seen = r0.seen
        /\ r1.now = r0.now /\ r1.file = r0.file
        /\ r1.previous = r0.previous /\ r1.existing = r0.existing
    BY <1>2, <2>1, <2>2 DEF Mutation
  <2> QED BY <2>3, <2>4, <2>5, <2>6 DEF embeds, current, lost, records, stored
<1> HIDE DEF r1, r0, texts
<1>7. /\ EmbeddedRun(f1, f2) \in Mutation /\ EmbeddedRun(f1, f2).tx \in Database
      /\ EmbeddedRun(f1, f2).tx.chunks = r1.tx.chunks
      /\ EmbeddedRun(f1, f2).tx.embeddings = texts
      /\ EmbeddedRun(f1, f2).tx.catalog = r1.tx.catalog
      /\ EmbeddedRun(f1, f2).tx.versions = r1.tx.versions
      /\ EmbeddedRun(f1, f2).todo = r1.todo /\ EmbeddedRun(f1, f2).mem = r1.mem
      /\ EmbeddedRun(f1, f2).current = r1.current /\ EmbeddedRun(f1, f2).lost = r1.lost
      /\ EmbeddedRun(f1, f2).records = r1.records /\ EmbeddedRun(f1, f2).embeds = r1.embeds
      /\ EmbeddedRun(f1, f2).by = r1.by /\ EmbeddedRun(f1, f2).op = r1.op
      /\ EmbeddedRun(f1, f2).branch = r1.branch /\ EmbeddedRun(f1, f2).seen = r1.seen
      /\ EmbeddedRun(f1, f2).now = r1.now /\ EmbeddedRun(f1, f2).file = r1.file
      /\ EmbeddedRun(f1, f2).previous = r1.previous
      /\ EmbeddedRun(f1, f2).existing = r1.existing
  <2>1. DEFINE e == EmbeddedRun(f1, f2)
  <2>2. e = [r1 EXCEPT !.tx.embeddings = texts]
    BY <1>5
  <2> HIDE DEF e
  <2>3. e \in Mutation
    BY <1>1, <1>6, <2>2 DEF Mutation, Database
  <2>4. /\ e.tx \in Database /\ e.tx.chunks = r1.tx.chunks /\ e.tx.embeddings = texts
        /\ e.tx.catalog = r1.tx.catalog /\ e.tx.versions = r1.tx.versions
    BY <1>1, <1>6, <2>2 DEF Mutation, Database
  <2>5. /\ e.todo = r1.todo /\ e.mem = r1.mem /\ e.current = r1.current /\ e.lost = r1.lost
        /\ e.records = r1.records /\ e.embeds = r1.embeds
    BY <1>6, <2>2 DEF Mutation
  <2>6. /\ e.by = r1.by /\ e.op = r1.op /\ e.branch = r1.branch /\ e.seen = r1.seen
        /\ e.now = r1.now /\ e.file = r1.file
        /\ e.previous = r1.previous /\ e.existing = r1.existing
    BY <1>6, <2>2 DEF Mutation
  <2> QED BY <2>3, <2>4, <2>5, <2>6 DEF e
<1> QED BY <1>2, <1>6, <1>7 DEF texts, EmbedGives

\* The requests to the provider keep the types.
LEMMA TypedEmbed ==
  ASSUME Typed, Embed, run.tx \in Database
  PROVE  Typed'
<1>1. run \in Mutation /\ run.todo # <<>>
  BY DEF Embed, At, Typed
<1>2. UNCHANGED <<world, repo, files, mode, gone>>
  BY DEF Embed
<1>3. CASE ~(run.changed \subseteq Present(tree))
  BY <1>2, <1>3, EmbedOutcome, TypedGiveUp DEF memory
<1>4. CASE run.changed \subseteq Present(tree)
  <2>1. PICK f1 \in SUBSET Asked :
          \E f2 \in SUBSET {c \in Retried : c[2] \notin Known(f1)} :
            /\ run' = EmbeddedRun(f1, f2)
            /\ inv' = [inv EXCEPT ![run.by] = @ \cup Stored(f1, f2)]
            /\ UNCHANGED lease
    BY <1>4, EmbedOutcome
  <2>2. PICK f2 \in SUBSET {c \in Retried : c[2] \notin Known(f1)} :
            /\ run' = EmbeddedRun(f1, f2)
            /\ inv' = [inv EXCEPT ![run.by] = @ \cup Stored(f1, f2)]
            /\ UNCHANGED lease
    BY <2>1
  <2>3. f2 \in SUBSET Retried
    OBVIOUS
  <2>4. EmbeddedRun(f1, f2) \in Mutation
    BY <1>1, <1>4, <2>3, EmbeddedFields DEF EmbedGives
  <2>5. Stored(f1, f2) \subseteq Chunk
    BY <1>1, <1>4, EmbeddedTypes DEF Stored
  <2>6. inv' \in [Proc -> SUBSET Chunk]
    BY <1>1, <2>2, <2>5 DEF Typed, Mutation
  <2> QED BY <1>2, <2>2, <2>4, <2>6 DEF Typed, repo, files, lease
<1> QED BY <1>3, <1>4

\* A step that leaves the run's variables alone.
LEMMA DoneFacts ==
  ASSUME run \in Mutation, run.todo # <<>>, Done
  PROVE  /\ run' \in Mutation /\ run'.todo = Tail(run.todo)
         /\ run'.by = run.by /\ run'.op = run.op /\ run'.branch = run.branch
         /\ run'.now = run.now /\ run'.file = run.file
         /\ run'.mem = run.mem /\ run'.seen = run.seen /\ run'.records = run.records
         /\ run'.drop = run.drop /\ run'.compatible = run.compatible /\ run'.tx = run.tx
<1>1. run' = [run EXCEPT !.todo = Tail(run.todo)] /\ run' \in Mutation
  BY ThenFacts, Literals DEF Done
<1> QED BY <1>1 DEF Mutation

\* So does the publication of an artifact.
LEMMA TypedPut ==
  ASSUME Typed,
         \/ PutHashes /\ run.seen \in Tree
         \/ PutFailed
         \/ Metadata /\ Db(run.by) \in Database
         \/ SetAside \/ PutVec \/ PutMeta \/ DropVec \/ DropMeta \/ PutInverted
  PROVE  Typed' /\ run' \in Mutation
<1>1. run \in Mutation /\ run.todo # <<>> /\ Done
  BY DEF Typed, At, PutHashes, PutFailed, Metadata, SetAside, PutVec, PutMeta, DropVec, DropMeta,
         PutInverted
<1>2. run' \in Mutation
  BY <1>1, DoneFacts
<1>3. /\ run.branch \in Branch /\ Key(run.now) \in Namespace /\ run.by \in Proc
      /\ Key(FailedBranch) \in Namespace
      /\ run.records \in SUBSET Chunk /\ run.mem \in SUBSET Chunk
  BY <1>1, KeyType DEF Mutation, FailedBranch
<1>4. NewPublication(run.mem) \in Publication
  BY <1>3, PublicationType
<1>5. CASE PutHashes /\ run.seen \in Tree
  BY <1>2, <1>3, <1>5 DEF Typed, PutHashes, repo, memory, lease
<1>6. CASE PutFailed
  BY <1>2, <1>3, <1>6 DEF Typed, PutFailed, FailedBranch, repo, memory, lease
<1>7. CASE Metadata /\ Db(run.by) \in Database
  <2>1. [Db(run.by) EXCEPT !.versions = @ \cup {run.branch}, !.format = TRUE] \in Database
    BY <1>3, <1>7 DEF Database
  <2>2. db' \in Database \cup {None} /\ gone' \in [Proc -> Database \cup {None}]
    BY <1>3, <1>7, <2>1, DbType DEF Metadata
  <2> QED BY <1>2, <1>7, <2>2 DEF Typed, Metadata, repo, lease
<1>8. CASE SetAside
  BY <1>2, <1>8 DEF Typed, SetAside, repo, memory, lease
<1>9. CASE PutVec
  BY <1>2, <1>4, <1>9 DEF Typed, PutVec, repo, memory, lease
<1>10. CASE PutMeta
  BY <1>2, <1>10 DEF Typed, PutMeta, repo, memory, lease
<1>11. CASE DropVec
  BY <1>2, <1>11 DEF Typed, DropVec, repo, memory, lease
<1>12. CASE DropMeta
  BY <1>2, <1>12 DEF Typed, DropMeta, repo, memory, lease
<1>13. CASE PutInverted
  BY <1>2, <1>3, <1>13 DEF Typed, PutInverted, repo, memory, lease
<1> QED BY <1>2, <1>5, <1>6, <1>7, <1>8, <1>9, <1>10, <1>11, <1>12, <1>13

\* The transaction is written, and the run forgets it.
LEMMA TypedCommit ==
  ASSUME Typed, Commit, Db(run.by) \in Database, run.tx \in Database
  PROVE  /\ Typed' /\ run' \in Mutation /\ run'.todo = Tail(run.todo)
         /\ run'.by = run.by /\ run'.op = run.op /\ run'.branch = run.branch
         /\ run'.now = run.now /\ run'.file = run.file
         /\ run'.mem = run.mem /\ run'.seen = run.seen /\ run'.records = run.records
<1>1. run \in Mutation /\ run.todo # <<>> /\ run.by \in Proc
  BY DEF Typed, At, Commit, Mutation
<1>2. Then(<<>>, run) = [run EXCEPT !.todo = Tail(run.todo)] /\ Then(<<>>, run) \in Mutation
  BY <1>1, ThenFacts, Literals
<1>3. run' = [Then(<<>>, run) EXCEPT !.tx = None]
  BY DEF Commit
<1>4. run' \in Mutation
  BY <1>2, <1>3 DEF Mutation
<1>5. /\ run'.todo = Tail(run.todo)
      /\ run'.by = run.by /\ run'.op = run.op /\ run'.branch = run.branch
      /\ run'.now = run.now /\ run'.file = run.file
      /\ run'.mem = run.mem /\ run'.seen = run.seen /\ run'.records = run.records
  BY <1>1, <1>2, <1>3 DEF Mutation
<1>6. db' \in Database \cup {None} /\ gone' \in [Proc -> Database \cup {None}]
  BY <1>1, DbType DEF Commit
<1> QED BY <1>4, <1>5, <1>6 DEF Typed, Commit, repo, lease

\* The three ways to publish.
LEMMA CatalogLists ==
  ASSUME NEW m \in Seq(StepName)
  PROVE  /\ Rebuilding \o Saving \o <<"putHashes", "putFailed", "commit">> \o m
              = ToAside(ToVec(ToHashes(m)))
         /\ <<>> \o Saving \o <<"putHashes", "putFailed", "commit">> \o m = ToVec(ToHashes(m))
         /\ <<>> \o <<>> \o <<"putHashes", "putFailed", "commit">> \o m = ToHashes(m)
<1>1. Rebuilding \o Saving \o <<"putHashes", "putFailed", "commit">> \o m
        = ToAside(ToVec(ToHashes(m)))
  BY DEF Rebuilding, Saving, ToAside, AgainVec, AgainMeta, ToDropVec, ToDropMeta, ToVec, ToMeta,
         ToInverted, ToHashes, ToFailed, ToCommit, Cons
<1>2. <<>> \o Saving \o <<"putHashes", "putFailed", "commit">> \o m = ToVec(ToHashes(m))
  BY DEF Saving, ToVec, ToMeta, ToInverted, ToHashes, ToFailed, ToCommit, Cons
<1>3. <<>> \o <<>> \o <<"putHashes", "putFailed", "commit">> \o m = ToHashes(m)
  BY DEF ToHashes, ToFailed, ToCommit, Cons
<1> QED BY <1>1, <1>2, <1>3

\* The values that Catalog names.
NewCatalog == [run.tx.catalog EXCEPT ![run.branch] = Chosen]
CatalogDrop == Removable(run.previous \ Chosen, NewCatalog)
CatalogRows == run.tx.chunks \ CatalogDrop
CatalogTx ==
  [chunks |-> CatalogRows,
   embeddings |-> run.tx.embeddings \cap TextsOf(CatalogRows),
   catalog |-> NewCatalog,
   versions |-> IF run.embeds THEN run.tx.versions ELSE run.tx.versions \cup {run.branch},
   format |-> run.tx.format \/ ~run.embeds]
CatalogMem ==
  IF CatalogDrop # {} THEN Rebuilt(run.tx, run.mem, CatalogDrop) ELSE run.mem
CatalogSaves ==
  ~(~run.embeds /\ run.existing \subseteq run.current) \/ CatalogDrop # {}
Ending == IF run.embeds THEN <<"metadata">> ELSE <<>>
CatalogTodo ==
  (IF CatalogDrop # {} THEN Rebuilding ELSE <<>>) \o (IF CatalogSaves THEN Saving ELSE <<>>)
    \o <<"putHashes", "putFailed", "commit">> \o Ending

\* Where Catalog leads, and what the run knows then.
LEMMA CatalogFields ==
  ASSUME Typed, Catalog, run.tx \in Database, run.todo = <<"catalog">>
  PROVE  /\ run' \in Mutation
         /\ Ending \in Endings
         /\ run'.todo = IF CatalogDrop # {} THEN ToAside(ToVec(ToHashes(Ending)))
                        ELSE IF CatalogSaves THEN ToVec(ToHashes(Ending))
                        ELSE ToHashes(Ending)
         /\ run'.mem = CatalogMem
         /\ run'.tx = CatalogTx
         /\ CatalogTx \in Database
         /\ run'.by = run.by /\ run'.op = run.op /\ run'.branch = run.branch
         /\ run'.now = run.now /\ run'.file = run.file
         /\ run'.seen = run.seen /\ run'.records = run.records
         /\ inv' = [inv EXCEPT ![run.by] = @ \ CatalogDrop]
<1>1. run \in Mutation /\ run.todo # <<>> /\ Tail(run.todo) = <<>>
  BY LiteralPlaces DEF Typed, At, Catalog
<1>2. Ending \in Endings /\ Ending \in Seq(StepName)
  BY Literals DEF Ending, Endings
<1>3. /\ ToHashes(Ending) \in Seq(StepName) /\ ToVec(ToHashes(Ending)) \in Seq(StepName)
      /\ ToAside(ToVec(ToHashes(Ending))) \in Seq(StepName)
  BY <1>2, EndPlaces, Places, RebuildPlaces
<1>4. CatalogTodo = IF CatalogDrop # {} THEN ToAside(ToVec(ToHashes(Ending)))
                    ELSE IF CatalogSaves THEN ToVec(ToHashes(Ending))
                    ELSE ToHashes(Ending)
  <2>1. CatalogDrop # {} => CatalogSaves
    BY DEF CatalogSaves
  <2> QED BY <1>2, <2>1, CatalogLists DEF CatalogTodo
<1>5. CatalogTodo \in Seq(StepName)
  BY <1>3, <1>4
<1>9. /\ Then(CatalogTodo, run) = [run EXCEPT !.todo = CatalogTodo \o <<>>]
      /\ Then(CatalogTodo, run) \in Mutation
      /\ CatalogTodo \o <<>> = CatalogTodo
  BY <1>1, <1>5, ThenFacts, ConcatEmptySeq
<1> DEFINE r == Then(CatalogTodo, run)
<1>10. /\ r \in Mutation /\ r.todo = CatalogTodo /\ r.mem = run.mem
       /\ r.by = run.by /\ r.op = run.op /\ r.branch = run.branch /\ r.seen = run.seen
       /\ r.now = run.now /\ r.file = run.file
       /\ r.records = run.records
  BY <1>1, <1>9 DEF Mutation
<1> HIDE DEF r
<1>6. /\ run' = [Then(CatalogTodo, run) EXCEPT !.drop = CatalogDrop, !.mem = CatalogMem,
                                             !.tx = CatalogTx]
      /\ inv' = [inv EXCEPT ![run.by] = @ \ CatalogDrop]
  <2>1. Then(CatalogTodo, run).mem = run.mem
    BY <1>10 DEF r
  <2> QED BY <2>1 DEF Catalog, CatalogTodo, CatalogDrop, CatalogMem, CatalogTx, CatalogSaves, CatalogRows,
             NewCatalog, Chosen, Ending
<1>7. /\ CatalogDrop \subseteq Chunk /\ CatalogMem \subseteq Chunk
  BY <1>1, RemovableType, RebuiltType DEF CatalogDrop, CatalogMem, Mutation
<1>8. CatalogTx \in Database
  <2>1. Chosen \subseteq Chunk /\ run.branch \in Branch
    BY <1>1 DEF Chosen, Mutation
  <2>2. NewCatalog \in [Branch -> SUBSET Chunk]
    BY <2>1 DEF NewCatalog, Database
  <2> QED BY <1>1, <2>1, <2>2 DEF CatalogTx, CatalogRows, Database, Mutation
<1>11. run' = [r EXCEPT !.drop = CatalogDrop, !.mem = CatalogMem, !.tx = CatalogTx]
  BY <1>6 DEF r
<1>12. run' \in Mutation
  BY <1>7, <1>8, <1>10, <1>11 DEF Mutation
<1>13. /\ run'.todo = CatalogTodo /\ run'.mem = CatalogMem /\ run'.tx = CatalogTx
       /\ run'.by = run.by /\ run'.op = run.op /\ run'.branch = run.branch
       /\ run'.now = run.now /\ run'.file = run.file
       /\ run'.seen = run.seen /\ run'.records = run.records
  BY <1>10, <1>11 DEF Mutation
<1> QED BY <1>2, <1>4, <1>6, <1>8, <1>12, <1>13

\* So does the new catalog of the branch.
LEMMA TypedCatalog ==
  ASSUME Typed, Catalog, run.tx \in Database, run.todo = <<"catalog">>
  PROVE  Typed'
<1>1. run' \in Mutation /\ inv' = [inv EXCEPT ![run.by] = @ \ CatalogDrop]
  BY CatalogFields
<1>2. inv' \in [Proc -> SUBSET Chunk]
  BY <1>1 DEF Typed
<1> QED BY <1>1, <1>2 DEF Typed, Catalog, repo, files, lease

\* The values that Health names.
Missing == {c \in run.mem : tree[c[1]] = Absent}
HealthCatalog == [Db(run.by).catalog EXCEPT ![run.now] = @ \ Missing]
HealthDrop == Removable(Missing, HealthCatalog)
HealthDb == [Db(run.by) EXCEPT !.catalog = HealthCatalog]
HealthMem == IF HealthDrop = {} THEN run.mem ELSE Rebuilt(Db(run.by), run.mem, HealthDrop)

\* Where Health leads, and what the run knows then.
LEMMA HealthFields ==
  ASSUME Typed, Health, Db(run.by) \in Database,
         NEW r \in Seq(StepName), run.todo = Cons("health", r)
  PROVE  /\ run' \in Mutation
         /\ run'.todo = IF HealthDrop = {} THEN ToGc(r) ELSE ToAside(ToRows(r))
         /\ run'.drop = HealthDrop /\ run'.mem = HealthMem
         /\ run'.by = run.by /\ run'.op = run.op /\ run'.branch = run.branch
         /\ run'.now = run.now /\ run'.file = run.file
         /\ run'.compatible = run.compatible
         /\ HealthDb \in Database
         /\ WriteDb(run.by, HealthDb)
<1> DEFINE steps == (IF HealthDrop = {} THEN <<>> ELSE Rebuilding \o <<"rows">> \o Saving)
                      \o <<"gc">>
           r0 == Then(steps, run)
<1>1. run \in Mutation /\ run.todo # <<>> /\ Tail(run.todo) = r
  <2>1. run \in Mutation
    BY DEF Typed, At, Health
  <2>2. "health" \in StepName
    BY DEF StepName
  <2> QED BY <2>1, <2>2, StepFacts
<1>2. /\ steps \in Seq(StepName)
      /\ steps \o r = IF HealthDrop = {} THEN ToGc(r) ELSE ToAside(ToRows(r))
  <2>1. CASE HealthDrop = {}
    <3>1. steps = <<"gc">>
      BY <2>1
    <3>2. <<"gc">> \in Seq(StepName)
      BY DEF StepName
    <3> QED BY <2>1, <3>1, <3>2, Lists
  <2>2. CASE HealthDrop # {}
    <3>1. steps = Rebuilding \o <<"rows">> \o Saving \o <<"gc">>
      BY <2>2
    <3>2. Rebuilding \o <<"rows">> \o Saving \o <<"gc">> \in Seq(StepName)
      BY DEF Rebuilding, Saving, StepName
    <3>3. (Rebuilding \o <<"rows">> \o Saving \o <<"gc">>) \o r = ToAside(ToRows(r))
      BY DEF Rebuilding, Saving, ToAside, AgainVec, AgainMeta, ToDropVec, ToDropMeta, ToRows,
             ToVec, ToMeta, ToInverted, ToGc, Cons
    <3> QED BY <2>2, <3>1, <3>2, <3>3
  <2> QED BY <2>1, <2>2
<1>3. /\ r0 \in Mutation /\ r0.todo = steps \o r /\ r0.mem = run.mem
      /\ r0.by = run.by /\ r0.op = run.op /\ r0.branch = run.branch
      /\ r0.now = run.now /\ r0.file = run.file
      /\ r0.compatible = run.compatible
  <2>1. r0 = [run EXCEPT !.todo = steps \o r] /\ r0 \in Mutation
    BY <1>1, <1>2, ThenFacts
  <2> HIDE DEF r0, steps
  <2> QED BY <1>1, <2>1 DEF Mutation
<1>4. /\ WriteDb(run.by, HealthDb)
      /\ run' = [r0 EXCEPT !.drop = HealthDrop, !.mem = HealthMem]
  <2>1. r0.mem = run.mem
    BY <1>3
  <2> QED BY <2>1 DEF Health, HealthDb, HealthDrop, HealthMem, HealthCatalog, Missing
<1>5. HealthDrop \subseteq Chunk /\ HealthMem \subseteq Chunk
  BY <1>1, RemovableType, RebuiltType DEF HealthDrop, HealthMem, Missing, Mutation
<1>6. HealthDb \in Database
  BY <1>1 DEF HealthDb, HealthCatalog, Database, Mutation
<1> HIDE DEF r0, steps
<1>7. run' \in Mutation
  BY <1>3, <1>4, <1>5 DEF Mutation
<1>8. /\ run'.todo = r0.todo /\ run'.drop = HealthDrop /\ run'.mem = HealthMem
      /\ run'.by = r0.by /\ run'.op = r0.op /\ run'.branch = r0.branch
      /\ run'.now = r0.now /\ run'.file = r0.file
      /\ run'.compatible = r0.compatible
  BY <1>3, <1>4 DEF Mutation
<1> QED BY <1>2, <1>3, <1>4, <1>6, <1>7, <1>8

\* So does a health check.
LEMMA TypedHealth ==
  ASSUME Typed, Health, Db(run.by) \in Database,
         NEW r \in Seq(StepName), run.todo = Cons("health", r)
  PROVE  Typed'
<1>1. run' \in Mutation /\ HealthDb \in Database /\ WriteDb(run.by, HealthDb)
  BY HealthFields
<1>2. run.by \in Proc
  BY DEF Typed, Health, At, Mutation
<1>3. db' \in Database \cup {None} /\ gone' \in [Proc -> Database \cup {None}]
  BY <1>1, <1>2, DbType
<1> QED BY <1>1, <1>3 DEF Typed, Health, repo, lease

\* So does the removal of the rows of dropped chunks.
LEMMA TypedRows ==
  ASSUME Typed, Rows, Db(run.by) \in Database
  PROVE  Typed'
<1>1. run \in Mutation /\ run.todo # <<>> /\ run.by \in Proc
  BY DEF Typed, At, Rows, Mutation
<1>2. run' \in Mutation
  BY <1>1, DoneFacts DEF Rows
<1>3. [Db(run.by) EXCEPT !.chunks = @ \ run.drop] \in Database
  BY DEF Database
<1>4. db' \in Database \cup {None} /\ gone' \in [Proc -> Database \cup {None}]
  BY <1>1, <1>3, DbType DEF Rows
<1>5. inv' \in [Proc -> SUBSET Chunk]
  BY <1>1 DEF Typed, Rows
<1> QED BY <1>2, <1>4, <1>5 DEF Typed, Rows, repo, lease

\* So does the collection of unreferenced rows.
LEMMA TypedGc ==
  ASSUME Typed, Gc, Db(run.by) \in Database
  PROVE  Typed'
<1>1. run \in Mutation /\ run.todo # <<>> /\ run.by \in Proc
  BY DEF Typed, At, Gc, Mutation
<1>2. run' \in Mutation
  BY <1>1, DoneFacts DEF Gc
<1>3. [Db(run.by) EXCEPT !.embeddings = @ \cap TextsOf(Db(run.by).chunks),
                         !.chunks = @ \cap Referenced(Db(run.by).catalog)] \in Database
  BY DEF Database
<1>4. db' \in Database \cup {None} /\ gone' \in [Proc -> Database \cup {None}]
  BY <1>1, <1>3, DbType DEF Gc
<1> QED BY <1>2, <1>4 DEF Typed, Gc, repo, lease

\* Clear, and the two steps that clear the caches and the database.
LEMMA ClearFields ==
  ASSUME Typed, Clear
  PROVE  /\ run' \in Mutation /\ run'.todo = Tail(run.todo) /\ run'.mem = {}
         /\ run'.by = run.by /\ run'.op = run.op /\ run'.branch = run.branch
         /\ run'.now = run.now /\ run'.file = run.file
         /\ Typed'
<1>1. run \in Mutation /\ run.todo # <<>>
  BY DEF Typed, At, Clear
<1> DEFINE r0 == Then(<<>>, run)
<1>2. r0 = [run EXCEPT !.todo = Tail(run.todo)] /\ r0 \in Mutation
  BY <1>1, ThenFacts, Literals
<1>3. run' = [r0 EXCEPT !.mem = {}]
  BY DEF Clear
<1> HIDE DEF r0
<1>4. run' \in Mutation
  BY <1>2, <1>3 DEF Mutation
<1>5. /\ run'.todo = Tail(run.todo) /\ run'.mem = {}
      /\ run'.by = run.by /\ run'.op = run.op /\ run'.branch = run.branch
      /\ run'.now = run.now /\ run'.file = run.file
  BY <1>1, <1>2, <1>3 DEF Mutation
<1>6. inv' \in [Proc -> SUBSET Chunk]
  BY DEF Typed, Clear
<1> QED BY <1>4, <1>5, <1>6 DEF Typed, Clear, repo, files, lease

\* So does the wipe before a forced run.
LEMMA TypedWipe ==
  ASSUME Typed, Wipe
  PROVE  Typed' /\ run' \in Mutation
<1>1. run \in Mutation /\ run.todo # <<>>
  BY DEF Typed, At, Wipe
<1>2. run' \in Mutation
  BY <1>1, DoneFacts DEF Wipe
<1>3. hashes' \in [Namespace -> Tree] /\ failed' \in [Namespace -> SUBSET Chunk]
  BY NoHashesType DEF Typed, Wipe
<1> QED BY <1>2, <1>3 DEF Typed, Wipe, repo, memory, lease

Cleared == [EmptyDatabase EXCEPT !.versions = Db(run.by).versions]

\* What clearing the database sets.
LEMMA ClearDbFields ==
  ASSUME Typed, ClearDb, Db(run.by) \in Database
  PROVE  /\ run' \in Mutation /\ run'.todo = Tail(run.todo) /\ run'.compatible
         /\ run'.by = run.by /\ run'.op = run.op /\ run'.branch = run.branch
         /\ run'.now = run.now /\ run'.file = run.file
         /\ run'.mem = run.mem
         /\ Cleared \in Database /\ WriteDb(run.by, Cleared)
         /\ Typed'
<1>1. run \in Mutation /\ run.todo # <<>> /\ run.by \in Proc
  BY DEF Typed, At, ClearDb, Mutation
<1> DEFINE r0 == Then(<<>>, run)
<1>2. r0 = [run EXCEPT !.todo = Tail(run.todo)] /\ r0 \in Mutation
  BY <1>1, ThenFacts, Literals
<1>3. run' = [r0 EXCEPT !.compatible = TRUE] /\ WriteDb(run.by, Cleared)
  BY DEF ClearDb, Cleared
<1> HIDE DEF r0
<1>4. run' \in Mutation
  BY <1>2, <1>3 DEF Mutation
<1>5. /\ run'.todo = Tail(run.todo) /\ run'.compatible
      /\ run'.by = run.by /\ run'.op = run.op /\ run'.branch = run.branch
      /\ run'.now = run.now /\ run'.file = run.file
      /\ run'.mem = run.mem
  BY <1>1, <1>2, <1>3 DEF Mutation
<1>6. Cleared \in Database
  BY EmptyType DEF Cleared, Database
<1>7. db' \in Database \cup {None} /\ gone' \in [Proc -> Database \cup {None}]
  BY <1>1, <1>3, <1>6, DbType
<1>8. failed' \in [Namespace -> SUBSET Chunk]
  BY DEF ClearDb
<1> QED BY <1>3, <1>4, <1>5, <1>6, <1>7, <1>8 DEF Typed, ClearDb, lease

\* The values that Retry names.
Batch == failed[Key(run.file)]
RetryDb(stored) == [Db(run.by) EXCEPT !.embeddings = @ \cup TextsOf(stored),
                                      !.catalog[run.now] = @ \cup stored]

\* What a retry of the failed batches makes of the database d: some are stored, the others
\* fail again, and only where requests may fail.
RetryGives(d) ==
  \E again \in SUBSET Batch :
      LET stored == Batch \ again IN
      /\ again # {} => world.fails
      /\ RetryDb(stored) \in Database
      /\ RetryDb(stored).embeddings = d.embeddings \cup TextsOf(stored)
      /\ RetryDb(stored).catalog = [d.catalog EXCEPT ![run.now] = @ \cup stored]
      /\ RetryDb(stored).chunks = d.chunks
      /\ RetryDb(stored).versions = d.versions
      /\ RetryDb(stored).format = d.format
      /\ WriteDb(run.by, RetryDb(stored))
      /\ inv' = [inv EXCEPT ![run.by] = @ \cup stored]
      /\ run' \in Mutation
      /\ run'.todo = IF stored = {} THEN <<"putFailed">> ELSE Cons("putFailed", ToVec(<<>>))
      /\ run'.mem = run.mem \cup stored /\ run'.records = again
      /\ run'.by = run.by /\ run'.op = run.op /\ run'.branch = run.branch
      /\ run'.now = run.now /\ run'.file = run.file

\* A retry gives that.
LEMMA RetryFields ==
  ASSUME Typed, Retry, Db(run.by) \in Database, run.todo = <<"retry">>
  PROVE  RetryGives(Db(run.by))
<1>1. run \in Mutation /\ run.todo # <<>> /\ Tail(run.todo) = <<>> /\ run.by \in Proc
      /\ run.now \in Branch /\ run.file \in Branch
  BY LiteralPlaces DEF Typed, At, Retry, Mutation
<1> DEFINE steps(stored) == <<"putFailed">> \o (IF stored = {} THEN <<>> ELSE Saving)
<1>2. PICK again \in SUBSET Batch :
           /\ again # {} => world.fails
           /\ WriteDb(run.by, RetryDb(Batch \ again))
           /\ inv' = [inv EXCEPT ![run.by] = @ \cup (Batch \ again)]
           /\ run' = [Then(steps(Batch \ again), run)
                        EXCEPT !.mem = @ \cup (Batch \ again), !.records = again]
  BY DEF Retry, RetryDb, Batch
<1> DEFINE stored == Batch \ again
           todo == IF stored = {} THEN <<"putFailed">> ELSE Cons("putFailed", ToVec(<<>>))
<1>3. Batch \subseteq Chunk
  BY <1>1, KeyType DEF Batch, Typed
<1>4. RetryDb(stored) \in Database
      /\ RetryDb(stored).embeddings = Db(run.by).embeddings \cup TextsOf(stored)
      /\ RetryDb(stored).catalog = [Db(run.by).catalog EXCEPT ![run.now] = @ \cup stored]
      /\ RetryDb(stored).chunks = Db(run.by).chunks
      /\ RetryDb(stored).versions = Db(run.by).versions
      /\ RetryDb(stored).format = Db(run.by).format
  <2> DEFINE d == [Db(run.by) EXCEPT !.embeddings = @ \cup TextsOf(stored)]
  <2>1. stored \subseteq Chunk /\ TextsOf(stored) \subseteq Text
    BY <1>3, TextType
  <2>2. /\ d \in Database /\ d.embeddings = Db(run.by).embeddings \cup TextsOf(stored)
        /\ d.catalog = Db(run.by).catalog /\ d.chunks = Db(run.by).chunks
        /\ d.versions = Db(run.by).versions /\ d.format = Db(run.by).format
    BY <2>1 DEF Database
  <2>3. RetryDb(stored) = [d EXCEPT !.catalog[run.now] = @ \cup stored]
    BY DEF RetryDb
  <2> HIDE DEF d, stored
  <2> QED BY <1>1, <2>1, <2>2, <2>3 DEF Database
<1>5. steps(stored) \in Seq(StepName) /\ steps(stored) = todo /\ todo \o <<>> = todo
  <2>1. todo \in Seq(StepName) /\ steps(stored) = todo
    <3>1. CASE stored = {}
      <4>1. <<"putFailed">> \o <<>> = <<"putFailed">>
        BY DEF StepName
      <4>2. <<"putFailed">> \in Seq(StepName)
        BY DEF StepName
      <4> QED BY <3>1, <4>1, <4>2
    <3>2. CASE stored # {}
      <4>1. <<"putFailed">> \o Saving = Cons("putFailed", ToVec(<<>>))
        BY DEF Saving, ToVec, ToMeta, ToInverted, Cons
      <4>2. Cons("putFailed", ToVec(<<>>)) \in Seq(StepName)
        BY Literals, Places, StepFacts DEF StepName
      <4> QED BY <3>2, <4>1, <4>2
    <3> QED BY <3>1, <3>2
  <2> HIDE DEF todo
  <2> QED BY <2>1, ConcatEmptySeq
<1> DEFINE r0 == Then(todo, run)
<1>6. /\ r0 \in Mutation /\ r0.todo = todo /\ r0.mem = run.mem
      /\ r0.by = run.by /\ r0.op = run.op /\ r0.branch = run.branch
      /\ r0.now = run.now /\ r0.file = run.file
  <2>1. r0 = [run EXCEPT !.todo = todo] /\ r0 \in Mutation
    <3>1. todo \in Seq(StepName) /\ todo \o <<>> = todo
      BY <1>5
    <3> HIDE DEF todo
    <3> QED BY <1>1, <3>1, ThenFacts
  <2> HIDE DEF r0, todo
  <2> QED BY <1>1, <2>1 DEF Mutation
<1>7. run' = [r0 EXCEPT !.mem = @ \cup stored, !.records = again]
  BY <1>2, <1>5
<1>8. run' \in Mutation /\ run'.todo = todo /\ run'.mem = run.mem \cup stored
      /\ run'.records = again
      /\ run'.by = run.by /\ run'.op = run.op /\ run'.branch = run.branch
      /\ run'.now = run.now /\ run'.file = run.file
  <2>1. again \subseteq Chunk /\ stored \subseteq Chunk
    BY <1>3
  <2> HIDE DEF r0, todo, stored
  <2>2. run' \in Mutation
    BY <1>6, <1>7, <2>1 DEF Mutation
  <2> QED BY <1>6, <1>7, <2>2 DEF Mutation
<1> QED BY <1>2, <1>4, <1>8 DEF RetryGives

\* A retry keeps the types.
LEMMA TypedRetry ==
  ASSUME Typed, Retry, Db(run.by) \in Database, run.todo = <<"retry">>
  PROVE  Typed'
<1>1. run.by \in Proc /\ run.file \in Branch
  BY DEF Typed, Retry, At, Mutation
<1>2. Batch \subseteq Chunk
  BY <1>1, KeyType DEF Batch, Typed
<1>3. PICK again \in SUBSET Batch :
        /\ RetryDb(Batch \ again) \in Database
        /\ WriteDb(run.by, RetryDb(Batch \ again))
        /\ inv' = [inv EXCEPT ![run.by] = @ \cup (Batch \ again)]
        /\ run' \in Mutation
  <2>1. RetryGives(Db(run.by))
    BY RetryFields
  <2> QED BY <2>1 DEF RetryGives
<1>4. db' \in Database \cup {None} /\ gone' \in [Proc -> Database \cup {None}]
  BY <1>1, <1>3, DbType
<1>5. inv' \in [Proc -> SUBSET Chunk]
  BY <1>1, <1>2, <1>3 DEF Typed
<1> QED BY <1>3, <1>4, <1>5 DEF Typed, Retry, repo, lease

\* So does an exception, which puts the set-aside vectors back if the rebuild threw it.
LEMMA TypedThrow ==
  ASSUME Typed, Throw, run \in Mutation
  PROVE  Typed'
<1>1. NewPublication({}) \in Publication
  BY PublicationType
<1>2. pub' \in [vec : Publication \cup {None}, meta : Publication \cup {None},
                bakVec : Publication \cup {None}, bakMeta : Publication \cup {None}]
  BY <1>1 DEF Typed, Throw, NoPublication
<1> QED BY <1>2 DEF Typed, Throw, GiveUp, repo, memory

\* So does a kill.
LEMMA TypedKill ==
  ASSUME Typed, Kill
  PROVE  Typed'
BY DEF Typed, Kill, repo, files

\* So does a reader that reopens the index.
LEMMA TypedRefresh ==
  ASSUME Typed, NEW p \in Proc, Refresh(p)
  PROVE  Typed'
BY DEF Typed, Refresh, repo, files, lease

\* The values that Open names, in a world in which only a project's own index is killed.
Reopens == crashed \/ mode[run.by] = "none"
OpenPub == IF crashed THEN NoPublication ELSE pub
OpenDb == IF crashed \/ db = None THEN EmptyDatabase ELSE db
OpenInverted == IF crashed THEN None ELSE inverted
OpenHashes == IF crashed THEN [k \in Namespace |-> NoHashes] ELSE hashes
OpenFailed == IF crashed THEN [k \in Namespace |-> {}] ELSE failed
OpenBranch == IF Reopens THEN branch ELSE run.now
OpenStrayed == IF crashed THEN {} ELSE strayed

\* Open finds a readable pair, and what it then makes of the artifacts and of the run.
LEMMA OpenFields ==
  ASSUME Typed, Handles, Open, run \in Mutation, run.todo = <<"open">>, Readable(OpenPub)
  PROVE  /\ pub' = OpenPub /\ inverted' = OpenInverted /\ db' = OpenDb
         /\ hashes' = OpenHashes /\ failed' = OpenFailed
         /\ mode' = [mode EXCEPT ![run.by] = "writer"]
         /\ inverted' # None => inv'[run.by] = inverted'
         /\ inv' \in [Proc -> SUBSET Chunk]
         /\ gone'[run.by] = None /\ gone' \in [Proc -> Database \cup {None}]
         /\ \A q \in Proc : gone'[q] # None =>
              gone[q] # None \/ (crashed /\ q # run.by /\ mode[q] = "writer")
         /\ run' \in Mutation
         /\ \/ run'.todo = Plan(run.op)
            \/ world.gc /\ run'.todo = Cons("health", Plan(run.op))
         /\ run'.branch = OpenBranch /\ run'.now = OpenBranch /\ run'.file = OpenBranch
         /\ run'.mem = Keys(OpenPub) /\ strayed' = OpenStrayed
         /\ run'.compatible = \/ world.scope = "global"
                              \/ OpenDb.format
                              \/ Keys(OpenPub) = {} /\ OpenDb.chunks = {}
                                   /\ OpenHashes[Key(OpenBranch)] = NoHashes
         /\ run'.by = run.by /\ run'.op = run.op
         /\ UNCHANGED lease
<1>1. crashed => world.scope = "project"
  BY DEF Handles, Typed, Calm
<1>2. /\ run.by \in Proc /\ run.op \in Ops /\ run.now \in Branch /\ branch \in Branch
      /\ gone[run.by] = None /\ Db(run.by) = db
      /\ run.todo # <<>> /\ Tail(run.todo) = <<>>
  <2>1. run # None
    BY NoneAssumption
  <2> QED BY <2>1, LiteralPlaces DEF Typed, Handles, Mutation, Db
<1>3. Recovered(pub) = OpenPub
  BY <1>1 DEF Recovered, OpenPub
<1>4. ~Reopens => db # None
  BY <1>2 DEF Reopens, Handles, Typed
<1> DEFINE resets == crashed /\ world.scope = "project"
           d == IF resets \/ (Reopens /\ db = None) THEN EmptyDatabase
                ELSE IF Reopens THEN db ELSE Db(run.by)
           cached == IF crashed THEN NoHashes ELSE hashes[Key(OpenBranch)]
           checks == IF crashed /\ world.scope = "global" THEN <<"health">> ELSE <<>>
<1>5. resets = crashed /\ d = OpenDb /\ checks = <<>>
  <2>1. resets = crashed
    BY <1>1 DEF Typed
  <2>2. checks = <<>>
    BY <1>1
  <2>3. d = OpenDb
    <3>1. CASE crashed
      BY <2>1, <3>1 DEF OpenDb
    <3>2. CASE ~crashed /\ Reopens
      BY <2>1, <3>2 DEF OpenDb
    <3>3. CASE ~crashed /\ ~Reopens
      BY <1>2, <1>4, <2>1, <3>3 DEF OpenDb
    <3> QED BY <3>1, <3>2, <3>3
  <2> QED BY <2>1, <2>2, <2>3
<1>6. OpenBranch \in Branch /\ Key(OpenBranch) \in Namespace
      /\ cached = OpenHashes[Key(OpenBranch)]
  BY <1>2, KeyType DEF OpenBranch, OpenHashes
<1>7. PICK due \in BOOLEAN :
        /\ due => world.gc
        /\ run' = [Then(checks \o (IF due THEN <<"health">> ELSE <<>>) \o Plan(run.op), run)
                     EXCEPT !.branch = OpenBranch, !.now = OpenBranch, !.file = OpenBranch,
                            !.mem = Keys(OpenPub),
                            !.compatible = Compatible(d, Keys(OpenPub), cached)]
  BY <1>3 DEF Open, OpenBranch, Reopens
<1>8. /\ pub' = OpenPub
      /\ mode' = [mode EXCEPT ![run.by] = "writer"]
      /\ inverted' = IF resets THEN None ELSE inverted
      /\ inv' = [inv EXCEPT ![run.by] = IF inverted' # None THEN inverted'
                                        ELSE IF Reopens THEN {} ELSE @]
      /\ hashes' = OpenHashes
      /\ failed' = IF resets THEN [k \in Namespace |-> {}] ELSE failed
      /\ db' = IF Reopens THEN d ELSE db
      /\ gone' = [q \in Proc |->
             IF q = run.by /\ Reopens THEN None
             ELSE IF q # run.by /\ resets /\ mode[q] = "writer" /\ gone[q] = None
                  THEN db ELSE gone[q]]
      /\ UNCHANGED lease
      /\ strayed' = IF resets THEN {} ELSE strayed
  BY <1>3 DEF Open, Reopens, OpenHashes
<1>9. inverted' = OpenInverted /\ failed' = OpenFailed /\ db' = OpenDb
      /\ strayed' = OpenStrayed
  <2> HIDE DEF d, resets
  <2>1. inverted' = OpenInverted /\ failed' = OpenFailed /\ strayed' = OpenStrayed
    BY <1>5, <1>8 DEF OpenInverted, OpenFailed, OpenStrayed
  <2>2. CASE Reopens
    BY <1>5, <1>8, <2>1, <2>2
  <2>3. CASE ~Reopens
    BY <1>4, <1>8, <2>1, <2>3 DEF OpenDb, Reopens
  <2> QED BY <2>2, <2>3
<1>10. /\ inverted' # None => inv'[run.by] = inverted'
       /\ inv' \in [Proc -> SUBSET Chunk]
  <2>1. inverted' # None => inverted' \in SUBSET Chunk
    BY <1>9 DEF OpenInverted, Typed
  <2>2. inv[run.by] \in SUBSET Chunk
    BY <1>2 DEF Typed
  <2> DEFINE words == IF inverted' # None THEN inverted' ELSE IF Reopens THEN {} ELSE inv[run.by]
  <2>3. words \in SUBSET Chunk
    BY <2>1, <2>2
  <2>4. inv' = [inv EXCEPT ![run.by] = words] /\ (inverted' # None => words = inverted')
    BY <1>8
  <2> HIDE DEF words
  <2> QED BY <1>2, <2>3, <2>4 DEF Typed
<1>11. /\ gone'[run.by] = None /\ gone' \in [Proc -> Database \cup {None}]
       /\ \A q \in Proc : gone'[q] # None =>
            gone[q] # None \/ (crashed /\ q # run.by /\ mode[q] = "writer")
  BY <1>2, <1>5, <1>8 DEF Typed
<1>12. PICK todo \in {Plan(run.op), Cons("health", Plan(run.op))} :
         /\ todo \in Seq(StepName) /\ (todo = Plan(run.op) \/ world.gc)
         /\ run' = [Then(todo, run)
                      EXCEPT !.branch = OpenBranch, !.now = OpenBranch, !.file = OpenBranch,
                             !.mem = Keys(OpenPub),
                             !.compatible = Compatible(d, Keys(OpenPub), cached)]
  <2>1. Plan(run.op) \in Seq(StepName) /\ Cons("health", Plan(run.op)) \in Seq(StepName)
    <3>1. \A op \in Ops : Plan(op) \in Rests(op)
      BY Literals DEF Rests, Ops
    <3> QED BY <1>2, <3>1, RestFacts
  <2>2. <<>> \o <<"health">> \o Plan(run.op) = Cons("health", Plan(run.op))
    BY <2>1 DEF Cons
  <2>3. <<>> \o <<>> \o Plan(run.op) = Plan(run.op)
    BY <2>1
  <2>4. CASE due
    BY <1>5, <1>7, <2>1, <2>2, <2>4
  <2>5. CASE ~due
    BY <1>5, <1>7, <2>1, <2>3, <2>5
  <2> QED BY <2>4, <2>5
<1>13. Compatible(d, Keys(OpenPub), cached) =
         \/ world.scope = "global"
         \/ OpenDb.format
         \/ Keys(OpenPub) = {} /\ OpenDb.chunks = {}
              /\ OpenHashes[Key(OpenBranch)] = NoHashes
  BY <1>5, <1>6 DEF Compatible
<1>14. Keys(OpenPub) \subseteq Chunk
  BY <1>3, RecoveredType
<1> DEFINE r0 == Then(todo, run)
           fit == Compatible(d, Keys(OpenPub), cached)
<1>15. r0 \in Mutation /\ r0.todo = todo /\ r0.by = run.by /\ r0.op = run.op
  <2>1. r0 = [run EXCEPT !.todo = todo] /\ r0 \in Mutation
    <3>1. todo \in Seq(StepName) /\ todo \o <<>> = todo
      BY <1>12, ConcatEmptySeq
    <3>2. run \in Mutation /\ run.todo # <<>> /\ Tail(run.todo) = <<>>
      BY <1>2
    <3> HIDE DEF r0
    <3> DEFINE opened == Then(todo, run)
    <3>3. opened = [run EXCEPT !.todo = todo \o Tail(run.todo)] /\ opened \in Mutation
      BY <3>1, <3>2, ThenFacts
    <3>4. todo \o Tail(run.todo) = todo
      BY <3>1, <3>2
    <3>5. r0 = opened
      BY DEF r0
    <3> HIDE DEF opened
    <3> QED BY <3>3, <3>4, <3>5
  <2> HIDE DEF r0
  <2> QED BY <1>12, <2>1 DEF Mutation
<1>16. fit \in BOOLEAN
  BY DEF Compatible
<1>17. /\ run' \in Mutation /\ run'.todo = todo
       /\ run'.branch = OpenBranch /\ run'.now = OpenBranch /\ run'.file = OpenBranch
       /\ run'.mem = Keys(OpenPub) /\ run'.compatible = fit
       /\ run'.by = run.by /\ run'.op = run.op
  <2>1. run' = [r0 EXCEPT !.branch = OpenBranch, !.now = OpenBranch, !.file = OpenBranch,
                          !.mem = Keys(OpenPub), !.compatible = fit]
    BY <1>12
  <2> HIDE DEF r0, fit
  <2>2. run' \in Mutation
    BY <1>6, <1>14, <1>15, <1>16, <2>1 DEF Mutation
  <2> QED BY <1>15, <2>1, <2>2 DEF Mutation
<1>18. \/ run'.todo = Plan(run.op)
       \/ world.gc /\ run'.todo = Cons("health", Plan(run.op))
  BY <1>12, <1>17
<1>19. run'.compatible = \/ world.scope = "global"
                         \/ OpenDb.format
                         \/ Keys(OpenPub) = {} /\ OpenDb.chunks = {}
                              /\ OpenHashes[Key(OpenBranch)] = NoHashes
  BY <1>13, <1>17
<1> HIDE DEF fit
<1> QED BY <1>8, <1>9, <1>10, <1>11, <1>17, <1>18, <1>19

\* So does opening the index.
LEMMA TypedOpen ==
  ASSUME Typed, Handles, Open, run \in Mutation, run.todo = <<"open">>, Readable(OpenPub)
  PROVE  Typed'
<1>1. /\ pub' = OpenPub /\ inverted' = OpenInverted /\ db' = OpenDb
      /\ hashes' = OpenHashes /\ failed' = OpenFailed
      /\ mode' = [mode EXCEPT ![run.by] = "writer"]
      /\ inv' \in [Proc -> SUBSET Chunk] /\ gone' \in [Proc -> Database \cup {None}]
      /\ run' \in Mutation /\ UNCHANGED lease /\ strayed' = OpenStrayed
  BY OpenFields
<1>2. OpenPub \in [vec : Publication \cup {None}, meta : Publication \cup {None},
                   bakVec : Publication \cup {None}, bakMeta : Publication \cup {None}]
  BY DEF Typed, OpenPub, NoPublication
<1>3. /\ OpenInverted \in (SUBSET Chunk) \cup {None}
      /\ OpenHashes \in [Namespace -> Tree] /\ OpenFailed \in [Namespace -> SUBSET Chunk]
      /\ OpenDb \in Database \cup {None}
  <2>1. OpenInverted \in (SUBSET Chunk) \cup {None}
    BY DEF Typed, OpenInverted
  <2>2. OpenHashes \in [Namespace -> Tree] /\ OpenFailed \in [Namespace -> SUBSET Chunk]
    BY NoHashesType DEF Typed, OpenHashes, OpenFailed
  <2>3. OpenDb \in Database \cup {None}
    BY EmptyType DEF Typed, OpenDb
  <2> QED BY <2>1, <2>2, <2>3
<1>4. mode' \in [Proc -> {"none", "writer"}]
  BY <1>1 DEF Typed
<1>5. UNCHANGED <<world, refs, branch>>
  BY DEF Open
<1>6. strayed' \subseteq Branch
  BY <1>1 DEF Typed, OpenStrayed
<1> QED BY <1>1, <1>2, <1>3, <1>4, <1>5, <1>6 DEF Typed, lease

-----------------------------------------------------------------------------
(* What keeps artifacts Whole.                                             *)

\* A chunk is referenced if a branch has it.
LEMMA ReferencedFacts ==
  ASSUME NEW catalog, NEW c
  PROVE  c \in Referenced(catalog) <=> \E b \in Branch : c \in catalog[b]
BY DEF Referenced

\* A text is of the chunks if one of them has it.
LEMMA TextsFacts ==
  ASSUME NEW chunks, NEW t
  PROVE  t \in TextsOf(chunks) <=> \E c \in chunks : c[2] = t
BY DEF TextsOf

\* More chunks have more texts.
LEMMA TextsMonotone ==
  ASSUME NEW a, NEW b, a \subseteq b
  PROVE  TextsOf(a) \subseteq TextsOf(b)
BY DEF TextsOf

\* A chunk of a tree is a file that is there, with its text.
LEMMA ChunkFacts ==
  ASSUME NEW t \in Tree, NEW c
  PROVE  c \in ChunksOf(t) <=> \E f \in File : t[f] # Absent /\ c = <<f, t[f]>>
BY DEF ChunksOf, Present

\* An empty hash cache has no chunks.
LEMMA NoChunks == ChunksOf(NoHashes) = {}
BY DEF ChunksOf, Present, NoHashes

\* The files of a branch have a place.
LEMMA PlaceType ==
  ASSUME NEW w, NEW b \in Branch
  PROVE  Place(w, b) \in Namespace
BY DEF Place, Namespace

\* What is whole with nothing missing is whole whatever may be missing; where health
\* checks are asked for nothing is said of what is missing; and nothing more is said of
\* the run's branch than of the others.
LEMMA WholeWeaker ==
  ASSUME NEW w, NEW T, NEW S, NEW own, NEW d, NEW keys, NEW caches, NEW records, NEW present,
         NEW other, NEW later,
         T \subseteq Branch, caches \in [Namespace -> Tree],
         Whole(w, T, S, own, d, keys, caches, records, present),
         present = File \/ "health" \in w.ops
  PROVE  Whole(w, T, S, other, d, keys, caches, records, later)
<1>1. ASSUME NEW b \in T, NEW p, NEW q, "health" \in w.ops \/ p = File,
             Accounted(w, d, b, caches[Place(w, b)], records[Place(w, b)], p)
      PROVE  Accounted(w, d, b, caches[Place(w, b)], records[Place(w, b)], q)
  <2>1. CASE "health" \in w.ops
    BY <2>1 DEF Accounted
  <2>2. CASE p = File
    <3>1. caches[Place(w, b)] \in Tree
      BY PlaceType
    <3>2. \A c \in ChunksOf(caches[Place(w, b)]) : c[1] \in File
      BY <3>1, ChunkFacts
    <3> QED BY <1>1, <2>2, <3>2 DEF Accounted
  <2> QED BY <1>1, <2>1, <2>2
<1>2. \A b \in T \ S : Accounted(w, d, b, caches[Place(w, b)], records[Place(w, b)],
                                 IF b = other THEN later ELSE File)
  <2> TAKE b \in T \ S
  <2> DEFINE p == IF b = own THEN present ELSE File
             q == IF b = other THEN later ELSE File
  <2>1. "health" \in w.ops \/ p = File
    OBVIOUS
  <2>2. Accounted(w, d, b, caches[Place(w, b)], records[Place(w, b)], p)
    BY DEF Whole
  <2> HIDE DEF p, q
  <2>3. Accounted(w, d, b, caches[Place(w, b)], records[Place(w, b)], q)
    BY <1>1, <2>1, <2>2
  <2> QED BY <2>3 DEF q
<1> QED BY <1>2 DEF Whole

\* Of a branch that has strayed less is said.
LEMMA WholeMoved ==
  ASSUME NEW w, NEW T, NEW S, NEW R, NEW own, NEW d, NEW keys, NEW caches, NEW records,
         NEW present, S \subseteq R,
         Whole(w, T, S, own, d, keys, caches, records, present)
  PROVE  Whole(w, T, R, own, d, keys, caches, records, present)
BY DEF Whole

\* An index without data.
LEMMA WholeEmpty ==
  ASSUME NEW w, NEW T, NEW S, NEW own, NEW d, NEW caches, NEW records, NEW present,
         T \subseteq Branch, d \in Database,
         d.chunks = {}, d.catalog = [b \in Branch |-> {}],
         \A k \in Namespace : caches[k] = NoHashes /\ records[k] = {}
  PROVE  Whole(w, T, S, own, d, {}, caches, records, present)
<1>1. Referenced(d.catalog) = {}
  BY DEF Referenced
<1>2. TextsOf({}) = {}
  BY DEF TextsOf
<1>3. \A b \in T : /\ caches[Place(w, b)] = NoHashes /\ records[Place(w, b)] = {}
                   /\ d.catalog[b] = {}
  BY PlaceType
<1>4. ASSUME NEW b \in T, NEW p
      PROVE  /\ Apart(d, b, records[Place(w, b)])
             /\ Accounted(w, d, b, caches[Place(w, b)], records[Place(w, b)], p)
  BY <1>3, NoChunks DEF Apart, Accounted
<1>5. Marked(w, d, {}, caches)
  BY DEF Marked
<1> QED BY <1>1, <1>2, <1>4, <1>5 DEF Whole

\* e is what Health makes of the database d of a whole index without failed chunks.
Checked(w, T, S, own, d, keys, caches, records, present, missing, drop, e) ==
  /\ T \subseteq Branch /\ own \in T /\ d \in Database /\ caches \in [Namespace -> Tree]
  /\ Whole(w, T, S, own, d, keys, caches, records, present)
  /\ \A k \in Namespace : records[k] = {}
  /\ missing \subseteq keys
  /\ "health" \in w.ops \/ \A c \in missing : c[1] \notin present
  /\ drop = Removable(missing, [d.catalog EXCEPT ![own] = @ \ missing])
  /\ e \in Database /\ e = [d EXCEPT !.catalog = [d.catalog EXCEPT ![own] = @ \ missing]]

CheckedWhole(w, T, S, own, d, keys, caches, records, present, drop, e) ==
  /\ Whole(w, T, S, own, e, keys \ drop, caches, records, present)
  /\ Rebuilt(d, keys, drop) = keys \ drop

\* A health check removes from the run's branch the chunks of files that are missing, and
\* drops those that no branch refers to.
LEMMA WholeHealth ==
  ASSUME NEW w, NEW T, NEW S, NEW own, NEW d, NEW keys, NEW caches, NEW records, NEW present,
         NEW missing, NEW drop, NEW e,
         Checked(w, T, S, own, d, keys, caches, records, present, missing, drop, e)
  PROVE  CheckedWhole(w, T, S, own, d, keys, caches, records, present, drop, e)
<1> DEFINE catalog == [d.catalog EXCEPT ![own] = @ \ missing]
<1> USE DEF Checked
<1>1. /\ catalog[own] = d.catalog[own] \ missing
      /\ \A b \in Branch : b # own => catalog[b] = d.catalog[b]
      /\ \A b \in Branch : catalog[b] \subseteq d.catalog[b]
  BY DEF Database
<1>2. /\ e.catalog = catalog /\ e.chunks = d.chunks /\ e.embeddings = d.embeddings
      /\ e.versions = d.versions /\ e.format = d.format
  BY DEF Database
<1>0. drop = Removable(missing, catalog)
  OBVIOUS
<1> HIDE DEF catalog
<1>3. keys = Referenced(d.catalog) /\ keys \subseteq d.chunks /\ TextsOf(keys) \subseteq d.embeddings
  BY DEF Whole
<1>4. keys \ drop = Referenced(catalog)
  <2>1. ASSUME NEW c \in keys \ drop PROVE c \in Referenced(catalog)
    <3>1. CASE c \in missing
      BY <1>0, <2>1, <3>1 DEF Removable
    <3>2. CASE c \notin missing
      <4>1. PICK b \in Branch : c \in d.catalog[b]
        BY <1>3, <2>1, ReferencedFacts
      <4>2. c \in catalog[b]
        BY <1>1, <3>2, <4>1
      <4> QED BY <4>2, ReferencedFacts
    <3> QED BY <3>1, <3>2
  <2>2. ASSUME NEW c \in Referenced(catalog) PROVE c \in keys \ drop
    <3>1. c \in keys
      BY <1>1, <1>3, <2>2, ReferencedFacts
    <3>2. c \notin drop
      BY <1>0, <2>2 DEF Removable
    <3> QED BY <3>1, <3>2
  <2> QED BY <2>1, <2>2
<1>5. keys \ drop \subseteq e.chunks /\ TextsOf(keys \ drop) \subseteq e.embeddings
  BY <1>2, <1>3, TextsMonotone
<1>6. \A b \in Branch \ T : e.catalog[b] = {}
  BY <1>1, <1>2 DEF Whole
<1>7. Marked(w, e, keys \ drop, caches)
  BY <1>2 DEF Whole, Marked
<1>8. \A b \in T : records[Place(w, b)] = {}
  BY PlaceType
<1>9. \A b \in T : Apart(e, b, records[Place(w, b)])
  BY <1>8 DEF Apart
<1>10. ASSUME NEW b \in T \ S
       PROVE  Accounted(w, e, b, caches[Place(w, b)], records[Place(w, b)],
                        IF b = own THEN present ELSE File)
  <2>1. Accounted(w, d, b, caches[Place(w, b)], records[Place(w, b)],
                        IF b = own THEN present ELSE File)
    BY DEF Whole
  <2>2. CASE b # own
    BY <1>1, <1>2, <2>1, <2>2 DEF Accounted
  <2>3. CASE b = own
    BY <1>1, <1>2, <2>1, <2>3 DEF Accounted
  <2> QED BY <2>2, <2>3
<1>11. Rebuilt(d, keys, drop) = keys \ drop
  BY <1>3, TextsFacts DEF Rebuilt
<1>12. Whole(w, T, S, own, e, keys \ drop, caches, records, present)
  BY <1>2, <1>4, <1>5, <1>6, <1>7, <1>9, <1>10 DEF Whole
<1> QED BY <1>11, <1>12 DEF CheckedWhole

\* Rows that no catalog needs are deleted, or everything that none needs.
LEMMA WholeSwept ==
  ASSUME NEW w, NEW T, NEW S, NEW own, NEW d, NEW e, NEW keys, NEW caches, NEW records,
         NEW present, T \subseteq Branch,
         Whole(w, T, S, own, d, keys, caches, records, present),
         \A k \in Namespace : records[k] = {}, e.catalog = d.catalog,
         e.versions = d.versions, e.format = d.format, e.chunks \subseteq d.chunks,
         keys \subseteq e.chunks, TextsOf(keys) \subseteq e.embeddings
  PROVE  Whole(w, T, S, own, e, keys, caches, records, present)
<1>1. Marked(w, e, keys, caches)
  BY DEF Whole, Marked
<1>2. \A b \in T : records[Place(w, b)] = {}
  BY PlaceType
<1>3. \A b \in T : Apart(e, b, records[Place(w, b)])
  BY <1>2 DEF Apart
<1>4. \A b \in T \ S : Accounted(w, e, b, caches[Place(w, b)], records[Place(w, b)],
                                 IF b = own THEN present ELSE File)
  BY DEF Whole, Accounted
<1> QED BY <1>1, <1>3, <1>4 DEF Whole

-----------------------------------------------------------------------------
(* What embedding, cataloguing and retrying keep Whole.                    *)

\* The other branches of a world in which more than one is indexed.
Separate(w, T, own, records) ==
  \A b \in T \ {own} : Place(w, b) # Place(w, own) /\ records[Place(w, b)] = {}

\* Where a run is, what it holds and to which files it writes.
LEMMA RunFacts ==
  ASSUME Typed, Handles, run # None
  PROVE  /\ run \in Mutation /\ run.by \in Proc /\ run.by \in world.procs
         /\ run.op \in Ops /\ run.op \in world.ops
         /\ run.branch \in Branch /\ run.branch \in Tracked
         /\ run.now \in Branch /\ run.now \in Tracked
         /\ run.file \in Branch /\ run.file \in Tracked
         /\ FailedBranch \in Branch /\ FailedBranch \in Tracked
         /\ run.mem \subseteq Chunk /\ run.records \subseteq Chunk /\ run.drop \subseteq Chunk
         /\ run.todo \in Seq(StepName)
         /\ Tracked \in SUBSET Branch
         /\ Db(run.by) = db /\ holder = run.by
         /\ \A b \in Branch : Key(b) = Place(world, b) /\ Key(b) \in Namespace
         /\ Separate(world, Tracked, run.branch, failed)
         /\ Together \/ (Moved /\ world.scope = "project" /\ ~world.fails)
         /\ world \in World /\ Calm(world)
<1>1. run \in Mutation
  BY DEF Typed
<1>2. /\ run.by \in Proc /\ run.op \in Ops /\ run.todo \in Seq(StepName)
      /\ run.branch \in Branch /\ run.now \in Branch /\ run.file \in Branch
      /\ run.mem \subseteq Chunk /\ run.records \subseteq Chunk /\ run.drop \subseteq Chunk
  BY <1>1 DEF Mutation
<1>3. /\ run.by \in world.procs /\ run.op \in world.ops
      /\ Db(run.by) = db /\ holder = run.by /\ Placed
  BY DEF Handles, Db
<1>4. Tracked \in SUBSET Branch
  BY DEF Typed, Tracked, TrackedIn
<1>5. \A b \in Branch : Key(b) = Place(world, b) /\ Key(b) \in Namespace
  BY KeyType
<1>6. Separate(world, Tracked, run.branch, failed)
  <2> SUFFICES ASSUME NEW b \in Tracked, b # run.branch
               PROVE  Place(world, b) # Place(world, run.branch) /\ failed[Place(world, b)] = {}
    BY DEF Separate
  <2>1. world.checkouts
    BY <1>3 DEF Placed, Tracked, TrackedIn
  <2>2. world.scope = "project" /\ ~world.fails
    BY <2>1 DEF Typed, Calm
  <2>3. Place(world, b) = b /\ Place(world, run.branch) = run.branch
    BY <2>2 DEF Place
  <2>4. b \in Namespace
    BY <1>4 DEF Namespace
  <2> QED BY <2>2, <2>3, <2>4 DEF Handles
<1>7. FailedBranch \in Branch /\ FailedBranch \in Tracked
  BY <1>2, <1>3 DEF FailedBranch, Placed
<1>8. Together \/ (Moved /\ world.scope = "project" /\ ~world.fails)
  <2>1. CASE world.checkouts
    BY <1>3, <2>1 DEF Placed, Typed, Calm
  <2>2. CASE ~world.checkouts
    BY <1>3, <2>2 DEF Placed, Tracked, TrackedIn, Together
  <2> QED BY <2>1, <2>2
<1> QED BY <1>1, <1>2, <1>3, <1>4, <1>5, <1>6, <1>7, <1>8 DEF Typed, Placed

\* What Embed adds to a whole index: all that is chosen of the tree is stored, or has failed.
EmbedAdds(f1, f2) ==
  LET chosen == (Kept \cup NewChunks \cup Retried) \ (f1 \cup (f2 \ run.existing)) IN
  /\ run.mem \cup Stored(f1, f2) = run.mem \cup chosen
  /\ run.mem \cup Stored(f1, f2) \cup f1 \cup f2 \subseteq db.chunks \cup NewChunks
  /\ TextsOf(run.mem \cup Stored(f1, f2)) \subseteq Known(f1) \cup TextsOf(Retried \ f2)
  /\ (f1 \cup f2) \cap (chosen \cup run.previous) = {}
  /\ "health" \notin world.ops /\ run.branch \notin strayed =>
       chosen \cup f1 \cup f2 = ChunksOf(run.seen)
  /\ Pending \cup Retried = {} =>
       chosen \subseteq run.previous /\ f1 \cup (f2 \ run.existing) = {}

\* What Embed stores and what it records, from what Scan saw of a whole index.
LEMMA WholeEmbed ==
  ASSUME Typed, Handles, run # None, run \in Mutation, ScannedPhase, db \in Database,
         NEW f1 \in SUBSET Asked, NEW f2 \in SUBSET Retried
  PROVE  EmbedAdds(f1, f2)
<1> DEFINE own == run.branch
           cache == hashes[Key(own)]
           old == failed[Key(own)]
           lost == f1 \cup (f2 \ run.existing)
           chosen == (Kept \cup NewChunks \cup Retried) \ lost
<1>1. /\ own \in Branch /\ Key(own) = Place(world, own) /\ cache \in Tree /\ tree \in Tree
      /\ run.seen = tree /\ run.previous = db.catalog[own] /\ run.existing = db.catalog[own]
      /\ run.tx = db /\ run.changed \subseteq Present(tree)
      /\ own \notin strayed => run.changed = Changed(db)
      /\ own \in Tracked /\ (Together \/ (own \in strayed /\ ~world.fails))
      /\ Key(run.now) \in Namespace
  BY KeyType, TreeType, RunFacts DEF Typed, ScannedPhase, Mutation, Moved
<1>2. /\ run.mem = Referenced(db.catalog) /\ run.mem \subseteq db.chunks
      /\ TextsOf(run.mem) \subseteq db.embeddings
      /\ Apart(db, own, old)
      /\ own \notin strayed => Accounted(world, db, own, cache, old, Looked)
  BY <1>1 DEF ScannedPhase, Settled, WholeNow, Whole
<1>3. db.catalog[own] \subseteq run.mem
  BY <1>1, <1>2, ReferencedFacts
<1>4. \A c \in NewChunks : c[1] \in run.changed /\ c = <<c[1], tree[c[1]]>>
  BY DEF NewChunks
<1>5. \A c \in Retried : c \in old /\ c[1] \in Present(tree) \ run.changed
  <2>1. \A c \in Retried : c \in failed[Key(run.now)] /\ c[1] \in Present(tree) \ run.changed
    BY <1>1 DEF Retried, Retryable
  <2>2. CASE Together
    BY <2>1, <2>2 DEF Together
  <2>3. CASE ~world.fails
    BY <1>1, <2>1, <2>3 DEF Handles
  <2> QED BY <1>1, <2>2, <2>3
<1>6. \A c \in Kept : c \in db.catalog[own] /\ c[1] \in Present(tree) \ run.changed
  BY <1>1 DEF Kept
<1>7. old \subseteq db.chunks /\ db.catalog[own] \cap old = {}
  BY <1>2 DEF Apart
<1>8. lost = f1 \cup f2 /\ f1 \cap db.catalog[own] = {} /\ f2 \cap db.catalog[own] = {}
  BY <1>1, <1>5, <1>7 DEF Asked, Pending
<1>9. Pending \cap Retried = {} /\ f1 \subseteq Pending /\ Pending \subseteq NewChunks
      /\ NewChunks \subseteq Pending \cup db.catalog[own]
  BY <1>1, <1>4, <1>5 DEF Asked, Pending
<1>10. run.mem \cup Stored(f1, f2) = run.mem \cup chosen
  BY <1>3, <1>6, <1>8, <1>9 DEF Stored
<1>11. run.mem \cup Stored(f1, f2) \cup f1 \cup f2 \subseteq db.chunks \cup NewChunks
  BY <1>2, <1>5, <1>7, <1>9 DEF Stored
<1>12. TextsOf(run.mem \cup Stored(f1, f2)) \subseteq Known(f1) \cup TextsOf(Retried \ f2)
  <2> SUFFICES ASSUME NEW c \in run.mem \cup Stored(f1, f2)
               PROVE  c[2] \in Known(f1) \cup TextsOf(Retried \ f2)
    BY TextsFacts
  <2>1. CASE c \in run.mem
    BY <1>1, <1>2, <2>1, TextsFacts DEF Known
  <2>2. CASE c \in Pending \ f1
    <3>1. CASE c[2] \in run.tx.embeddings
      BY <3>1 DEF Known
    <3>2. CASE c[2] \notin run.tx.embeddings
      <4>1. c \in Asked \ f1
        BY <2>2, <3>2 DEF Asked
      <4> QED BY <4>1, TextsFacts DEF Known
    <3> QED BY <3>1, <3>2
  <2>3. CASE c \in Retried \ f2
    BY <2>3, TextsFacts
  <2> QED BY <2>1, <2>2, <2>3 DEF Stored
<1>13. (f1 \cup f2) \cap (chosen \cup run.previous) = {}
  BY <1>1, <1>8
<1>14. ASSUME "health" \notin world.ops, own \notin strayed
       PROVE  chosen \cup f1 \cup f2 = ChunksOf(tree)
  <2>0. run.now = own /\ run.file = own
    BY <1>1, <1>14 DEF Together
  <2>1. chosen \cup f1 \cup f2 = Kept \cup NewChunks \cup Retried
    BY <1>8, <1>9
  <2>2. \A f \in Present(tree) \ run.changed : own \in db.versions /\ cache[f] = tree[f]
    BY <1>1, <1>14, <2>0 DEF Changed
  <2>3. ASSUME NEW c \in Kept \cup NewChunks \cup Retried
        PROVE  c \in ChunksOf(tree)
    <3>1. CASE c \in NewChunks
      <4>1. c[1] \in Present(tree)
        BY <1>1, <1>4, <3>1
      <4> QED BY <1>4, <3>1, <4>1 DEF ChunksOf
    <3>2. CASE c \in Kept \cup Retried
      <4>1. c[1] \in Present(tree) \ run.changed /\ c \in db.catalog[own] \cup old
        BY <1>5, <1>6, <3>2
      <4>2. own \in db.versions /\ cache[c[1]] = tree[c[1]]
        BY <2>2, <4>1
      <4>3. c \in ChunksOf(cache)
        BY <1>2, <1>14, <4>1, <4>2 DEF Accounted
      <4>4. c = <<c[1], cache[c[1]]>>
        BY <1>1, <4>3, ChunkFacts
      <4>5. c = <<c[1], tree[c[1]]>>
        BY <4>2, <4>4
      <4> QED BY <4>1, <4>5 DEF ChunksOf
    <3> QED BY <2>3, <3>1, <3>2
  <2>4. ASSUME NEW c \in ChunksOf(tree)
        PROVE  c \in Kept \cup NewChunks \cup Retried
    <3>1. PICK f \in Present(tree) : c = <<f, tree[f]>>
      BY DEF ChunksOf
    <3>2. CASE f \in run.changed
      BY <3>1, <3>2 DEF NewChunks
    <3>3. CASE f \notin run.changed
      <4>1. own \in db.versions /\ cache[f] = tree[f] /\ f \in File /\ tree[f] # Absent
        BY <2>2, <3>1, <3>3 DEF Present
      <4>2. c \in ChunksOf(cache)
        BY <1>1, <3>1, <4>1, ChunkFacts
      <4>3. f \in Looked
        BY <3>1, <4>1 DEF Looked
      <4>4. c[1] = f
        BY <3>1
      <4>5. c \in db.catalog[own] \cup old
        BY <1>2, <1>14, <4>1, <4>2, <4>3, <4>4 DEF Accounted
      <4> QED BY <1>1, <2>0, <3>1, <3>3, <4>4, <4>5 DEF Kept, Retried, Retryable
    <3> QED BY <3>2, <3>3
  <2> QED BY <2>1, <2>3, <2>4
<1>15. Pending \cup Retried = {} => chosen \subseteq run.previous /\ lost = {}
  BY <1>1, <1>6, <1>8, <1>9
<1> QED BY <1>1, <1>10, <1>11, <1>12, <1>13, <1>14, <1>15 DEF EmbedAdds

\* e is what Catalog makes of the database d of a whole index: x is what Embed stored in
\* the transaction, the chosen chunks are the branch's, and the others are dropped with
\* their last branch.  The cache and the records go to the files of `now` and `put`, which
\* are not the branch's if the run was moved.
Catalogued(w, T, S, own, now, put, d, keys, caches, records, present, x, chosen, failures,
           seen, drop, e) ==
  /\ T \subseteq Branch /\ own \in T /\ now \in T /\ put \in T
  /\ \/ now = own /\ put = own
     \/ /\ own \in S /\ now \in S /\ failures = {} /\ w.scope = "project"
        /\ \A b \in T : records[Place(w, b)] = {}
  /\ d \in Database /\ x \in Database /\ e \in Database
  /\ caches \in [Namespace -> Tree] /\ records \in [Namespace -> SUBSET Chunk]
  /\ chosen \subseteq Chunk /\ failures \subseteq Chunk /\ seen \in Tree
  /\ Whole(w, T, S, own, d, keys, caches, records, present)
  /\ Separate(w, T, own, records)
  /\ x.catalog = d.catalog /\ x.versions = d.versions
  /\ keys \cup chosen \cup failures \subseteq x.chunks
  /\ TextsOf(keys \cup chosen) \subseteq x.embeddings
  /\ failures \cap (chosen \cup d.catalog[own]) = {}
  /\ "health" \notin w.ops /\ own \notin S => chosen \cup failures = ChunksOf(seen)
  /\ drop = Removable(d.catalog[own] \ chosen, [x.catalog EXCEPT ![own] = chosen])
  /\ e.chunks = x.chunks \ drop
  /\ e.embeddings = x.embeddings \cap TextsOf(x.chunks \ drop)
  /\ e.catalog = [x.catalog EXCEPT ![own] = chosen]
  /\ e.versions = d.versions \cup {own} /\ e.format

\* What is whole once the catalog, the cache and the failed batches of its branch are
\* published, and the vectors that a rebuild keeps.
CatalogWhole(w, T, S, own, now, put, keys, caches, records, x, chosen, failures, seen, drop,
             e) ==
  /\ Whole(w, T, S, own, e, (keys \cup chosen) \ drop,
           [caches EXCEPT ![Place(w, now)] = seen],
           [records EXCEPT ![Place(w, put)] = failures], File)
  /\ Rebuilt(x, keys \cup chosen, drop) = (keys \cup chosen) \ drop

\* Publishing a catalog, with the rows that lost their last branch gone.
LEMMA WholeCatalog ==
  ASSUME NEW w, NEW T, NEW S, NEW own, NEW now, NEW put, NEW d, NEW keys, NEW caches,
         NEW records, NEW present, NEW x, NEW chosen, NEW failures, NEW seen, NEW drop, NEW e,
         Catalogued(w, T, S, own, now, put, d, keys, caches, records, present, x, chosen,
                    failures, seen, drop, e)
  PROVE  CatalogWhole(w, T, S, own, now, put, keys, caches, records, x, chosen, failures, seen,
                      drop, e)
<1> DEFINE all == keys \cup chosen
           caches2 == [caches EXCEPT ![Place(w, now)] = seen]
           records2 == [records EXCEPT ![Place(w, put)] = failures]
<1> USE DEF Catalogued
<1>1. /\ e.catalog[own] = chosen /\ x.catalog[own] = d.catalog[own]
      /\ \A b \in Branch : b # own => e.catalog[b] = d.catalog[b]
  BY DEF Database
<1>2. keys = Referenced(d.catalog)
  BY DEF Whole
<1>3. all \ drop = Referenced(e.catalog)
  <2>1. ASSUME NEW c \in all \ drop PROVE c \in Referenced(e.catalog)
    <3>1. CASE c \in chosen
      BY <1>1, <3>1, ReferencedFacts
    <3>2. CASE c \notin chosen
      <4>1. PICK b \in Branch : c \in d.catalog[b]
        BY <1>2, <2>1, <3>2, ReferencedFacts
      <4>2. CASE b # own
        BY <1>1, <4>1, <4>2, ReferencedFacts
      <4>3. CASE b = own
        BY <2>1, <3>2, <4>1, <4>3 DEF Removable
      <4> QED BY <4>2, <4>3
    <3> QED BY <3>1, <3>2
  <2>2. ASSUME NEW c \in Referenced(e.catalog) PROVE c \in all \ drop
    <3>1. PICK b \in Branch : c \in e.catalog[b]
      BY <2>2, ReferencedFacts
    <3>2. c \in all
      BY <1>1, <1>2, <3>1, ReferencedFacts
    <3>3. c \notin drop
      BY <2>2 DEF Removable
    <3> QED BY <3>2, <3>3
  <2> QED BY <2>1, <2>2
<1>4. all \ drop \subseteq e.chunks
  OBVIOUS
<1>5. TextsOf(all \ drop) \subseteq e.embeddings
  <2> DEFINE rest == all \ drop
             rows == x.chunks \ drop
  <2>1. rest \subseteq rows /\ rest \subseteq all
    OBVIOUS
  <2>2. TextsOf(all) \subseteq x.embeddings /\ e.embeddings = x.embeddings \cap TextsOf(rows)
    OBVIOUS
  <2> HIDE DEF rest, rows, all
  <2>3. TextsOf(rest) \subseteq TextsOf(rows) /\ TextsOf(rest) \subseteq TextsOf(all)
    BY <2>1, TextsMonotone
  <2>4. TextsOf(rest) \subseteq e.embeddings
    BY <2>2, <2>3
  <2> QED BY <2>4 DEF rest
<1>6. \A b \in Branch \ T : e.catalog[b] = {}
  BY <1>1 DEF Whole
<1>7. Marked(w, e, all \ drop, caches2)
  BY DEF Marked
<1>8. \A b \in T : Place(w, b) \in Namespace
  BY PlaceType
<1>9. ASSUME NEW b \in T
      PROVE  /\ Apart(e, b, records2[Place(w, b)])
             /\ b \notin S =>
                  Accounted(w, e, b, caches2[Place(w, b)], records2[Place(w, b)], File)
  <2>1. CASE b = own /\ now = own /\ put = own
    <3>1. drop \subseteq d.catalog[own]
      BY DEF Removable
    <3>2. failures \subseteq e.chunks
      BY <3>1
    <3>3. Apart(e, own, failures)
      BY <1>1, <3>2 DEF Apart
    <3>4. own \notin S => Accounted(w, e, own, seen, failures, File)
      BY <1>1 DEF Accounted
    <3>5. caches2[Place(w, own)] = seen /\ records2[Place(w, own)] = failures
      BY <1>8, <2>1
    <3> QED BY <2>1, <3>3, <3>4, <3>5
  <2>2. CASE b # own /\ now = own /\ put = own
    <3>1. b \notin S => Accounted(w, d, b, caches[Place(w, b)], records[Place(w, b)], File)
      BY <2>2 DEF Whole
    <3>2. e.catalog[b] = d.catalog[b] /\ (b \in e.versions <=> b \in d.versions)
      BY <1>1, <2>2
    <3>3. b \notin S => Accounted(w, e, b, caches[Place(w, b)], records[Place(w, b)], File)
      BY <3>1, <3>2 DEF Accounted
    <3>4. /\ caches2[Place(w, b)] = caches[Place(w, b)]
          /\ records2[Place(w, b)] = {} /\ records[Place(w, b)] = {}
      BY <1>8, <2>2 DEF Separate
    <3> QED BY <3>3, <3>4 DEF Apart
  <2>3. CASE ~(now = own /\ put = own)
    <3>1. /\ own \in S /\ now \in S /\ failures = {} /\ w.scope = "project"
          /\ records[Place(w, b)] = {} /\ records2[Place(w, b)] = {}
      BY <1>8, <2>3
    <3>2. ASSUME b \notin S
          PROVE  Accounted(w, e, b, caches2[Place(w, b)], records2[Place(w, b)], File)
      <4>1. b # own /\ b # now /\ Place(w, b) = b /\ Place(w, now) = now
        BY <3>1, <3>2 DEF Place
      <4>2. caches2[Place(w, b)] = caches[Place(w, b)]
        BY <1>8, <4>1
      <4>3. Accounted(w, d, b, caches[Place(w, b)], records[Place(w, b)], File)
        BY <3>2, <4>1 DEF Whole
      <4>4. e.catalog[b] = d.catalog[b] /\ (b \in e.versions <=> b \in d.versions)
        BY <1>1, <4>1
      <4> QED BY <3>1, <4>2, <4>3, <4>4 DEF Accounted
    <3> QED BY <3>1, <3>2 DEF Apart
  <2> QED BY <2>1, <2>2, <2>3
<1>10. Rebuilt(x, all, drop) = all \ drop
  BY TextsFacts DEF Rebuilt
<1> HIDE DEF all, caches2, records2
<1>11. Whole(w, T, S, own, e, all \ drop, caches2, records2, File)
  BY <1>3, <1>4, <1>5, <1>6, <1>7, <1>9 DEF Whole
<1> QED BY <1>10, <1>11 DEF all, caches2, records2, CatalogWhole

\* e is what Retry makes of the database d of a whole index, when all but some of the
\* failed chunks are stored.
Reembedded(w, T, S, own, d, keys, caches, records, again, stored, e) ==
  /\ T \subseteq Branch /\ own \in T /\ d \in Database /\ caches \in [Namespace -> Tree]
  /\ records \in [Namespace -> SUBSET Chunk]
  /\ Whole(w, T, S, own, d, keys, caches, records, File)
  /\ Separate(w, T, own, records)
  /\ again \subseteq records[Place(w, own)] /\ stored = records[Place(w, own)] \ again
  /\ e \in Database
  /\ e.embeddings = d.embeddings \cup TextsOf(stored)
  /\ e.catalog = [d.catalog EXCEPT ![own] = @ \cup stored]
  /\ e.chunks = d.chunks /\ e.versions = d.versions /\ e.format = d.format

\* Failed chunks that are embedded after all are added to the catalog.
LEMMA WholeRetry ==
  ASSUME NEW w, NEW T, NEW S, NEW own, NEW d, NEW keys, NEW caches, NEW records, NEW again,
         NEW stored, NEW e,
         Reembedded(w, T, S, own, d, keys, caches, records, again, stored, e)
  PROVE  Whole(w, T, S, own, e, keys \cup stored, caches,
               [records EXCEPT ![Place(w, own)] = again], File)
<1> USE DEF Reembedded
<1> DEFINE batch == records[Place(w, own)]
           records2 == [records EXCEPT ![Place(w, own)] = again]
<1>1. /\ e.catalog[own] = d.catalog[own] \cup stored
      /\ \A b \in Branch : b # own => e.catalog[b] = d.catalog[b]
  BY DEF Database
<1>2. /\ keys = Referenced(d.catalog) /\ keys \subseteq d.chunks
      /\ TextsOf(keys) \subseteq d.embeddings
      /\ batch \subseteq d.chunks /\ d.catalog[own] \cap batch = {}
  BY DEF Whole, Apart
<1>3. keys \cup stored = Referenced(e.catalog)
  <2>1. ASSUME NEW c \in keys \cup stored PROVE c \in Referenced(e.catalog)
    <3>1. CASE c \in stored
      BY <1>1, <3>1, ReferencedFacts
    <3>2. CASE c \in keys
      <4>1. PICK b \in Branch : c \in d.catalog[b]
        BY <1>2, <3>2, ReferencedFacts
      <4>2. c \in e.catalog[b]
        BY <1>1, <4>1
      <4> QED BY <4>2, ReferencedFacts
    <3> QED BY <2>1, <3>1, <3>2
  <2>2. ASSUME NEW c \in Referenced(e.catalog) PROVE c \in keys \cup stored
    <3>1. PICK b \in Branch : c \in e.catalog[b]
      BY <2>2, ReferencedFacts
    <3>2. c \in d.catalog[b] \/ c \in stored
      BY <1>1, <3>1
    <3> QED BY <1>2, <3>2, ReferencedFacts
  <2> QED BY <2>1, <2>2
<1>4. keys \cup stored \subseteq e.chunks /\ TextsOf(keys \cup stored) \subseteq e.embeddings
  BY <1>2, TextsFacts
<1>5. \A b \in Branch \ T : e.catalog[b] = {}
  BY <1>1 DEF Whole
<1>6. Marked(w, e, keys \cup stored, caches)
  BY <1>2 DEF Whole, Marked
<1>7. /\ records2[Place(w, own)] = again
      /\ \A b \in T \ {own} : records2[Place(w, b)] = {} /\ records[Place(w, b)] = {}
  <2>1. \A b \in T : Place(w, b) \in Namespace
    BY PlaceType
  <2> QED BY <2>1 DEF Separate
<1>8. ASSUME NEW b \in T
      PROVE  /\ Apart(e, b, records2[Place(w, b)])
             /\ b \notin S =>
                  Accounted(w, e, b, caches[Place(w, b)], records2[Place(w, b)], File)
  <2>1. b \notin S => Accounted(w, d, b, caches[Place(w, b)], records[Place(w, b)], File)
    BY DEF Whole
  <2>2. CASE b = own
    <3>1. e.catalog[own] \cup again = d.catalog[own] \cup batch
      BY <1>1
    <3>2. own \notin S => Accounted(w, e, own, caches[Place(w, own)], again, File)
      BY <2>1, <2>2, <3>1 DEF Accounted
    <3>3. Apart(e, own, again)
      BY <1>1, <1>2 DEF Apart
    <3> QED BY <1>7, <2>2, <3>2, <3>3
  <2>3. CASE b # own
    <3>1. e.catalog[b] = d.catalog[b]
      BY <1>1, <2>3
    <3>2. b \notin S => Accounted(w, e, b, caches[Place(w, b)], {}, File)
      BY <1>7, <2>1, <2>3, <3>1 DEF Accounted
    <3> QED BY <1>7, <2>3, <3>2 DEF Apart
  <2> QED BY <2>2, <2>3
<1> HIDE DEF records2
<1>9. Whole(w, T, S, own, e, keys \cup stored, caches, records2, File)
  BY <1>3, <1>4, <1>5, <1>6, <1>8 DEF Whole
<1> QED BY <1>9 DEF records2

-----------------------------------------------------------------------------
(* What a run holds, and where it is.                                      *)

\* A process in a run writes to the database on disk.
LEMMA WriteFacts ==
  ASSUME Typed, Handles, run # None, NEW d, WriteDb(run.by, d)
  PROVE  db' = d /\ gone' = gone
BY DEF Handles, WriteDb

\* A step of a run that leaves the process, the user's tree and the lease alone.
LEMMA HandlesKept ==
  ASSUME Typed, Handles, run # None, run' \in Mutation,
         run'.by = run.by, run'.op = run.op, run'.branch = run.branch, run'.now = run.now,
         run'.file = run.file \/ run'.file = run.now,
         UNCHANGED <<world, repo, mode, gone, lease>>,
         db # None => db' # None,
         ~world.fails => \A k \in Namespace : failed'[k] = {}
  PROVE  Handles'
<1>1. run' # None
  BY NoneAssumption
<1>2. Tracked' = Tracked /\ strayed' = strayed /\ branch' = branch
  BY DEF Tracked, TrackedIn, repo
<1>3. Placed'
  BY <1>2 DEF Handles, Placed, Together, Moved
<1> QED BY <1>1, <1>3 DEF Handles, lease

\* The two lists a step may be in the middle of, by the step.
LEMMA PublishingHeads ==
  ASSUME NEW k \in Seq(StepName), Publishing(k)
  PROVE  \/ run.todo = k /\ Shown
         \/ /\ run.todo = ToVec(k) /\ run.todo # <<>> /\ Head(run.todo) = "putVec"
            /\ Tail(run.todo) = ToMeta(k)
         \/ /\ run.todo = ToMeta(k) /\ run.todo # <<>> /\ Head(run.todo) = "putMeta"
            /\ Tail(run.todo) = ToInverted(k)
            /\ pub.vec # None /\ Keys(pub) = run.mem
         \/ /\ run.todo = ToInverted(k) /\ run.todo # <<>> /\ Head(run.todo) = "putInverted"
            /\ Tail(run.todo) = k
            /\ pub.meta = pub.vec /\ Keys(pub) = run.mem
<1>1. CASE run.todo = ToVec(k)
  BY <1>1, Places
<1>2. CASE run.todo = ToMeta(k) /\ pub.vec # None /\ Keys(pub) = run.mem
  BY <1>2, Places
<1>3. CASE run.todo = ToInverted(k) /\ pub.meta = pub.vec /\ Keys(pub) = run.mem
  BY <1>3, Places
<1> QED BY <1>1, <1>2, <1>3 DEF Publishing

\* The steps of a rebuild, one by one.
LEMMA RestoringHeads ==
  ASSUME NEW k \in Seq(StepName), Restoring(k)
  PROVE  \/ /\ run.todo = ToAside(k) /\ run.todo # <<>> /\ Head(run.todo) = "setAside"
            /\ Tail(run.todo) = AgainVec(k) /\ Restorable(pub.vec, pub.meta)
         \/ /\ run.todo = AgainVec(k) /\ run.todo # <<>> /\ Head(run.todo) = "putVec"
            /\ Tail(run.todo) = AgainMeta(k) /\ Restorable(pub.bakVec, pub.bakMeta)
         \/ /\ run.todo = AgainMeta(k) /\ run.todo # <<>> /\ Head(run.todo) = "putMeta"
            /\ Tail(run.todo) = ToDropVec(k) /\ Restorable(pub.bakVec, pub.bakMeta)
         \/ /\ run.todo = ToDropVec(k) /\ run.todo # <<>> /\ Head(run.todo) = "dropVec"
            /\ Tail(run.todo) = ToDropMeta(k)
         \/ /\ run.todo = ToDropMeta(k) /\ run.todo # <<>> /\ Head(run.todo) = "dropMeta"
            /\ Tail(run.todo) = k
<1>1. CASE run.todo = ToAside(k) /\ Restorable(pub.vec, pub.meta)
  BY <1>1, RebuildPlaces
<1>2. CASE run.todo = AgainVec(k) /\ Restorable(pub.bakVec, pub.bakMeta)
  BY <1>2, RebuildPlaces
<1>3. CASE run.todo = AgainMeta(k) /\ Restorable(pub.bakVec, pub.bakMeta)
  BY <1>3, RebuildPlaces
<1>4. CASE run.todo = ToDropVec(k)
  BY <1>4, RebuildPlaces
<1>5. CASE run.todo = ToDropMeta(k)
  BY <1>5, RebuildPlaces
<1> QED BY <1>1, <1>2, <1>3, <1>4, <1>5 DEF Restoring

ArtifactStep == {"setAside", "putVec", "putMeta", "dropVec", "dropMeta", "putInverted"}

\* Where a phase may be: which steps are next in it.
LEMMA ReadyHeads ==
  ASSUME Typed, Handles, run # None, ReadyPhase
  PROVE  \/ run.todo = <<>> /\ run.op = "health"
         \/ run.todo = Indexing /\ Head(run.todo) = "scan"
         \/ run.todo = Plan("force") /\ run.op = "force" /\ Head(run.todo) = "clear"
         \/ run.todo = <<"retry">> /\ run.op = "retry" /\ Head(run.todo) = "retry"
         \/ /\ Head(run.todo) = "health" /\ (world.gc \/ run.op = "health")
            /\ \E r \in Rests(run.op) : run.todo = Cons("health", r)
<1>1. run.op \in Ops
  BY RunFacts
<1>2. CASE run.todo = Indexing
  BY <1>2, LiteralPlaces
<1>3. CASE world.gc /\ \E r \in Rests(run.op) : run.todo = Cons("health", r)
  BY <1>1, <1>3, RestFacts
<1>4. CASE run.todo \in Rests(run.op)
  <2>1. CASE run.op = "health"
    <3>1. <<>> \in Rests(run.op)
      BY <2>1 DEF Rests
    <3> QED BY <1>4, <2>1, <3>1, Literals, LiteralPlaces DEF Rests
  <2>2. CASE run.op = "index"
    BY <1>4, <2>2, Literals, LiteralPlaces DEF Rests
  <2>3. CASE run.op = "force"
    <3>1. Head(Plan("force")) = "clear"
      BY Literals, ForcePlaces, Places, StepFacts DEF StepName
    <3> QED BY <1>4, <2>3, <3>1 DEF Rests
  <2>4. CASE run.op = "retry"
    BY <1>4, <2>4, Literals, LiteralPlaces DEF Rests
  <2> QED BY <1>1, <2>1, <2>2, <2>3, <2>4 DEF Ops
<1> QED BY <1>2, <1>3, <1>4 DEF ReadyPhase

\* The steps that publish what a run has made, and its last ones.
LEMMA PublishHeads ==
  ASSUME Typed, Handles, run # None, NEW m \in Endings, PublishPhase(m)
  PROVE  /\ run.todo # <<>> /\ Target(m)
         /\ \/ Head(run.todo) \in ArtifactStep
               /\ \/ Restoring(ToVec(ToHashes(m)))
                  \/ Publishing(ToHashes(m)) /\ run.todo # ToHashes(m)
            \/ run.todo = ToHashes(m) /\ Head(run.todo) = "putHashes" /\ Shown
            \/ run.todo = ToFailed(m) /\ Head(run.todo) = "putFailed" /\ Shown
               /\ hashes = NewHashes
            \/ run.todo = ToCommit(m) /\ Head(run.todo) = "commit" /\ Shown
               /\ hashes = NewHashes /\ failed = NewFailed
<1>1. m \in Seq(StepName)
  BY EndingFacts
<1>2. ToHashes(m) \in Seq(StepName) /\ ToVec(ToHashes(m)) \in Seq(StepName)
  BY <1>1, EndPlaces, Places
<1>3. CASE Restoring(ToVec(ToHashes(m)))
  <2>1. run.todo # <<>> /\ Head(run.todo) \in ArtifactStep
    BY <1>2, <1>3, RestoringHeads DEF ArtifactStep
  <2> QED BY <1>3, <2>1 DEF PublishPhase
<1>4. CASE Publishing(ToHashes(m))
  <2>1. \/ run.todo = ToHashes(m) /\ Shown
        \/ /\ run.todo # <<>> /\ Head(run.todo) \in {"putVec", "putMeta", "putInverted"}
    BY <1>2, <1>4, PublishingHeads
  <2>2. ToHashes(m) # <<>> /\ Head(ToHashes(m)) = "putHashes"
    BY <1>1, EndPlaces
  <2> QED BY <1>4, <2>1, <2>2 DEF PublishPhase, ArtifactStep
<1>5. CASE run.todo \in {ToFailed(m), ToCommit(m)} /\ ~Restoring(ToVec(ToHashes(m)))
           /\ ~Publishing(ToHashes(m))
  BY <1>1, <1>5, EndPlaces DEF PublishPhase
<1> QED BY <1>3, <1>4, <1>5 DEF PublishPhase

\* The steps of a health check that drops chunks.
LEMMA HealthHeads ==
  ASSUME Typed, Handles, run # None, NEW r \in Rests(run.op), HealthPhase(r)
  PROVE  /\ run.todo # <<>>
         /\ \/ Head(run.todo) \in ArtifactStep
               /\ \/ Restoring(ToRows(r)) /\ run.drop \cap run.mem = {}
                  \/ Publishing(ToGc(r)) /\ run.todo # ToGc(r)
            \/ run.todo = ToRows(r) /\ Head(run.todo) = "rows" /\ run.drop \cap run.mem = {}
            \/ run.todo = ToGc(r) /\ Head(run.todo) = "gc" /\ Shown
<1>1. r \in Seq(StepName)
  BY RunFacts, RestFacts
<1>2. ToGc(r) \in Seq(StepName) /\ ToRows(r) \in Seq(StepName)
  BY <1>1, HealthPlaces
<1>3. CASE Restoring(ToRows(r)) /\ run.drop \cap run.mem = {}
  BY <1>2, <1>3, RestoringHeads DEF ArtifactStep
<1>4. CASE Publishing(ToGc(r))
  <2>1. \/ run.todo = ToGc(r) /\ Shown
        \/ /\ run.todo # <<>> /\ Head(run.todo) \in {"putVec", "putMeta", "putInverted"}
    BY <1>2, <1>4, PublishingHeads
  <2>2. ToGc(r) # <<>> /\ Head(ToGc(r)) = "gc"
    BY <1>1, HealthPlaces
  <2> QED BY <1>4, <2>1, <2>2 DEF ArtifactStep
<1>5. CASE run.todo = ToRows(r) /\ run.drop \cap run.mem = {}
  BY <1>1, <1>5, HealthPlaces
<1> QED BY <1>3, <1>4, <1>5 DEF HealthPhase

\* The steps of a forced run before it indexes.
LEMMA ForceHeads ==
  ASSUME Typed, Handles, run # None, ForcePhase
  PROVE  /\ run.todo # <<>>
         /\ \/ Head(run.todo) \in ArtifactStep /\ Publishing(ToWipe) /\ run.todo # ToWipe
            \/ run.todo = ToWipe /\ Head(run.todo) = "wipe" /\ Shown
            \/ run.todo = ToClearDb /\ Head(run.todo) = "clearDb" /\ Shown
               /\ \A k \in Namespace : hashes[k] = NoHashes
<1>1. CASE Publishing(ToWipe)
  <2>1. \/ run.todo = ToWipe /\ Shown
        \/ /\ run.todo # <<>> /\ Head(run.todo) \in {"putVec", "putMeta", "putInverted"}
    BY <1>1, ForcePlaces, PublishingHeads
  <2> QED BY <1>1, <2>1, ForcePlaces DEF ArtifactStep
<1>2. CASE run.todo = ToClearDb /\ Shown /\ \A k \in Namespace : hashes[k] = NoHashes
  BY <1>2, ForcePlaces
<1> QED BY <1>1, <1>2 DEF ForcePhase

\* The steps of a retry after its requests.
LEMMA RetryHeads ==
  ASSUME Typed, Handles, run # None, RetryPhase
  PROVE  \/ run.todo = <<>> /\ Shown /\ WholeNow(db, run.mem, hashes, failed, File)
         \/ /\ run.todo # <<>> /\ Head(run.todo) \in ArtifactStep /\ Publishing(<<>>)
            /\ WholeNow(db, run.mem, hashes, failed, File)
         \/ /\ run.todo # <<>> /\ Head(run.todo) = "putFailed" /\ WholeNow(db, run.mem, hashes, NewFailed, File)
            /\ \/ Tail(run.todo) = <<>> /\ Shown
               \/ Tail(run.todo) = ToVec(<<>>)
<1>1. <<>> \in Seq(StepName)
  BY Literals
<1>2. CASE Publishing(<<>>) /\ WholeNow(db, run.mem, hashes, failed, File)
  BY <1>1, <1>2, PublishingHeads DEF ArtifactStep
<1>3. CASE run.todo = <<"putFailed">> /\ Shown /\ WholeNow(db, run.mem, hashes, NewFailed, File)
  BY <1>3, LiteralPlaces
<1>4. CASE run.todo = Cons("putFailed", ToVec(<<>>)) /\ WholeNow(db, run.mem, hashes, NewFailed, File)
  <2>1. ToVec(<<>>) \in Seq(StepName)
    BY <1>1, Places
  <2>2. Cons("putFailed", ToVec(<<>>)) # <<>> /\ Head(Cons("putFailed", ToVec(<<>>))) = "putFailed"
        /\ Tail(Cons("putFailed", ToVec(<<>>))) = ToVec(<<>>)
    BY <2>1, StepFacts DEF StepName
  <2> QED BY <1>4, <2>2
<1> QED BY <1>2, <1>3, <1>4 DEF RetryPhase

\* Where a run is when one of its steps is next.
LEMMA AtPlan ==
  ASSUME IInv, NEW s \in {"scan", "clear", "retry", "health"}, At(s)
  PROVE  /\ run # None /\ db # None /\ Settled /\ ReadyPhase
         /\ s # "scan" => Together
         /\ s = "scan" => run.todo = Indexing
         /\ s = "clear" => run.todo = Plan("force") /\ run.op = "force"
         /\ s = "retry" => run.todo = <<"retry">> /\ run.op = "retry"
         /\ s = "health" => /\ world.gc \/ run.op = "health"
                            /\ \E r \in Rests(run.op) : run.todo = Cons("health", r)
<1>1. /\ Typed /\ Handles /\ run # None /\ run.todo # <<>> /\ Head(run.todo) = s
      /\ s \notin ArtifactStep
  BY DEF IInv, At, ArtifactStep
<1>2. InRun /\ db # None
  BY <1>1, LiteralPlaces DEF IInv, Progress
<1>3. CASE ReadyPhase
  <2>1. Head(Indexing) = "scan"
    BY LiteralPlaces
  <2> QED BY <1>1, <1>2, <1>3, <2>1, ReadyHeads DEF ReadyPhase
<1>4. CASE ScannedPhase \/ EmbeddedPhase \/ MetadataPhase \/ EndPhase
  BY <1>1, <1>4, LiteralPlaces DEF ScannedPhase, EmbeddedPhase, MetadataPhase, EndPhase
<1>5. CASE \E m \in Endings : PublishPhase(m)
  BY <1>1, <1>5, PublishHeads
<1>6. CASE \E r \in Rests(run.op) : HealthPhase(r)
  BY <1>1, <1>6, HealthHeads
<1>7. CASE ForcePhase
  BY <1>1, <1>7, ForceHeads
<1>8. CASE RetryPhase
  BY <1>1, <1>8, RetryHeads
<1> QED BY <1>2, <1>3, <1>4, <1>5, <1>6, <1>7, <1>8 DEF InRun

\* The phase a run is in, from the step it takes: a step that indexes,
LEMMA AtIndexing ==
  ASSUME IInv, NEW s \in {"embed", "catalog", "metadata", "open"}, At(s)
  PROVE  /\ run # None
         /\ s # "open" => db # None
         /\ s = "open" => run.todo = <<"open">> /\ Resting
         /\ s = "embed" => ScannedPhase
         /\ s = "catalog" => EmbeddedPhase
         /\ s = "metadata" => MetadataPhase
<1>1. /\ Typed /\ Handles /\ run # None /\ run.todo # <<>> /\ Head(run.todo) = s
      /\ s \notin ArtifactStep
  BY DEF IInv, At, ArtifactStep
<1>2. CASE run.todo = <<"open">> /\ Resting
  BY <1>1, <1>2, LiteralPlaces
<1>3. CASE InRun /\ db # None
  <2>1. CASE ReadyPhase
    BY <1>1, <2>1, ReadyHeads
  <2>2. CASE ScannedPhase \/ EmbeddedPhase \/ MetadataPhase \/ EndPhase
    BY <1>1, <1>3, <2>2, LiteralPlaces DEF ScannedPhase, EmbeddedPhase, MetadataPhase, EndPhase
  <2>3. CASE \E m \in Endings : PublishPhase(m)
    BY <1>1, <2>3, PublishHeads
  <2>4. CASE \E r \in Rests(run.op) : HealthPhase(r)
    BY <1>1, <2>4, HealthHeads
  <2>5. CASE ForcePhase
    BY <1>1, <2>5, ForceHeads
  <2>6. CASE RetryPhase
    BY <1>1, <2>6, RetryHeads
  <2> QED BY <1>3, <2>1, <2>2, <2>3, <2>4, <2>5, <2>6 DEF InRun
<1> QED BY <1>1, <1>2, <1>3 DEF IInv, Progress

\* a step that ends a run,
LEMMA AtEnd ==
  ASSUME IInv, NEW s \in {"putHashes", "putFailed", "commit"}, At(s)
  PROVE  /\ run # None /\ db # None
         /\ \/ \E m \in Endings :
                 /\ Target(m) /\ Shown
                 /\ s = "putHashes" => run.todo = ToHashes(m)
                 /\ s = "putFailed" => run.todo = ToFailed(m) /\ hashes = NewHashes
                 /\ s = "commit" => run.todo = ToCommit(m) /\ hashes = NewHashes
                                      /\ failed = NewFailed
            \/ s = "putFailed" /\ RetryPhase /\ WholeNow(db, run.mem, hashes, NewFailed, File)
                 /\ \/ Tail(run.todo) = <<>> /\ Shown
                    \/ Tail(run.todo) = ToVec(<<>>)
<1>1. /\ Typed /\ Handles /\ run # None /\ run.todo # <<>> /\ Head(run.todo) = s
      /\ s \notin ArtifactStep
  BY DEF IInv, At, ArtifactStep
<1>2. InRun /\ db # None
  BY <1>1, LiteralPlaces DEF IInv, Progress
<1>3. CASE ReadyPhase
  BY <1>1, <1>3, ReadyHeads
<1>4. CASE ScannedPhase \/ EmbeddedPhase \/ MetadataPhase \/ EndPhase
  BY <1>1, <1>4, LiteralPlaces DEF ScannedPhase, EmbeddedPhase, MetadataPhase, EndPhase
<1>5. CASE \E m \in Endings : PublishPhase(m)
  BY <1>1, <1>2, <1>5, PublishHeads
<1>6. CASE \E r \in Rests(run.op) : HealthPhase(r)
  BY <1>1, <1>6, HealthHeads
<1>7. CASE ForcePhase
  BY <1>1, <1>7, ForceHeads
<1>8. CASE RetryPhase
  BY <1>1, <1>2, <1>8, RetryHeads
<1> QED BY <1>2, <1>3, <1>4, <1>5, <1>6, <1>7, <1>8 DEF InRun

\* a step that removes rows,
LEMMA AtSweep ==
  ASSUME IInv, NEW s \in {"rows", "gc", "wipe", "clearDb"}, At(s)
  PROVE  /\ run # None /\ db # None
         /\ s \in {"rows", "gc"} =>
              \E r \in Rests(run.op) :
                /\ HealthPhase(r)
                /\ s = "rows" => run.todo = ToRows(r) /\ run.drop \cap run.mem = {}
                /\ s = "gc" => run.todo = ToGc(r) /\ Shown
         /\ s \in {"wipe", "clearDb"} =>
              /\ ForcePhase /\ Shown
              /\ s = "wipe" => run.todo = ToWipe
              /\ s = "clearDb" => run.todo = ToClearDb
                                    /\ \A k \in Namespace : hashes[k] = NoHashes
<1>1. /\ Typed /\ Handles /\ run # None /\ run.todo # <<>> /\ Head(run.todo) = s
      /\ s \notin ArtifactStep
  BY DEF IInv, At, ArtifactStep
<1>2. InRun /\ db # None
  BY <1>1, LiteralPlaces DEF IInv, Progress
<1>3. CASE ReadyPhase
  BY <1>1, <1>3, ReadyHeads
<1>4. CASE ScannedPhase \/ EmbeddedPhase \/ MetadataPhase \/ EndPhase
  BY <1>1, <1>4, LiteralPlaces DEF ScannedPhase, EmbeddedPhase, MetadataPhase, EndPhase
<1>5. CASE \E m \in Endings : PublishPhase(m)
  BY <1>1, <1>5, PublishHeads
<1>6. CASE \E r \in Rests(run.op) : HealthPhase(r)
  BY <1>1, <1>2, <1>6, HealthHeads
<1>7. CASE ForcePhase
  BY <1>1, <1>2, <1>7, ForceHeads
<1>8. CASE RetryPhase
  BY <1>1, <1>8, RetryHeads
<1> QED BY <1>2, <1>3, <1>4, <1>5, <1>6, <1>7, <1>8 DEF InRun

\* and a step that publishes vectors or the keyword index, which four phases share.
LEMMA AtArtifact ==
  ASSUME IInv, NEW s \in ArtifactStep, At(s)
  PROVE  /\ run # None /\ db # None
         /\ \/ \E m \in Endings :
                 /\ Target(m)
                 /\ \/ Restoring(ToVec(ToHashes(m)))
                    \/ Publishing(ToHashes(m)) /\ run.todo # ToHashes(m)
            \/ \E r \in Rests(run.op) :
                 /\ HealthPhase(r)
                 /\ \/ Restoring(ToRows(r)) /\ run.drop \cap run.mem = {}
                    \/ Publishing(ToGc(r)) /\ run.todo # ToGc(r)
            \/ ForcePhase /\ Publishing(ToWipe) /\ run.todo # ToWipe
            \/ RetryPhase /\ Publishing(<<>>) /\ WholeNow(db, run.mem, hashes, failed, File)
<1>1. /\ Typed /\ Handles /\ run # None /\ run.todo # <<>> /\ Head(run.todo) = s
      /\ s \in {"setAside", "putVec", "putMeta", "dropVec", "dropMeta", "putInverted"}
  BY DEF IInv, At, ArtifactStep
<1>2. InRun /\ db # None
  BY <1>1, LiteralPlaces DEF IInv, Progress
<1>3. CASE ReadyPhase
  BY <1>1, <1>3, ReadyHeads
<1>4. CASE ScannedPhase \/ EmbeddedPhase \/ MetadataPhase \/ EndPhase
  BY <1>1, <1>4, LiteralPlaces DEF ScannedPhase, EmbeddedPhase, MetadataPhase, EndPhase
<1>5. CASE \E m \in Endings : PublishPhase(m)
  BY <1>1, <1>2, <1>5, PublishHeads
<1>6. CASE \E r \in Rests(run.op) : HealthPhase(r)
  BY <1>1, <1>2, <1>6, HealthHeads
<1>7. CASE ForcePhase
  BY <1>1, <1>2, <1>7, ForceHeads
<1>8. CASE RetryPhase
  BY <1>1, <1>2, <1>8, RetryHeads
<1> QED BY <1>2, <1>3, <1>4, <1>5, <1>6, <1>7, <1>8 DEF InRun

\* Where a run is that has no step left.
LEMMA AtNothing ==
  ASSUME IInv, run # None, run.todo = <<>>
  PROVE  /\ db # None
         /\ \/ run.op = "health" /\ Settled
            \/ EndPhase
            \/ run.op = "retry" /\ Shown /\ WholeNow(db, run.mem, hashes, failed, File)
<1>1. Typed /\ Handles
  BY DEF IInv
<1>2. InRun /\ db # None
  BY LiteralPlaces DEF IInv, Progress
<1>3. CASE ReadyPhase
  <2>1. Plan("force") # <<>>
    BY Literals, ForcePlaces, Places, StepFacts DEF StepName
  <2>2. \A r \in Rests(run.op) : Cons("health", r) # <<>>
    BY <1>1, RunFacts, RestFacts
  <2> QED BY <1>1, <1>2, <1>3, <2>1, <2>2, ReadyHeads, LiteralPlaces DEF ReadyPhase
<1>4. CASE ScannedPhase \/ EmbeddedPhase \/ MetadataPhase \/ EndPhase
  BY <1>2, <1>4, LiteralPlaces DEF ScannedPhase, EmbeddedPhase, MetadataPhase
<1>5. CASE \E m \in Endings : PublishPhase(m)
  BY <1>1, <1>5, PublishHeads
<1>6. CASE \E r \in Rests(run.op) : HealthPhase(r)
  BY <1>1, <1>6, HealthHeads
<1>7. CASE ForcePhase
  BY <1>1, <1>7, ForceHeads
<1>8. CASE RetryPhase
  BY <1>1, <1>2, <1>8, RetryHeads DEF RetryPhase
<1> QED BY <1>2, <1>3, <1>4, <1>5, <1>6, <1>7, <1>8 DEF InRun

-----------------------------------------------------------------------------
(* The steps that write the vector files and the keyword index.            *)

\* The tree, the database, the caches and the words in memory stay as they are, and the
\* run goes on to its next step.
StillRun == Done /\ UNCHANGED <<world, repo, hashes, failed, db, memory, lease>>

\* What a step of that kind keeps.
LEMMA StillFacts ==
  ASSUME Typed, Handles, run # None, run.todo # <<>>, StillRun
  PROVE  /\ run' # None /\ run'.todo = Tail(run.todo) /\ run'.mem = run.mem
         /\ run'.op = run.op /\ run'.drop = run.drop
         /\ Handles' /\ Together' = Together
         /\ Tracked' = Tracked /\ Looked' = Looked
         /\ \A m \in Endings : Target(m) => Target(m)'
         /\ (WholeNow(db, run.mem, hashes, failed, File))'
              = WholeNow(db, run.mem, hashes, failed, File)
         /\ (WholeNow(db, run.mem, hashes, failed, Looked))'
              = WholeNow(db, run.mem, hashes, failed, Looked)
         /\ Held' = Held
<1>1. /\ run' \in Mutation /\ run'.todo = Tail(run.todo)
      /\ run'.by = run.by /\ run'.op = run.op /\ run'.branch = run.branch
      /\ run'.now = run.now /\ run'.file = run.file
      /\ run'.mem = run.mem /\ run'.seen = run.seen /\ run'.records = run.records
      /\ run'.drop = run.drop /\ run'.compatible = run.compatible /\ run'.tx = run.tx
  BY RunFacts, DoneFacts DEF StillRun
<1>2. /\ world' = world /\ refs' = refs /\ branch' = branch /\ strayed' = strayed
      /\ hashes' = hashes /\ failed' = failed /\ db' = db /\ mode' = mode /\ inv' = inv /\ gone' = gone
      /\ holder' = holder /\ crashed' = crashed
  BY DEF StillRun, repo, memory, lease
<1>3. Tracked' = Tracked /\ Looked' = Looked
  BY <1>2 DEF Tracked, TrackedIn, Looked, tree
<1>4. Handles'
  BY <1>1, <1>2, HandlesKept DEF Handles, repo, lease
<1>5. run' # None
  BY <1>1, NoneAssumption
<1>6. NewHashes' = NewHashes /\ NewFailed' = NewFailed /\ Finished(run.tx)' = Finished(run.tx)
  BY <1>1, <1>2 DEF NewHashes, NewFailed, FailedBranch, Finished, Key
<1>7. ASSUME NEW m \in Endings PROVE Target(m) => Target(m)'
  <2>1. WholeNow(Finished(run.tx), run.mem, NewHashes, NewFailed, File)'
          = WholeNow(Finished(run.tx), run.mem, NewHashes, NewFailed, File)
    BY <1>1, <1>2, <1>3, <1>6 DEF WholeNow
  <2> QED BY <1>1, <1>2, <1>6, <2>1 DEF Target, Held
<1>8. /\ (WholeNow(db, run.mem, hashes, failed, File))'
              = WholeNow(db, run.mem, hashes, failed, File)
      /\ (WholeNow(db, run.mem, hashes, failed, Looked))'
              = WholeNow(db, run.mem, hashes, failed, Looked)
      /\ Held' = Held
  BY <1>1, <1>2, <1>3 DEF WholeNow, Held
<1>9. Together' = Together
  BY <1>1 DEF Together
<1> QED BY <1>1, <1>3, <1>4, <1>5, <1>7, <1>8, <1>9

\* A step of a publication leads to its next place.
LEMMA PublishingStep ==
  ASSUME Typed, Handles, run # None, Held, NEW k \in Seq(StepName),
         Publishing(k), run.todo # k,
         PutVec \/ PutMeta \/ PutInverted \/ SetAside \/ DropVec \/ DropMeta
  PROVE  StillRun /\ run.todo # <<>> /\ Publishing(k)'
<1>1. /\ run.mem \in SUBSET Chunk /\ inv[run.by] \in SUBSET Chunk
      /\ pub \in [vec : Publication \cup {None}, meta : Publication \cup {None},
                  bakVec : Publication \cup {None}, bakMeta : Publication \cup {None}]
  BY RunFacts DEF Typed
<1>2. CASE run.todo = ToVec(k) /\ run.todo # <<>> /\ Head(run.todo) = "putVec"
             /\ Tail(run.todo) = ToMeta(k)
  <2>1. PutVec
    BY <1>2 DEF PutVec, PutMeta, PutInverted, SetAside, DropVec, DropMeta, At
  <2>2. StillRun /\ pub' = [pub EXCEPT !.vec = NewPublication(run.mem)]
    BY <2>1 DEF PutVec, StillRun
  <2>3. NewPublication(run.mem) \in Publication /\ NewPublication(run.mem).keys = run.mem
    BY <1>1, PublicationType
  <2>4. NewPublication(run.mem) # None
    BY <2>3, NoneAssumption
  <2>5. pub'.vec = NewPublication(run.mem)
    BY <1>1, <2>2
  <2>6. pub'.vec # None /\ Keys(pub)' = run.mem
    BY <2>3, <2>4, <2>5 DEF Keys
  <2>7. run'.todo = ToMeta(k) /\ run'.mem = run.mem
    BY <1>2, <2>2, StillFacts
  <2> QED BY <1>2, <2>2, <2>6, <2>7 DEF Publishing
<1>3. CASE run.todo = ToMeta(k) /\ run.todo # <<>> /\ Head(run.todo) = "putMeta"
             /\ Tail(run.todo) = ToInverted(k) /\ pub.vec # None /\ Keys(pub) = run.mem
  <2>1. PutMeta
    BY <1>3 DEF PutVec, PutMeta, PutInverted, SetAside, DropVec, DropMeta, At
  <2>2. StillRun /\ pub' = [pub EXCEPT !.meta = pub.vec]
    BY <2>1 DEF PutMeta, StillRun
  <2>3. pub'.meta = pub'.vec /\ pub'.vec = pub.vec
    BY <1>1, <2>2
  <2>4. Keys(pub)' = run.mem
    BY <1>3, <2>3 DEF Keys
  <2>5. run'.todo = ToInverted(k) /\ run'.mem = run.mem
    BY <1>3, <2>2, StillFacts
  <2> QED BY <1>3, <2>2, <2>3, <2>4, <2>5 DEF Publishing
<1>4. CASE run.todo = ToInverted(k) /\ run.todo # <<>> /\ Head(run.todo) = "putInverted"
             /\ Tail(run.todo) = k /\ pub.meta = pub.vec /\ Keys(pub) = run.mem
  <2>1. PutInverted
    BY <1>4 DEF PutVec, PutMeta, PutInverted, SetAside, DropVec, DropMeta, At
  <2>2. StillRun /\ pub' = pub /\ inverted' = inv[run.by]
    BY <2>1 DEF PutInverted, StillRun
  <2>3. run'.todo = k /\ run'.mem = run.mem
    BY <1>4, <2>2, StillFacts
  <2>4. inverted' # None
    BY <1>1, <2>2, NoneAssumption
  <2>5. Words(inverted)' = inv[run.by]
    BY <2>2, <2>4 DEF Words
  <2>6. Shown'
    BY <1>4, <2>2, <2>3, <2>5 DEF Shown, Paired, Held, Keys
  <2> QED BY <1>4, <2>2, <2>3, <2>6 DEF Publishing
<1> QED BY <1>2, <1>3, <1>4, PublishingHeads

\* A step of a rebuild leads to its next place, or to what follows the rebuild.
LEMMA RestoringStep ==
  ASSUME Typed, Handles, run # None, NEW k \in Seq(StepName), Restoring(k),
         PutVec \/ PutMeta \/ PutInverted \/ SetAside \/ DropVec \/ DropMeta
  PROVE  StillRun /\ run.todo # <<>> /\ (Restoring(k)' \/ run'.todo = k)
<1>1. pub \in [vec : Publication \cup {None}, meta : Publication \cup {None},
               bakVec : Publication \cup {None}, bakMeta : Publication \cup {None}]
  BY DEF Typed
<1>2. ASSUME run.todo # <<>>, StillRun, inverted' = inverted, NEW vec, NEW meta,
             Restorable(vec, meta), pub'.bakVec = vec, pub'.bakMeta = meta
      PROVE  Restorable(pub.bakVec, pub.bakMeta)'
  <2> DEFINE keys == IF vec = None THEN {} ELSE vec.keys
  <2>1. /\ world' = world /\ db' = db /\ hashes' = hashes /\ failed' = failed
        /\ Tracked' = Tracked /\ strayed' = strayed
    BY <1>2, StillFacts DEF StillRun, repo
  <2>2. run'.branch = run.branch
    BY <1>2, RunFacts, DoneFacts DEF StillRun
  <2>3. (IF pub.bakVec = None THEN {} ELSE pub.bakVec.keys)' = keys
    BY <1>2
  <2>4. WholeNow(db, IF pub.bakVec = None THEN {} ELSE pub.bakVec.keys, hashes, failed, File)'
          = WholeNow(db, keys, hashes, failed, File)
    <3> HIDE DEF keys
    <3> QED BY <2>1, <2>2, <2>3 DEF WholeNow
  <2>5. Paired(pub.bakVec, pub.bakMeta, inverted)' = Paired(vec, meta, inverted)
    BY <1>2 DEF Paired, Words
  <2> QED BY <1>2, <2>1, <2>4, <2>5 DEF Restorable
<1>3. CASE run.todo = ToAside(k) /\ run.todo # <<>> /\ Head(run.todo) = "setAside"
             /\ Tail(run.todo) = AgainVec(k) /\ Restorable(pub.vec, pub.meta)
  <2>1. SetAside
    BY <1>3 DEF PutVec, PutMeta, PutInverted, SetAside, DropVec, DropMeta, At
  <2>2. StillRun /\ inverted' = inverted
        /\ pub' = [vec |-> None, meta |-> None, bakVec |-> pub.vec, bakMeta |-> pub.meta]
    BY <2>1 DEF SetAside, StillRun
  <2>3. pub'.bakVec = pub.vec /\ pub'.bakMeta = pub.meta
    BY <2>2
  <2>4. Restorable(pub.bakVec, pub.bakMeta)'
    BY <1>2, <1>3, <2>2, <2>3
  <2>5. run'.todo = AgainVec(k)
    BY <1>3, <2>2, StillFacts
  <2> QED BY <1>3, <2>2, <2>4, <2>5 DEF Restoring
<1>4. CASE run.todo = AgainVec(k) /\ run.todo # <<>> /\ Head(run.todo) = "putVec"
             /\ Tail(run.todo) = AgainMeta(k) /\ Restorable(pub.bakVec, pub.bakMeta)
  <2>1. PutVec
    BY <1>4 DEF PutVec, PutMeta, PutInverted, SetAside, DropVec, DropMeta, At
  <2>2. StillRun /\ inverted' = inverted
        /\ pub' = [pub EXCEPT !.vec = NewPublication(run.mem)]
    BY <2>1 DEF PutVec, StillRun
  <2>3. pub'.bakVec = pub.bakVec /\ pub'.bakMeta = pub.bakMeta
    BY <1>1, <2>2
  <2>4. Restorable(pub.bakVec, pub.bakMeta)'
    BY <1>2, <1>4, <2>2, <2>3
  <2>5. run'.todo = AgainMeta(k)
    BY <1>4, <2>2, StillFacts
  <2> QED BY <1>4, <2>2, <2>4, <2>5 DEF Restoring
<1>5. CASE run.todo = AgainMeta(k) /\ run.todo # <<>> /\ Head(run.todo) = "putMeta"
             /\ Tail(run.todo) = ToDropVec(k) /\ Restorable(pub.bakVec, pub.bakMeta)
  <2>1. PutMeta
    BY <1>5 DEF PutVec, PutMeta, PutInverted, SetAside, DropVec, DropMeta, At
  <2>2. StillRun
    BY <2>1 DEF PutMeta, StillRun
  <2>3. run'.todo = ToDropVec(k)
    BY <1>5, <2>2, StillFacts
  <2> QED BY <1>5, <2>2, <2>3 DEF Restoring
<1>6. CASE run.todo = ToDropVec(k) /\ run.todo # <<>> /\ Head(run.todo) = "dropVec"
             /\ Tail(run.todo) = ToDropMeta(k)
  <2>1. DropVec
    BY <1>6 DEF PutVec, PutMeta, PutInverted, SetAside, DropVec, DropMeta, At
  <2>2. StillRun
    BY <2>1 DEF DropVec, StillRun
  <2>3. run'.todo = ToDropMeta(k)
    BY <1>6, <2>2, StillFacts
  <2> QED BY <1>6, <2>2, <2>3 DEF Restoring
<1>7. CASE run.todo = ToDropMeta(k) /\ run.todo # <<>> /\ Head(run.todo) = "dropMeta"
             /\ Tail(run.todo) = k
  <2>1. DropMeta
    BY <1>7 DEF PutVec, PutMeta, PutInverted, SetAside, DropVec, DropMeta, At
  <2>2. StillRun
    BY <2>1 DEF DropMeta, StillRun
  <2> QED BY <1>7, <2>2, StillFacts
<1> QED BY <1>3, <1>4, <1>5, <1>6, <1>7, RestoringHeads

\* Those six steps keep the invariant.
LEMMA InvArtifact ==
  ASSUME IInv, PutVec \/ PutMeta \/ PutInverted \/ SetAside \/ DropVec \/ DropMeta
  PROVE  IInv'
<1>1. PICK s \in ArtifactStep : At(s)
  BY DEF PutVec, PutMeta, PutInverted, SetAside, DropVec, DropMeta, ArtifactStep
<1>2. /\ Typed /\ Handles /\ run # None /\ db # None
  BY <1>1, AtArtifact DEF IInv
<1>3. Typed'
  BY <1>2, TypedPut
<1>4. SUFFICES StillRun /\ run.todo # <<>> /\ InRun'
  <2>1. Handles' /\ run' # None
    BY <1>2, <1>4, StillFacts
  <2>2. db' = db
    BY <1>4 DEF StillRun
  <2> QED BY <1>2, <1>3, <1>4, <2>1, <2>2 DEF IInv, Progress
<1>5. ASSUME NEW m \in Endings, Target(m),
             \/ Restoring(ToVec(ToHashes(m)))
             \/ Publishing(ToHashes(m)) /\ run.todo # ToHashes(m)
      PROVE  StillRun /\ run.todo # <<>> /\ InRun'
  <2>1. /\ ToHashes(m) \in Seq(StepName) /\ ToVec(ToHashes(m)) \in Seq(StepName)
    BY EndingFacts, EndPlaces, Places
  <2>2. Held
    BY <1>5 DEF Target
  <2>3. CASE Restoring(ToVec(ToHashes(m)))
    <3>1. /\ StillRun /\ run.todo # <<>>
          /\ Restoring(ToVec(ToHashes(m)))' \/ run'.todo = ToVec(ToHashes(m))
      BY <1>2, <2>1, <2>3, RestoringStep
    <3>2. Target(m)'
      BY <1>2, <1>5, <3>1, StillFacts
    <3>3. Restoring(ToVec(ToHashes(m)))' \/ Publishing(ToHashes(m))'
      BY <3>1 DEF Publishing
    <3> QED BY <3>1, <3>2, <3>3 DEF InRun, PublishPhase
  <2>4. CASE Publishing(ToHashes(m)) /\ run.todo # ToHashes(m)
    <3>1. StillRun /\ run.todo # <<>> /\ Publishing(ToHashes(m))'
      BY <1>2, <2>1, <2>2, <2>4, PublishingStep
    <3>2. Target(m)'
      BY <1>2, <1>5, <3>1, StillFacts
    <3> QED BY <3>1, <3>2 DEF InRun, PublishPhase
  <2> QED BY <1>5, <2>3, <2>4
<1>6. ASSUME NEW r \in Rests(run.op), HealthPhase(r),
             \/ Restoring(ToRows(r)) /\ run.drop \cap run.mem = {}
             \/ Publishing(ToGc(r)) /\ run.todo # ToGc(r)
      PROVE  StillRun /\ run.todo # <<>> /\ InRun'
  <2>1. ToGc(r) \in Seq(StepName) /\ ToRows(r) \in Seq(StepName)
    BY <1>2, RunFacts, RestFacts, HealthPlaces
  <2>2. /\ WholeNow(db, run.mem, hashes, failed, Looked) /\ Held /\ run.compatible
        /\ ~world.fails /\ world.faults = {} /\ Together
    BY <1>6 DEF HealthPhase
  <2>3. ASSUME StillRun, run.todo # <<>>
        PROVE  /\ (WholeNow(db, run.mem, hashes, failed, Looked))' /\ Held' /\ run'.compatible
               /\ ~world'.fails /\ world'.faults = {} /\ Together'
               /\ run'.op = run.op /\ run'.drop = run.drop /\ run'.mem = run.mem
    <3>1. run'.compatible = run.compatible
      BY <1>2, <2>3, RunFacts, DoneFacts DEF StillRun
    <3> QED BY <1>2, <2>2, <2>3, <3>1, StillFacts DEF StillRun
  <2>4. CASE Restoring(ToRows(r)) /\ run.drop \cap run.mem = {}
    <3>1. /\ StillRun /\ run.todo # <<>>
          /\ Restoring(ToRows(r))' \/ run'.todo = ToRows(r)
      BY <1>2, <2>1, <2>4, RestoringStep
    <3> QED BY <2>3, <2>4, <3>1 DEF InRun, HealthPhase
  <2>5. CASE Publishing(ToGc(r)) /\ run.todo # ToGc(r)
    <3>1. StillRun /\ run.todo # <<>> /\ Publishing(ToGc(r))'
      BY <1>2, <2>1, <2>2, <2>5, PublishingStep
    <3> QED BY <2>3, <3>1 DEF InRun, HealthPhase
  <2> QED BY <1>6, <2>4, <2>5
<1>7. CASE ForcePhase /\ Publishing(ToWipe) /\ run.todo # ToWipe
  <2>1. run.mem = {} /\ Held /\ Together
    BY <1>7 DEF ForcePhase, Held
  <2>2. StillRun /\ run.todo # <<>> /\ Publishing(ToWipe)'
    BY <1>2, <1>7, <2>1, ForcePlaces, PublishingStep
  <2>3. run'.mem = {} /\ Together'
    BY <1>2, <2>1, <2>2, StillFacts
  <2> QED BY <2>2, <2>3 DEF InRun, ForcePhase
<1>8. CASE RetryPhase /\ Publishing(<<>>) /\ WholeNow(db, run.mem, hashes, failed, File)
  <2>1. Held /\ run.op = "retry" /\ (~world.fails => run.records = {})
    BY <1>8 DEF RetryPhase
  <2>2. run.todo # <<>>
    BY <1>1 DEF At
  <2>3. StillRun /\ Publishing(<<>>)'
    BY <1>2, <1>8, <2>1, <2>2, Literals, PublishingStep
  <2>4. /\ (WholeNow(db, run.mem, hashes, failed, File))' /\ Held' /\ run'.op = "retry"
    BY <1>2, <1>8, <2>1, <2>2, <2>3, StillFacts
  <2>5. ~world'.fails => run'.records = {}
    BY <1>2, <2>1, <2>2, <2>3, RunFacts, DoneFacts DEF StillRun
  <2> QED BY <2>2, <2>3, <2>4, <2>5 DEF InRun, RetryPhase
<1> QED BY <1>1, <1>5, <1>6, <1>7, <1>8, AtArtifact

-----------------------------------------------------------------------------
(* The end of a run.                                                       *)

\* What a run that changes the caches or the database keeps of its own.
LEMMA RunKept ==
  ASSUME Typed, Handles, run # None, run' \in Mutation,
         run'.by = run.by, run'.op = run.op, run'.branch = run.branch, run'.now = run.now,
         UNCHANGED <<world, repo>>
  PROVE  /\ run' # None /\ Tracked' = Tracked /\ Looked' = Looked /\ strayed' = strayed
         /\ Key(run.branch)' = Key(run.branch) /\ Key(run.now)' = Key(run.now)
         /\ Rests(run.op)' = Rests(run.op)
         /\ run'.file = run.file => Together' = Together
<1>1. run' # None
  BY NoneAssumption
<1>2. /\ Tracked' = Tracked /\ Looked' = Looked /\ strayed' = strayed
      /\ Key(run.branch)' = Key(run.branch) /\ Key(run.now)' = Key(run.now)
  BY DEF Tracked, TrackedIn, Looked, tree, repo, Key
<1> QED BY <1>1, <1>2 DEF Together

\* What a whole index says of the catalog of the run's branch.
LEMMA WholeAccomplished ==
  ASSUME NEW w, NEW T, NEW S, NEW own, NEW d, NEW keys, NEW caches, NEW records,
         own \in T \ S, own \in Branch, caches \in [Namespace -> Tree],
         Whole(w, T, S, own, d, keys, caches, records, File), own \in d.versions,
         "health" \notin w.ops
  PROVE  d.catalog[own] \cup records[Place(w, own)] = ChunksOf(caches[Place(w, own)])
<1>1. Accounted(w, d, own, caches[Place(w, own)], records[Place(w, own)], File)
  BY DEF Whole
<1>2. caches[Place(w, own)] \in Tree
  BY PlaceType
<1>3. \A c \in ChunksOf(caches[Place(w, own)]) : c[1] \in File
  BY <1>2, ChunkFacts
<1> QED BY <1>1, <1>3 DEF Accounted

\* The hash cache is written.
LEMMA InvPutHashes ==
  ASSUME IInv, PutHashes
  PROVE  IInv'
<1>1. /\ Typed /\ Handles /\ run # None /\ db # None
      /\ \E m \in Endings : Target(m) /\ Shown /\ run.todo = ToHashes(m)
  BY AtEnd DEF IInv, PutHashes
<1>2. PICK m \in Endings : Target(m) /\ Shown /\ run.todo = ToHashes(m)
  BY <1>1
<1>3. m \in Seq(StepName) /\ run.todo # <<>> /\ Tail(run.todo) = ToFailed(m)
  BY <1>2, EndingFacts, EndPlaces
<1>4. /\ Done /\ hashes' = NewHashes
      /\ UNCHANGED <<world, repo, pub, inverted, failed, db, memory, lease>>
  BY DEF PutHashes, NewHashes
<1>5. /\ run' \in Mutation /\ run'.todo = ToFailed(m)
      /\ run'.by = run.by /\ run'.op = run.op /\ run'.branch = run.branch
      /\ run'.now = run.now /\ run'.file = run.file
      /\ run'.mem = run.mem /\ run'.seen = run.seen /\ run'.records = run.records
      /\ run'.tx = run.tx
  BY <1>1, <1>3, <1>4, RunFacts, DoneFacts
<1>6. Typed'
  <2>1. run.seen \in Tree
    BY <1>2 DEF Target
  <2> QED BY <1>1, <2>1, TypedPut
<1>7. Handles'
  BY <1>1, <1>4, <1>5, HandlesKept DEF Handles, memory
<1>8. /\ Tracked' = Tracked /\ strayed' = strayed /\ Key(run.now)' = Key(run.now) /\ run' # None
  BY <1>1, <1>4, <1>5, RunKept
<1>9. NewHashes' = NewHashes /\ NewFailed' = NewFailed /\ Finished(run.tx)' = Finished(run.tx)
  <2>1. hashes \in [Namespace -> Tree] /\ Key(run.now) \in Namespace
    BY <1>1, RunFacts DEF Typed
  <2>2. [NewHashes EXCEPT ![Key(run.now)] = run.seen] = NewHashes
    BY <2>1 DEF NewHashes
  <2>3. NewHashes' = [NewHashes EXCEPT ![Key(run.now)] = run.seen]
    BY <1>4, <1>5, <1>8 DEF NewHashes
  <2>4. Key(FailedBranch)' = Key(FailedBranch)
    BY <1>4, <1>5 DEF FailedBranch, Key
  <2> QED BY <1>4, <1>5, <1>8, <2>2, <2>3, <2>4 DEF NewFailed, Finished
<1>10. Target(m)'
  <2>1. WholeNow(Finished(run.tx), run.mem, NewHashes, NewFailed, File)'
          = WholeNow(Finished(run.tx), run.mem, NewHashes, NewFailed, File)
    BY <1>4, <1>5, <1>8, <1>9 DEF WholeNow
  <2> QED BY <1>2, <1>4, <1>5, <1>9, <2>1 DEF Target, Held, memory
<1>11. Shown'
  BY <1>2, <1>4, <1>5 DEF Shown, Paired, Words, Keys
<1>12. PublishPhase(m)'
  BY <1>4, <1>5, <1>9, <1>10, <1>11 DEF PublishPhase
<1> QED BY <1>1, <1>4, <1>6, <1>7, <1>8, <1>12 DEF IInv, Progress, InRun

\* The failed batches are finalized, at the end of an indexing run or of a retry.
LEMMA InvPutFailed ==
  ASSUME IInv, PutFailed
  PROVE  IInv'
<1>1. /\ Typed /\ Handles /\ run # None /\ db # None
  BY AtEnd DEF IInv, PutFailed
<1>2. /\ Done /\ failed' = NewFailed
      /\ UNCHANGED <<world, repo, pub, inverted, hashes, db, memory, lease>>
  BY DEF PutFailed, NewFailed, FailedBranch
<1>3. /\ run.todo # <<>> /\ run' \in Mutation /\ run'.todo = Tail(run.todo)
      /\ run'.by = run.by /\ run'.op = run.op /\ run'.branch = run.branch
      /\ run'.now = run.now /\ run'.file = run.file
      /\ run'.mem = run.mem /\ run'.seen = run.seen /\ run'.records = run.records
      /\ run'.tx = run.tx
  BY <1>1, <1>2, RunFacts, DoneFacts DEF PutFailed, At
<1>4. Typed'
  BY <1>1, TypedPut
<1>5. /\ Tracked' = Tracked /\ strayed' = strayed /\ Key(run.now)' = Key(run.now) /\ run' # None
  BY <1>1, <1>2, <1>3, RunKept
<1>6. NewHashes' = NewHashes /\ NewFailed' = NewFailed /\ Finished(run.tx)' = Finished(run.tx)
  <2>1. failed \in [Namespace -> SUBSET Chunk] /\ Key(FailedBranch) \in Namespace
    BY <1>1, RunFacts DEF Typed
  <2>2. [NewFailed EXCEPT ![Key(FailedBranch)] = run.records] = NewFailed
    BY <2>1 DEF NewFailed
  <2>0. Key(FailedBranch)' = Key(FailedBranch)
    BY <1>2, <1>3 DEF FailedBranch, Key
  <2>3. NewFailed' = [NewFailed EXCEPT ![Key(FailedBranch)] = run.records]
    BY <1>2, <1>3, <2>0 DEF NewFailed
  <2> QED BY <1>2, <1>3, <1>5, <2>2, <2>3 DEF NewHashes, Finished
<1>7. Shown' = Shown /\ Held' = Held
  BY <1>2, <1>3 DEF Shown, Paired, Words, Keys, Held, memory
<1>8. ASSUME ~world.fails => run.records = {} PROVE Handles'
  <2>1. ~world.fails => \A k \in Namespace : failed'[k] = {}
    BY <1>1, <1>2, <1>8, RunFacts DEF Handles, NewFailed, Typed
  <2> QED BY <1>1, <1>2, <1>3, <2>1, HandlesKept DEF memory
<1>9. ASSUME NEW m \in Endings, Target(m), Shown, run.todo = ToFailed(m), hashes = NewHashes
      PROVE  InRun' /\ Handles'
  <2>1. m \in Seq(StepName) /\ Tail(run.todo) = ToCommit(m)
    BY <1>9, EndingFacts, EndPlaces
  <2>2. WholeNow(Finished(run.tx), run.mem, NewHashes, NewFailed, File)'
          = WholeNow(Finished(run.tx), run.mem, NewHashes, NewFailed, File)
    BY <1>2, <1>3, <1>5, <1>6 DEF WholeNow
  <2>3. Target(m)'
    BY <1>2, <1>3, <1>6, <1>7, <1>9, <2>2 DEF Target
  <2>4. PublishPhase(m)'
    BY <1>2, <1>3, <1>6, <1>7, <1>9, <2>1, <2>3 DEF PublishPhase
  <2>5. Handles'
    BY <1>8, <1>9 DEF Target
  <2> QED BY <2>4, <2>5 DEF InRun
<1>10. ASSUME RetryPhase, WholeNow(db, run.mem, hashes, NewFailed, File),
              \/ Tail(run.todo) = <<>> /\ Shown
              \/ Tail(run.todo) = ToVec(<<>>)
       PROVE  InRun' /\ Handles'
  <2>1. WholeNow(db, run.mem, hashes, failed, File)'
    <3>1. WholeNow(db, run.mem, hashes, failed, File)'
            = WholeNow(db, run.mem, hashes, NewFailed, File)
      BY <1>2, <1>3, <1>5 DEF WholeNow
    <3> QED BY <1>10, <3>1
  <2>2. Publishing(<<>>)'
    BY <1>3, <1>7, <1>10 DEF Publishing
  <2>3. RetryPhase'
    BY <1>2, <1>3, <1>7, <1>10, <2>1, <2>2 DEF RetryPhase
  <2>4. Handles'
    BY <1>8, <1>10 DEF RetryPhase
  <2> QED BY <2>3, <2>4 DEF InRun
<1>11. InRun' /\ Handles'
  <2>1. \/ \E m \in Endings : Target(m) /\ Shown /\ run.todo = ToFailed(m) /\ hashes = NewHashes
        \/ /\ RetryPhase /\ WholeNow(db, run.mem, hashes, NewFailed, File)
           /\ \/ Tail(run.todo) = <<>> /\ Shown
              \/ Tail(run.todo) = ToVec(<<>>)
    BY AtEnd DEF PutFailed
  <2> QED BY <1>9, <1>10, <2>1
<1> QED BY <1>1, <1>2, <1>4, <1>5, <1>11 DEF IInv, Progress

\* The transaction is committed.
LEMMA InvCommit ==
  ASSUME IInv, Commit
  PROVE  IInv'
<1>1. /\ Typed /\ Handles /\ run # None /\ db # None
      /\ \E m \in Endings : /\ Target(m) /\ Shown /\ run.todo = ToCommit(m)
                            /\ hashes = NewHashes /\ failed = NewFailed
  BY AtEnd DEF IInv, Commit
<1>2. PICK m \in Endings : /\ Target(m) /\ Shown /\ run.todo = ToCommit(m)
                           /\ hashes = NewHashes /\ failed = NewFailed
  BY <1>1
<1>3. m \in Seq(StepName) /\ Tail(run.todo) = m
  BY <1>2, EndingFacts, EndPlaces
<1>4. /\ WriteDb(run.by, run.tx)
      /\ UNCHANGED <<world, repo, pub, inverted, hashes, failed, mode, inv, lease>>
  BY DEF Commit
<1>5. /\ Db(run.by) = db /\ db \in Database /\ run.tx \in Database
  BY <1>1, <1>2, RunFacts DEF Target, Typed, Mutation
<1>6. /\ Typed' /\ run' \in Mutation /\ run'.todo = m
      /\ run'.by = run.by /\ run'.op = run.op /\ run'.branch = run.branch
      /\ run'.now = run.now /\ run'.file = run.file
      /\ run'.mem = run.mem /\ run'.seen = run.seen /\ run'.records = run.records
  BY <1>1, <1>3, <1>5, TypedCommit
<1>7. db' = run.tx /\ gone' = gone /\ db' # None
  BY <1>1, <1>4, <1>5, WriteFacts, NoneAssumption
<1>8. Handles'
  BY <1>1, <1>4, <1>6, <1>7, HandlesKept DEF Handles
<1>9. /\ Tracked' = Tracked /\ strayed' = strayed /\ Key(run.now)' = Key(run.now) /\ run' # None
  BY <1>1, <1>4, <1>6, RunKept
<1>10. Shown'
  BY <1>2, <1>4, <1>6 DEF Shown, Paired, Words, Keys
<1>11. Finished(db)' = Finished(run.tx)
  BY <1>6, <1>7 DEF Finished
<1>12. WholeNow(Finished(db), run.mem, hashes, failed, File)'
  <2>1. WholeNow(Finished(db), run.mem, hashes, failed, File)'
          = WholeNow(Finished(run.tx), run.mem, NewHashes, NewFailed, File)
    BY <1>2, <1>4, <1>6, <1>9, <1>11 DEF WholeNow
  <2> QED BY <1>2, <2>1 DEF Target
<1>13. Accomplished'
  <2> SUFFICES ASSUME "health" \notin world.ops, run.branch \notin strayed
               PROVE  run.tx.catalog[run.branch] \cup run.records = ChunksOf(run.seen)
    BY <1>4, <1>6, <1>7, <1>9 DEF Accomplished
  <2>0. run.now = run.branch /\ FailedBranch = run.branch
    BY <1>1, RunFacts DEF Together, Moved, FailedBranch
  <2>1. run.branch \in Finished(run.tx).versions
        /\ Finished(run.tx).catalog = run.tx.catalog
    BY <1>5, RunFacts DEF Finished, Database
  <2>2. Whole(world, Tracked, strayed, run.branch, Finished(run.tx), run.mem, hashes, failed, File)
    BY <1>2 DEF Target, WholeNow
  <2>3. hashes[Place(world, run.branch)] = run.seen
        /\ failed[Place(world, run.branch)] = run.records
    BY <1>1, <1>2, <2>0, RunFacts DEF NewHashes, NewFailed, Typed
  <2>4. hashes \in [Namespace -> Tree]
    BY <1>1 DEF Typed
  <2>5. /\ Tracked \in SUBSET Branch /\ run.branch \in Tracked
    BY <1>1, RunFacts
  <2>6. Finished(run.tx).catalog[run.branch] \cup failed[Place(world, run.branch)]
          = ChunksOf(hashes[Place(world, run.branch)])
    <3> DEFINE d == Finished(run.tx)
               w == world
               own == run.branch
               T == Tracked
               S == strayed
    <3>1. Whole(w, T, S, own, d, run.mem, hashes, failed, File) /\ own \in d.versions
          /\ "health" \notin w.ops /\ own \in Branch /\ own \in T \ S
          /\ hashes \in [Namespace -> Tree]
      BY <2>1, <2>2, <2>4, <2>5
    <3> HIDE DEF d, w, own, T, S
    <3>2. d.catalog[own] \cup failed[Place(w, own)] = ChunksOf(hashes[Place(w, own)])
      BY <3>1, WholeAccomplished
    <3> QED BY <3>2 DEF d, w, own, T, S
  <2> QED BY <2>1, <2>3, <2>6
<1>14. InRun'
  <2>1. CASE m = <<>>
    <3>1. WholeNow(db, run.mem, hashes, failed, File)'
      BY <1>2, <1>7, <1>11, <1>12, <2>1 DEF Target, WholeNow
    <3> QED BY <1>6, <1>10, <1>13, <2>1, <3>1 DEF InRun, EndPhase
  <2>2. CASE m = <<"metadata">>
    BY <1>6, <1>10, <1>12, <1>13, <2>2 DEF InRun, MetadataPhase
  <2> QED BY <2>1, <2>2 DEF Endings
<1> QED BY <1>6, <1>7, <1>8, <1>9, <1>14 DEF IInv, Progress

\* The extractor versions and the format are recorded.
LEMMA InvMetadata ==
  ASSUME IInv, Metadata
  PROVE  IInv'
<1>1. /\ Typed /\ Handles /\ run # None /\ db # None /\ MetadataPhase
  BY AtIndexing DEF IInv, Metadata
<1>2. /\ Db(run.by) = db /\ db \in Database /\ run.branch \in Branch
  BY <1>1, RunFacts DEF Typed
<1>3. /\ Done /\ WriteDb(run.by, Finished(db))
      /\ UNCHANGED <<world, repo, pub, inverted, hashes, failed, mode, inv, lease>>
  BY <1>2 DEF Metadata, Finished
<1>4. /\ run' \in Mutation /\ run'.todo = <<>>
      /\ run'.by = run.by /\ run'.op = run.op /\ run'.branch = run.branch
      /\ run'.now = run.now /\ run'.file = run.file
      /\ run'.mem = run.mem /\ run'.seen = run.seen /\ run'.records = run.records
  BY <1>1, <1>3, RunFacts, DoneFacts, LiteralPlaces DEF MetadataPhase
<1>5. Typed'
  BY <1>1, <1>2, TypedPut
<1>6. db' = Finished(db) /\ gone' = gone
  BY <1>1, <1>3, WriteFacts
<1>7. Finished(db) \in Database /\ Finished(db).catalog = db.catalog
  BY <1>2 DEF Finished, Database
<1>8. Handles'
  BY <1>1, <1>3, <1>4, <1>6, <1>7, NoneAssumption, HandlesKept DEF Handles
<1>9. /\ Tracked' = Tracked /\ strayed' = strayed /\ run' # None
  BY <1>1, <1>3, <1>4, RunKept
<1>10. Shown'
  BY <1>1, <1>3, <1>4 DEF MetadataPhase, Shown, Paired, Words, Keys
<1>11. WholeNow(db, run.mem, hashes, failed, File)'
  BY <1>1, <1>3, <1>4, <1>6, <1>9 DEF MetadataPhase, WholeNow
<1>12. Accomplished'
  BY <1>1, <1>3, <1>4, <1>6, <1>7, <1>9 DEF MetadataPhase, Accomplished
<1> QED BY <1>4, <1>5, <1>6, <1>7, <1>8, <1>9, <1>10, <1>11, <1>12, NoneAssumption
        DEF IInv, Progress, InRun, EndPhase

-----------------------------------------------------------------------------
(* An indexing run until it publishes.                                     *)

\* Scan sees the tree, the branch's catalog, and what has changed.
LEMMA InvScan ==
  ASSUME IInv, Scan
  PROVE  IInv'
<1>1. /\ Typed /\ Handles /\ run # None /\ db # None /\ Settled /\ run.todo = Indexing
  BY AtPlan DEF IInv, Scan
<1>2. /\ run \in Mutation /\ run.todo # <<>> /\ Tail(run.todo) = <<"embed", "catalog">>
      /\ Db(run.by) = db /\ db \in Database /\ run.branch \in Branch /\ run.now \in Branch
  BY <1>1, RunFacts, LiteralPlaces DEF Typed
<1>3. Typed'
  BY <1>1, <1>2, TypedScan
<1> DEFINE previous == db.catalog[run.branch]
           existing == IF Referenced(db.catalog) # {} THEN run.mem \cap previous ELSE run.mem
           r0 == Then(<<>>, run)
<1>4. /\ run' = [r0 EXCEPT !.seen = tree, !.changed = Changed(db), !.previous = previous,
                           !.existing = existing, !.file = run.now, !.tx = db]
      /\ UNCHANGED lease
  BY <1>1, <1>2, Zenon DEF Scan, Settled
<1>5. r0 = [run EXCEPT !.todo = <<"embed", "catalog">>] /\ r0 \in Mutation
  BY <1>2, ThenFacts, Literals
<1>6. existing = previous
  <2>1. run.mem = Referenced(db.catalog)
    BY <1>1 DEF Settled, WholeNow, Whole
  <2>2. previous \subseteq run.mem
    BY <1>2, <2>1, ReferencedFacts
  <2> QED BY <2>1, <2>2
<1>7. /\ run'.todo = <<"embed", "catalog">> /\ run'.by = run.by /\ run'.op = run.op
      /\ run'.branch = run.branch /\ run'.mem = run.mem /\ run'.compatible = run.compatible
      /\ run'.now = run.now /\ run'.file = run.now
      /\ run'.seen = tree /\ run'.changed = Changed(db) /\ run'.previous = previous
      /\ run'.existing = previous /\ run'.tx = db
  <2> HIDE DEF r0, previous, existing
  <2> QED BY <1>4, <1>5, <1>6 DEF Mutation
<1>8. run' \in Mutation
  <2>1. run' # None
    <3>1. run'.todo = <<"embed", "catalog">> /\ <<"embed", "catalog">> # <<>>
      BY <1>7, LiteralPlaces
    <3>2. run' \in Mutation
      <4>1. previous \in SUBSET Chunk /\ run.mem \in SUBSET Chunk
        BY <1>2 DEF Database, Mutation
      <4>2. Changed(db) \subseteq File /\ tree \in Tree
        BY <1>1, TreeType DEF Changed
      <4> DEFINE seen == tree
                 changed == Changed(db)
                 a == [r0 EXCEPT !.seen = seen, !.changed = changed]
                 b == [a EXCEPT !.previous = previous, !.existing = existing, !.file = run.now]
      <4>3. run' = [b EXCEPT !.tx = db]
        BY <1>4
      <4>4. seen \in Tree /\ changed \in SUBSET File
        BY <4>2
      <4>5. existing \in SUBSET Chunk
        BY <1>6, <4>1
      <4> HIDE DEF r0, previous, existing, seen, changed
      <4>6. a \in Mutation
        BY <1>5, <4>4 DEF Mutation
      <4> HIDE DEF a
      <4>7. b \in Mutation
        BY <1>2, <4>1, <4>5, <4>6 DEF Mutation
      <4> HIDE DEF b
      <4> QED BY <1>2, <4>3, <4>7 DEF Mutation
    <3> QED BY <3>2, NoneAssumption
  <2> QED BY <1>3, <2>1 DEF Typed
<1>9. UNCHANGED <<world, repo, files, memory>>
  BY DEF Scan
<1>10. Handles'
  BY <1>1, <1>4, <1>7, <1>8, <1>9, HandlesKept DEF Handles, files, memory
<1>11. /\ run' # None /\ Tracked' = Tracked /\ Looked' = Looked /\ strayed' = strayed
  BY <1>1, <1>7, <1>8, <1>9, RunKept
<1>12. tree' = tree /\ db' = db /\ hashes' = hashes /\ failed' = failed /\ pub' = pub
       /\ inverted' = inverted /\ inv' = inv /\ world' = world
  BY <1>9 DEF tree, repo, files, memory
<1>13. Changed(db)' = Changed(db)
  BY <1>7, <1>12 DEF Changed, Key
<1>14. Settled'
  <2>1. WholeNow(db, run.mem, hashes, failed, Looked)'
          = WholeNow(db, run.mem, hashes, failed, Looked)
    BY <1>7, <1>11, <1>12 DEF WholeNow
  <2>2. Shown' = Shown /\ Held' = Held
    BY <1>7, <1>12 DEF Shown, Paired, Words, Keys, Held
  <2> QED BY <1>1, <1>7, <2>1, <2>2 DEF Settled
<1>15. ScannedPhase'
  <2>1. Changed(db) \subseteq Present(tree) /\ Present(tree)' = Present(tree)
    BY <1>12 DEF Changed, Present
  <2> QED BY <1>7, <1>12, <1>13, <1>14, <2>1 DEF ScannedPhase
<1> QED BY <1>1, <1>3, <1>10, <1>11, <1>12, <1>15 DEF IInv, Progress, InRun

\* Embed finds every changed file, and what it stores and records fits what Scan saw.
LEMMA InvEmbed ==
  ASSUME IInv, Embed
  PROVE  IInv'
<1>1. /\ Typed /\ Handles /\ run # None /\ db # None /\ ScannedPhase
  BY AtIndexing DEF IInv, Embed
<1>2. /\ run \in Mutation /\ run.todo # <<>> /\ Tail(run.todo) = <<"catalog">>
      /\ db \in Database /\ run.branch \in Branch /\ run.branch \in Tracked
      /\ run.tx = db /\ run.tx \in Database
      /\ run.changed \subseteq Present(tree) /\ run.by \in Proc
  BY <1>1, RunFacts, LiteralPlaces DEF Typed, ScannedPhase
<1>3. PICK f1 \in SUBSET Asked :
         \E f2 \in SUBSET {c \in Retried : c[2] \notin Known(f1)} :
           /\ f1 \cup f2 # {} => world.fails
           /\ run' = EmbeddedRun(f1, f2)
           /\ inv' = [inv EXCEPT ![run.by] = @ \cup Stored(f1, f2)]
           /\ UNCHANGED lease
  BY <1>2, EmbedOutcome
<1>4. PICK f2 \in SUBSET {c \in Retried : c[2] \notin Known(f1)} :
           /\ f1 \cup f2 # {} => world.fails
           /\ run' = EmbeddedRun(f1, f2)
           /\ inv' = [inv EXCEPT ![run.by] = @ \cup Stored(f1, f2)]
           /\ UNCHANGED lease
  BY <1>3
<1>5. f2 \in SUBSET Retried
  OBVIOUS
<1> DEFINE lost == f1 \cup (f2 \ run.existing)
           all == Kept \cup NewChunks \cup Retried
           chosen == all \ lost
<1>6. /\ run' \in Mutation /\ run'.todo = <<"catalog">>
      /\ run'.tx \in Database
      /\ run'.tx.chunks = db.chunks \cup NewChunks
      /\ run'.tx.embeddings = Known(f1) \cup TextsOf(Retried \ f2)
      /\ run'.tx.catalog = db.catalog /\ run'.tx.versions = db.versions
      /\ run'.mem = run.mem \cup Stored(f1, f2)
      /\ run'.current = all /\ run'.lost = lost /\ run'.records = f1 \cup f2
      /\ run'.embeds = (Pending \cup Retried # {})
      /\ run'.by = run.by /\ run'.op = run.op /\ run'.branch = run.branch
      /\ run'.now = run.now /\ run'.file = run.file
      /\ run'.seen = run.seen /\ run'.previous = run.previous
      /\ run'.existing = run.existing
  <2>1. f1 \subseteq Asked /\ f2 \subseteq Retried
    BY <1>5
  <2>2. EmbedGives(run', f1, f2)
    BY <1>1, <1>2, <1>4, <2>1, EmbeddedFields
  <2> QED BY <1>2, <2>2 DEF EmbedGives
<1>7. /\ run.mem \cup Stored(f1, f2) = run.mem \cup chosen
      /\ run.mem \cup Stored(f1, f2) \cup f1 \cup f2 \subseteq db.chunks \cup NewChunks
      /\ TextsOf(run.mem \cup Stored(f1, f2)) \subseteq Known(f1) \cup TextsOf(Retried \ f2)
      /\ (f1 \cup f2) \cap (chosen \cup run.previous) = {}
      /\ "health" \notin world.ops /\ run.branch \notin strayed =>
           chosen \cup f1 \cup f2 = ChunksOf(run.seen)
      /\ Pending \cup Retried = {} => chosen \subseteq run.previous /\ lost = {}
  <2>1. EmbedAdds(f1, f2)
    BY <1>1, <1>2, <1>5, WholeEmbed
  <2> QED BY <2>1 DEF EmbedAdds
<1>8. Typed'
  BY <1>1, <1>2, TypedEmbed
<1>9. UNCHANGED <<world, repo, files, mode, gone>> /\ UNCHANGED lease
  BY <1>4 DEF Embed
<1>10. Handles'
  BY <1>1, <1>6, <1>9, HandlesKept DEF Handles, files
<1>11. run' # None /\ Tracked' = Tracked /\ Looked' = Looked /\ strayed' = strayed
  BY <1>1, <1>6, <1>9, RunKept
<1>12. db' = db /\ hashes' = hashes /\ failed' = failed /\ pub' = pub
       /\ inverted' = inverted /\ world' = world
  BY <1>9 DEF files
<1>13. /\ Settled /\ run.seen = tree /\ run.previous = db.catalog[run.branch]
       /\ run.existing = run.previous
  BY <1>1 DEF ScannedPhase
<1>14. Keys(pub) = run.mem /\ Paired(pub.vec, pub.meta, inverted) /\ Held
  BY <1>13 DEF Settled, Shown
<1> HIDE DEF lost, all
<1>15. Chosen' = chosen
  BY <1>6 DEF Chosen
<1> HIDE DEF chosen
<1>16. WholeNow(db, Keys(pub), hashes, failed, Looked)'
  <2>1. WholeNow(db, Keys(pub), hashes, failed, Looked)'
          = WholeNow(db, run.mem, hashes, failed, Looked)
    BY <1>6, <1>11, <1>12, <1>14 DEF WholeNow, Keys
  <2> QED BY <1>13, <2>1 DEF Settled
<1>17. Held'
  <2>1. inv'[run.by] = inv[run.by] \cup Stored(f1, f2)
    BY <1>1, <1>2, <1>4 DEF Typed
  <2> QED BY <1>6, <1>14, <2>1 DEF Held
<1>18. Paired(pub.vec, pub.meta, inverted)' /\ Keys(pub)' = run.mem
  BY <1>12, <1>14 DEF Paired, Words, Keys
<1>19. run'.mem = Keys(pub)' \cup Chosen'
  BY <1>6, <1>7, <1>15, <1>18
<1>20. /\ run'.mem \cup run'.records \subseteq run'.tx.chunks
       /\ TextsOf(run'.mem) \subseteq run'.tx.embeddings
       /\ run'.records \cap (Chosen' \cup run'.previous) = {}
       /\ "health" \notin world'.ops /\ run'.branch \notin strayed' =>
            Chosen' \cup run'.records = ChunksOf(run'.seen)
       /\ ~run'.embeds => Chosen' \subseteq run'.previous /\ run'.lost = {}
       /\ ~world'.fails => run'.records = {}
  BY <1>4, <1>6, <1>7, <1>11, <1>12, <1>15
<1>21. /\ run'.seen \in Tree /\ run'.tx # None
       /\ run'.previous = db'.catalog[run'.branch] /\ run'.existing = run'.previous
       /\ run'.tx.catalog = db'.catalog /\ run'.tx.versions = db'.versions
  <2>1. run'.tx # None
    BY <1>6, NoneAssumption
  <2>2. run.seen \in Tree
    BY <1>1, <1>13, TreeType
  <2> QED BY <1>6, <1>12, <1>13, <2>1, <2>2
<1>22. EmbeddedPhase'
  BY <1>6, <1>16, <1>17, <1>18, <1>19, <1>20, <1>21 DEF EmbeddedPhase
<1> QED BY <1>1, <1>8, <1>10, <1>11, <1>12, <1>22 DEF IInv, Progress, InRun

\* Catalog leads to a publication whose target is whole.
LEMMA InvCatalog ==
  ASSUME IInv, Catalog
  PROVE  IInv'
<1>1. /\ Typed /\ Handles /\ run # None /\ db # None /\ EmbeddedPhase
  BY AtIndexing DEF IInv, Catalog
<1>2. /\ run \in Mutation /\ run.todo = <<"catalog">> /\ db \in Database
      /\ run.tx \in Database /\ run.branch \in Branch /\ run.branch \in Tracked /\ run.by \in Proc
      /\ run.records \subseteq Chunk /\ Tracked \subseteq Branch
      /\ Separate(world, Tracked, run.branch, failed)
      /\ run.now \in Tracked /\ FailedBranch \in Tracked /\ Calm(world)
      /\ Key(run.now) = Place(world, run.now) /\ Key(FailedBranch) = Place(world, FailedBranch)
  BY <1>1, RunFacts DEF Typed, EmbeddedPhase, Mutation
<1>0. \/ run.now = run.branch /\ FailedBranch = run.branch
      \/ /\ run.branch \in strayed /\ run.now \in strayed /\ world.scope = "project"
         /\ ~world.fails
         /\ \A b \in Tracked : failed[Place(world, b)] = {}
  <2>1. CASE Together
    BY <2>1 DEF Together, FailedBranch
  <2>2. CASE Moved /\ world.scope = "project" /\ ~world.fails
    <3>1. \A b \in Tracked : Place(world, b) \in Namespace
      BY <1>2, PlaceType
    <3> QED BY <1>1, <2>2, <3>1 DEF Moved, Handles
  <2> QED BY <1>1, <2>1, <2>2, RunFacts
<1>3. /\ WholeNow(db, Keys(pub), hashes, failed, Looked)
      /\ Paired(pub.vec, pub.meta, inverted) /\ Held /\ run.seen \in Tree
      /\ run.previous = db.catalog[run.branch] /\ run.existing = run.previous
      /\ run.tx.catalog = db.catalog /\ run.tx.versions = db.versions
      /\ run.mem = Keys(pub) \cup Chosen
      /\ run.mem \cup run.records \subseteq run.tx.chunks
      /\ TextsOf(run.mem) \subseteq run.tx.embeddings
      /\ run.records \cap (Chosen \cup run.previous) = {}
      /\ "health" \notin world.ops /\ run.branch \notin strayed =>
           Chosen \cup run.records = ChunksOf(run.seen)
      /\ ~run.embeds => Chosen \subseteq run.previous /\ run.lost = {}
      /\ ~world.fails => run.records = {}
  BY <1>1 DEF EmbeddedPhase
<1>4. /\ run' \in Mutation /\ Ending \in Endings
      /\ run'.todo = IF CatalogDrop # {} THEN ToAside(ToVec(ToHashes(Ending)))
                     ELSE IF CatalogSaves THEN ToVec(ToHashes(Ending))
                     ELSE ToHashes(Ending)
      /\ run'.mem = CatalogMem /\ run'.tx = CatalogTx /\ CatalogTx \in Database
      /\ run'.by = run.by /\ run'.op = run.op /\ run'.branch = run.branch
      /\ run'.now = run.now /\ run'.file = run.file
      /\ run'.seen = run.seen /\ run'.records = run.records
      /\ inv' = [inv EXCEPT ![run.by] = @ \ CatalogDrop]
  BY <1>1, <1>2, CatalogFields
<1>5. Typed'
  BY <1>1, <1>2, TypedCatalog
<1>6. UNCHANGED <<world, repo, files, mode, gone, lease>>
  BY DEF Catalog
<1>7. Handles'
  BY <1>1, <1>4, <1>6, HandlesKept DEF Handles, files
<1>8. /\ run' # None /\ Tracked' = Tracked /\ strayed' = strayed
      /\ Key(run.now)' = Key(run.now) /\ Key(FailedBranch)' = Key(FailedBranch)
  BY <1>1, <1>4, <1>6, RunKept DEF FailedBranch, Key
<1>9. db' = db /\ hashes' = hashes /\ failed' = failed /\ pub' = pub
      /\ inverted' = inverted /\ world' = world
  BY <1>6 DEF files
<1> DEFINE all == Keys(pub) \cup Chosen
           e == Finished(run.tx)'
           rest == all \ CatalogDrop
<1>10. /\ e = [CatalogTx EXCEPT !.versions = @ \cup {run.branch}, !.format = TRUE]
       /\ e \in Database /\ e.chunks = CatalogTx.chunks
       /\ e.embeddings = CatalogTx.embeddings
       /\ e.catalog = CatalogTx.catalog
       /\ e.versions = CatalogTx.versions \cup {run.branch} /\ e.format
  <2>1. e = [CatalogTx EXCEPT !.versions = @ \cup {run.branch}, !.format = TRUE]
    BY <1>4 DEF Finished
  <2> HIDE DEF e
  <2> QED BY <1>2, <1>4, <2>1 DEF Database
<1>11. /\ CatalogTx.chunks = run.tx.chunks \ CatalogDrop
       /\ CatalogTx.embeddings = run.tx.embeddings \cap TextsOf(run.tx.chunks \ CatalogDrop)
       /\ CatalogTx.catalog = NewCatalog
       /\ CatalogTx.versions = IF run.embeds THEN db.versions ELSE db.versions \cup {run.branch}
       /\ CatalogTx.format = (run.tx.format \/ ~run.embeds)
  BY <1>3 DEF CatalogTx, CatalogRows
<1>12. e.versions = db.versions \cup {run.branch}
  BY <1>10, <1>11
<1>13. CatalogDrop = Removable(db.catalog[run.branch] \ Chosen,
                               [run.tx.catalog EXCEPT ![run.branch] = Chosen])
  BY <1>3 DEF CatalogDrop, NewCatalog
<1>14. Chosen \subseteq Chunk
  BY <1>2 DEF Chosen, Mutation
<1>15. /\ Whole(world, Tracked, strayed, run.branch, e, rest,
                [hashes EXCEPT ![Place(world, run.now)] = run.seen],
                [failed EXCEPT ![Place(world, FailedBranch)] = run.records], File)
       /\ Rebuilt(run.tx, all, CatalogDrop) = rest
  <2> DEFINE w == world
             T == Tracked
             S == strayed
             own == run.branch
             now == run.now
             put == FailedBranch
             d == db
             keys == Keys(pub)
             x == run.tx
             drop == CatalogDrop
             chosen == Chosen
             failures == run.records
             seen == run.seen
             present == Looked
  <2>1. /\ T \subseteq Branch /\ own \in T /\ d \in Database /\ hashes \in [Namespace -> Tree]
        /\ failed \in [Namespace -> SUBSET Chunk]
        /\ Whole(w, T, S, own, d, keys, hashes, failed, present)
        /\ Separate(w, T, own, failed)
        /\ x \in Database /\ x.catalog = d.catalog /\ x.versions = d.versions
        /\ chosen \subseteq Chunk /\ failures \subseteq Chunk /\ seen \in Tree
        /\ now \in T /\ put \in T
    BY <1>1, <1>2, <1>3, <1>14 DEF WholeNow, Typed
  <2>0. \/ now = own /\ put = own
        \/ /\ own \in S /\ now \in S /\ failures = {} /\ w.scope = "project"
           /\ \A b \in T : failed[Place(w, b)] = {}
    BY <1>0, <1>3
  <2>2. /\ keys \cup chosen \cup failures \subseteq x.chunks
        /\ TextsOf(keys \cup chosen) \subseteq x.embeddings
        /\ failures \cap (chosen \cup d.catalog[own]) = {}
        /\ "health" \notin w.ops /\ own \notin S => chosen \cup failures = ChunksOf(seen)
    BY <1>3
  <2>3. drop = Removable(d.catalog[own] \ chosen, [x.catalog EXCEPT ![own] = chosen])
    BY <1>13
  <2>4. /\ e \in Database /\ e.chunks = x.chunks \ drop
        /\ e.embeddings = x.embeddings \cap TextsOf(x.chunks \ drop)
        /\ e.catalog = [x.catalog EXCEPT ![own] = chosen]
        /\ e.versions = d.versions \cup {own} /\ e.format
    BY <1>10, <1>11, <1>12 DEF NewCatalog
  <2>5. all = keys \cup chosen /\ rest = (keys \cup chosen) \ drop
    OBVIOUS
  <2> HIDE DEF w, T, S, own, now, put, d, keys, x, drop, chosen, failures, seen, present, e, all, rest
  <2>6. /\ Whole(w, T, S, own, e, (keys \cup chosen) \ drop,
                 [hashes EXCEPT ![Place(w, now)] = seen],
                 [failed EXCEPT ![Place(w, put)] = failures], File)
        /\ Rebuilt(x, keys \cup chosen, drop) = (keys \cup chosen) \ drop
    <3>1. Catalogued(w, T, S, own, now, put, d, keys, hashes, failed, present, x, chosen,
                     failures, seen, drop, e)
      BY <2>0, <2>1, <2>2, <2>3, <2>4 DEF Catalogued
    <3>2. CatalogWhole(w, T, S, own, now, put, keys, hashes, failed, x, chosen, failures, seen,
                       drop, e)
      BY <3>1, WholeCatalog
    <3> QED BY <3>2 DEF CatalogWhole
  <2> QED BY <2>5, <2>6 DEF w, T, S, own, now, put, x, drop, failures, seen
<1>16. run'.mem = rest
  <2>1. run.mem = all
    BY <1>3
  <2> HIDE DEF all
  <2>2. CASE CatalogDrop # {}
    BY <1>4, <1>15, <2>1, <2>2 DEF CatalogMem
  <2>3. CASE CatalogDrop = {}
    BY <1>4, <2>1, <2>3 DEF CatalogMem
  <2> QED BY <2>2, <2>3
<1> HIDE DEF all, rest
<1>17. WholeNow(Finished(run.tx), run.mem, NewHashes, NewFailed, File)'
  <2>1. NewHashes' = [hashes EXCEPT ![Place(world, run.now)] = run.seen]
        /\ NewFailed' = [failed EXCEPT ![Place(world, FailedBranch)] = run.records]
    BY <1>2, <1>4, <1>8, <1>9 DEF NewHashes, NewFailed
  <2> HIDE DEF e
  <2>2. WholeNow(Finished(run.tx), run.mem, NewHashes, NewFailed, File)'
          = Whole(world, Tracked, strayed, run.branch, e, rest,
                [hashes EXCEPT ![Place(world, run.now)] = run.seen],
                [failed EXCEPT ![Place(world, FailedBranch)] = run.records], File)
    BY <1>4, <1>8, <1>9, <1>16, <2>1 DEF WholeNow, e
  <2> QED BY <1>15, <2>2
<1>18. Held'
  <2>1. inv'[run.by] = inv[run.by] \ CatalogDrop
    BY <1>1, <1>2, <1>4 DEF Typed
  <2>2. run.mem \subseteq inv[run.by]
    BY <1>3 DEF Held
  <2> QED BY <1>3, <1>4, <1>16, <2>1, <2>2 DEF Held, all, rest
<1> HIDE DEF e
<1>19. PICK m \in Endings : m = Ending
  BY <1>4
<1>20. Target(m)'
  <2>1. m = <<>> => run'.tx = Finished(run.tx)'
    <3>1. <<"metadata">> # <<>>
      BY LiteralPlaces
    <3>2. ASSUME ~run.embeds PROVE e = CatalogTx
      <4>1. CatalogTx.versions = db.versions \cup {run.branch} /\ CatalogTx.format = TRUE
        BY <1>11, <3>2
      <4>2. CatalogTx.versions \cup {run.branch} = CatalogTx.versions
        BY <4>1
      <4>3. e = [CatalogTx EXCEPT !.versions = CatalogTx.versions, !.format = CatalogTx.format]
        BY <1>10, <4>1, <4>2
      <4> HIDE DEF e
      <4> QED BY <1>4, <4>3 DEF Database
    <3> QED BY <1>4, <1>19, <3>1, <3>2 DEF Ending, e
  <2>2. run'.tx # None
    BY <1>4, NoneAssumption
  <2>3. run'.seen \in Tree /\ (~world'.fails => run'.records = {})
    BY <1>3, <1>4, <1>9
  <2> QED BY <1>17, <1>18, <2>1, <2>2, <2>3 DEF Target
<1>21. \/ Restoring(ToVec(ToHashes(m)))' \/ Publishing(ToHashes(m))'
  <2>1. CASE CatalogDrop # {}
    <3>1. run'.todo = ToAside(ToVec(ToHashes(m)))
      BY <1>4, <1>19, <2>1
    <3>2. ASSUME world.faults # {} PROVE WholeNow(db, Keys(pub), hashes, failed, File)
      <4>1. Looked = File
        BY <1>2, <3>2 DEF Looked, Calm
      <4> QED BY <1>3, <4>1
    <3>3. Restorable(pub.vec, pub.meta)'
      <4>1. WholeNow(db, IF pub.vec = None THEN {} ELSE pub.vec.keys, hashes, failed, File)'
              = WholeNow(db, Keys(pub), hashes, failed, File)
        BY <1>4, <1>8, <1>9 DEF WholeNow, Keys
      <4>2. Paired(pub.vec, pub.meta, inverted)' = Paired(pub.vec, pub.meta, inverted)
        BY <1>9 DEF Paired, Words
      <4> QED BY <1>3, <1>9, <3>2, <4>1, <4>2 DEF Restorable
    <3> QED BY <3>1, <3>3 DEF Restoring
  <2>2. CASE CatalogDrop = {} /\ CatalogSaves
    <3>1. run'.todo = ToVec(ToHashes(m))
      BY <1>4, <1>19, <2>2
    <3> QED BY <3>1 DEF Publishing
  <2>3. CASE CatalogDrop = {} /\ ~CatalogSaves
    <3>1. run'.todo = ToHashes(m)
      BY <1>4, <1>19, <2>3
    <3>2. ~run.embeds
      BY <2>3 DEF CatalogSaves
    <3>3. run.previous \subseteq Keys(pub)
      <4>1. Keys(pub) = Referenced(db.catalog)
        BY <1>3 DEF WholeNow, Whole
      <4> QED BY <1>2, <1>3, <4>1, ReferencedFacts
    <3>4. run'.mem = Keys(pub)
      BY <1>3, <1>16, <2>3, <3>2, <3>3 DEF all, rest
    <3>5. Shown'
      BY <1>3, <1>9, <3>4 DEF Shown, Paired, Words, Keys
    <3> QED BY <3>1, <3>5 DEF Publishing
  <2> QED BY <2>1, <2>2, <2>3
<1>22. InRun'
  <2>1. PublishPhase(m)'
    BY <1>20, <1>21 DEF PublishPhase
  <2> QED BY <2>1 DEF InRun
<1> QED BY <1>1, <1>5, <1>7, <1>8, <1>9, <1>22 DEF IInv, Progress

-----------------------------------------------------------------------------
(* Health checks.                                                          *)

\* The chunks of files that are not there leave the branch.
LEMMA InvHealth ==
  ASSUME IInv, Health
  PROVE  IInv'
<1>1. /\ Typed /\ Handles /\ run # None /\ db # None /\ Settled /\ Together
      /\ world.gc \/ run.op = "health"
      /\ \E r \in Rests(run.op) : run.todo = Cons("health", r)
  BY AtPlan DEF IInv, Health
<1>2. PICK r \in Rests(run.op) : run.todo = Cons("health", r)
  BY <1>1
<1>3. /\ run \in Mutation /\ db \in Database /\ Db(run.by) = db /\ run.op \in Ops
      /\ run.op \in world.ops /\ run.branch \in Tracked /\ Tracked \subseteq Branch
      /\ run.mem \subseteq Chunk /\ Calm(world) /\ r \in Seq(StepName)
  BY <1>1, RunFacts, RestFacts DEF Typed
<1>4. ~world.fails /\ world.faults = {} /\ \A k \in Namespace : failed[k] = {}
  BY <1>1, <1>3 DEF Calm, Handles
<1>5. /\ run' \in Mutation
      /\ run'.todo = IF HealthDrop = {} THEN ToGc(r) ELSE ToAside(ToRows(r))
      /\ run'.drop = HealthDrop /\ run'.mem = HealthMem
      /\ run'.by = run.by /\ run'.op = run.op /\ run'.branch = run.branch
      /\ run'.now = run.now /\ run'.file = run.file
      /\ run'.compatible = run.compatible
      /\ HealthDb \in Database
      /\ WriteDb(run.by, HealthDb)
  BY <1>1, <1>2, <1>3, HealthFields
<1>6. Typed'
  BY <1>1, <1>2, <1>3, TypedHealth
<1>7. UNCHANGED <<world, repo, pub, inverted, hashes, failed, mode, inv, lease>>
  BY DEF Health
<1>8. db' = HealthDb /\ gone' = gone /\ db' # None
  BY <1>1, <1>5, WriteFacts, NoneAssumption
<1>9. Handles'
  BY <1>1, <1>5, <1>7, <1>8, HandlesKept DEF Handles
<1>10. /\ run' # None /\ Tracked' = Tracked /\ Looked' = Looked /\ strayed' = strayed
       /\ Rests(run.op)' = Rests(run.op) /\ Together'
  BY <1>1, <1>5, <1>7, RunKept
<1>11. /\ WholeNow(db, run.mem, hashes, failed, Looked) /\ Held /\ run.compatible
       /\ Paired(pub.vec, pub.meta, inverted) /\ Keys(pub) = run.mem
  BY <1>1 DEF Settled, Shown
<1>12. "health" \in world.ops \/ \A c \in Missing : c[1] \notin Looked
  BY <1>1, <1>3 DEF Missing, Looked, Present
<1>13. /\ Whole(world, Tracked, strayed, run.branch, HealthDb, run.mem \ HealthDrop, hashes, failed,
                Looked)
       /\ Rebuilt(db, run.mem, HealthDrop) = run.mem \ HealthDrop
  <2> DEFINE w == world
             T == Tracked
             S == strayed
             own == run.branch
             d == db
             keys == run.mem
             present == Looked
             missing == Missing
             drop == HealthDrop
             e == HealthDb
  <2>1. /\ T \subseteq Branch /\ own \in T /\ d \in Database /\ hashes \in [Namespace -> Tree]
        /\ Whole(w, T, S, own, d, keys, hashes, failed, present)
        /\ \A k \in Namespace : failed[k] = {}
        /\ missing \subseteq keys
        /\ "health" \in w.ops \/ \A c \in missing : c[1] \notin present
    BY <1>1, <1>3, <1>4, <1>11, <1>12 DEF WholeNow, Typed, Missing
  <2>2. /\ e \in Database
        /\ e = [d EXCEPT !.catalog = [d.catalog EXCEPT ![own] = @ \ missing]]
        /\ drop = Removable(missing, [d.catalog EXCEPT ![own] = @ \ missing])
    BY <1>1, <1>3, <1>5 DEF HealthDb, HealthCatalog, HealthDrop, Together
  <2> HIDE DEF w, T, S, own, d, keys, present, missing, drop, e
  <2>3. Checked(w, T, S, own, d, keys, hashes, failed, present, missing, drop, e)
    BY <2>1, <2>2 DEF Checked
  <2>4. CheckedWhole(w, T, S, own, d, keys, hashes, failed, present, drop, e)
    BY <2>3, WholeHealth
  <2> QED BY <2>4 DEF CheckedWhole, w, T, S, own, d, keys, present, drop, e
<1>14. run'.mem = run.mem \ HealthDrop
  BY <1>3, <1>5, <1>13 DEF HealthMem
<1>15. WholeNow(db, run.mem, hashes, failed, Looked)'
  <2>1. WholeNow(db, run.mem, hashes, failed, Looked)'
          = Whole(world, Tracked, strayed, run.branch, HealthDb, run.mem \ HealthDrop, hashes, failed,
                  Looked)
    BY <1>5, <1>7, <1>8, <1>10, <1>14 DEF WholeNow
  <2> QED BY <1>13, <2>1
<1>16. Held' /\ run'.drop \cap run'.mem = {}
  BY <1>5, <1>7, <1>11, <1>14 DEF Held
<1>17. Restoring(ToRows(r))' \/ Publishing(ToGc(r))'
  <2>1. CASE HealthDrop = {}
    <3>1. run'.mem = run.mem /\ run'.todo = ToGc(r)
      BY <1>5, <1>14, <2>1
    <3>2. Shown'
      BY <1>7, <1>11, <3>1 DEF Shown, Paired, Words, Keys
    <3> QED BY <3>1, <3>2 DEF Publishing
  <2>2. CASE HealthDrop # {}
    <3>1. run'.todo = ToAside(ToRows(r))
      BY <1>5, <2>2
    <3>2. Restorable(pub.vec, pub.meta)'
      BY <1>4, <1>7 DEF Restorable
    <3> QED BY <3>1, <3>2 DEF Restoring
  <2> QED BY <2>1, <2>2
<1>18. HealthPhase(r)'
  BY <1>4, <1>5, <1>7, <1>10, <1>11, <1>15, <1>16, <1>17 DEF HealthPhase
<1> QED BY <1>2, <1>6, <1>8, <1>9, <1>10, <1>18 DEF IInv, Progress, InRun

\* The rows of the chunks that lost their last branch are deleted.
LEMMA InvRows ==
  ASSUME IInv, Rows
  PROVE  IInv'
<1>1. /\ Typed /\ Handles /\ run # None /\ db # None
      /\ \E r \in Rests(run.op) : /\ HealthPhase(r) /\ run.todo = ToRows(r)
                                  /\ run.drop \cap run.mem = {}
  BY AtSweep DEF IInv, Rows
<1>2. PICK r \in Rests(run.op) : /\ HealthPhase(r) /\ run.todo = ToRows(r)
                                 /\ run.drop \cap run.mem = {}
  BY <1>1
<1>3. /\ run \in Mutation /\ db \in Database /\ Db(run.by) = db /\ run.op \in Ops
      /\ run.by \in Proc /\ run.drop \subseteq Chunk /\ Tracked \subseteq Branch
      /\ r \in Seq(StepName)
  BY <1>1, RunFacts, RestFacts DEF Typed
<1>4. run.todo # <<>> /\ Tail(run.todo) = ToVec(ToGc(r))
  BY <1>2, <1>3, HealthPlaces
<1> DEFINE e == [db EXCEPT !.chunks = @ \ run.drop]
<1>5. /\ Done /\ WriteDb(run.by, e) /\ inv' = [inv EXCEPT ![run.by] = @ \ run.drop]
      /\ UNCHANGED <<world, repo, pub, inverted, hashes, failed, mode, lease>>
  BY <1>3 DEF Rows
<1>6. /\ run' \in Mutation /\ run'.todo = ToVec(ToGc(r))
      /\ run'.by = run.by /\ run'.op = run.op /\ run'.branch = run.branch
      /\ run'.now = run.now /\ run'.file = run.file
      /\ run'.mem = run.mem /\ run'.compatible = run.compatible
  BY <1>3, <1>4, <1>5, DoneFacts
<1>7. Typed'
  BY <1>1, <1>3, TypedRows
<1>8. /\ e \in Database /\ e.chunks = db.chunks \ run.drop /\ e.catalog = db.catalog
      /\ e.embeddings = db.embeddings /\ e.versions = db.versions /\ e.format = db.format
  BY <1>3 DEF Database
<1> HIDE DEF e
<1>9. db' = e /\ gone' = gone /\ db' # None
  BY <1>1, <1>5, <1>8, WriteFacts, NoneAssumption
<1>10. Handles'
  BY <1>1, <1>5, <1>6, <1>9, HandlesKept DEF Handles
<1>11. /\ run' # None /\ Tracked' = Tracked /\ Looked' = Looked /\ strayed' = strayed
       /\ Rests(run.op)' = Rests(run.op) /\ Together' = Together
  BY <1>1, <1>5, <1>6, RunKept
<1>12. /\ WholeNow(db, run.mem, hashes, failed, Looked) /\ Held /\ run.compatible
       /\ ~world.fails /\ world.faults = {} /\ Together
  BY <1>2 DEF HealthPhase
<1>13. Whole(world, Tracked, strayed, run.branch, e, run.mem, hashes, failed, Looked)
  <2> DEFINE w == world
             T == Tracked
             S == strayed
             own == run.branch
             d == db
             keys == run.mem
             present == Looked
  <2>1. /\ T \subseteq Branch
        /\ Whole(w, T, S, own, d, keys, hashes, failed, present)
        /\ \A k \in Namespace : failed[k] = {}
        /\ e.catalog = d.catalog /\ e.versions = d.versions /\ e.format = d.format
        /\ e.chunks \subseteq d.chunks
    BY <1>1, <1>3, <1>8, <1>12 DEF WholeNow, Handles
  <2>2. keys \subseteq e.chunks /\ TextsOf(keys) \subseteq e.embeddings
    BY <1>2, <1>8, <2>1 DEF Whole
  <2> HIDE DEF w, T, S, own, d, keys, present
  <2>3. Whole(w, T, S, own, e, keys, hashes, failed, present)
    BY <2>1, <2>2, WholeSwept
  <2> QED BY <2>3 DEF w, T, S, own, keys, present
<1>14. WholeNow(db, run.mem, hashes, failed, Looked)'
  <2>1. WholeNow(db, run.mem, hashes, failed, Looked)'
          = Whole(world, Tracked, strayed, run.branch, e, run.mem, hashes, failed, Looked)
    BY <1>5, <1>6, <1>9, <1>11 DEF WholeNow
  <2> QED BY <1>13, <2>1
<1>15. Held'
  <2>1. inv'[run.by] = inv[run.by] \ run.drop
    BY <1>1, <1>3, <1>5 DEF Typed
  <2> QED BY <1>2, <1>6, <1>12, <2>1 DEF Held
<1>16. HealthPhase(r)'
  <2>1. Publishing(ToGc(r))'
    BY <1>6 DEF Publishing
  <2> QED BY <1>5, <1>6, <1>11, <1>12, <1>14, <1>15, <2>1 DEF HealthPhase
<1> QED BY <1>2, <1>7, <1>9, <1>10, <1>11, <1>16 DEF IInv, Progress, InRun

\* The rows and the embeddings that no catalog needs are deleted.
LEMMA InvGc ==
  ASSUME IInv, Gc
  PROVE  IInv'
<1>1. /\ Typed /\ Handles /\ run # None /\ db # None
      /\ \E r \in Rests(run.op) : HealthPhase(r) /\ run.todo = ToGc(r) /\ Shown
  BY AtSweep DEF IInv, Gc
<1>2. PICK r \in Rests(run.op) : HealthPhase(r) /\ run.todo = ToGc(r) /\ Shown
  BY <1>1
<1>3. /\ run \in Mutation /\ db \in Database /\ Db(run.by) = db /\ run.op \in Ops
      /\ Tracked \subseteq Branch /\ r \in Seq(StepName)
  BY <1>1, RunFacts, RestFacts DEF Typed
<1>4. run.todo # <<>> /\ Tail(run.todo) = r
  BY <1>2, <1>3, HealthPlaces
<1> DEFINE e == [db EXCEPT !.embeddings = @ \cap TextsOf(db.chunks),
                           !.chunks = @ \cap Referenced(db.catalog)]
<1>5. /\ Done /\ WriteDb(run.by, e)
      /\ UNCHANGED <<world, repo, pub, inverted, hashes, failed, mode, inv, lease>>
  BY <1>3 DEF Gc
<1>6. /\ run' \in Mutation /\ run'.todo = r
      /\ run'.by = run.by /\ run'.op = run.op /\ run'.branch = run.branch
      /\ run'.now = run.now /\ run'.file = run.file
      /\ run'.mem = run.mem /\ run'.compatible = run.compatible
  BY <1>3, <1>4, <1>5, DoneFacts
<1>7. Typed'
  BY <1>1, <1>3, TypedGc
<1>8. /\ e \in Database /\ e.chunks = db.chunks \cap Referenced(db.catalog)
      /\ e.embeddings = db.embeddings \cap TextsOf(db.chunks)
      /\ e.catalog = db.catalog /\ e.versions = db.versions /\ e.format = db.format
  BY <1>3 DEF Database
<1> HIDE DEF e
<1>9. db' = e /\ gone' = gone /\ db' # None
  BY <1>1, <1>5, <1>8, WriteFacts, NoneAssumption
<1>10. Handles'
  BY <1>1, <1>5, <1>6, <1>9, HandlesKept DEF Handles
<1>11. /\ run' # None /\ Tracked' = Tracked /\ Looked' = Looked /\ strayed' = strayed
       /\ Rests(run.op)' = Rests(run.op) /\ Together' = Together
  BY <1>1, <1>5, <1>6, RunKept
<1>12. /\ WholeNow(db, run.mem, hashes, failed, Looked) /\ Held /\ run.compatible
       /\ ~world.fails /\ world.faults = {} /\ Together
  BY <1>2 DEF HealthPhase
<1>13. Whole(world, Tracked, strayed, run.branch, e, run.mem, hashes, failed, Looked)
  <2> DEFINE w == world
             T == Tracked
             S == strayed
             own == run.branch
             d == db
             keys == run.mem
             present == Looked
  <2>1. /\ T \subseteq Branch
        /\ Whole(w, T, S, own, d, keys, hashes, failed, present)
        /\ \A k \in Namespace : failed[k] = {}
        /\ e.catalog = d.catalog /\ e.versions = d.versions /\ e.format = d.format
        /\ e.chunks \subseteq d.chunks
    BY <1>1, <1>3, <1>8, <1>12 DEF WholeNow, Handles
  <2>2. keys = Referenced(d.catalog) /\ keys \subseteq d.chunks
        /\ TextsOf(keys) \subseteq d.embeddings
    BY <2>1 DEF Whole
  <2>3. keys \subseteq e.chunks
    BY <1>8, <2>2
  <2>4. TextsOf(keys) \subseteq e.embeddings
    BY <1>8, <2>2, TextsMonotone
  <2> HIDE DEF w, T, S, own, d, keys, present
  <2>5. Whole(w, T, S, own, e, keys, hashes, failed, present)
    BY <2>1, <2>3, <2>4, WholeSwept
  <2> QED BY <2>5 DEF w, T, S, own, keys, present
<1>14. WholeNow(db, run.mem, hashes, failed, Looked)'
  <2>1. WholeNow(db, run.mem, hashes, failed, Looked)'
          = Whole(world, Tracked, strayed, run.branch, e, run.mem, hashes, failed, Looked)
    BY <1>5, <1>6, <1>9, <1>11 DEF WholeNow
  <2> QED BY <1>13, <2>1
<1>15. Settled'
  <2>1. Shown' /\ Held'
    BY <1>2, <1>5, <1>6, <1>12 DEF Shown, Paired, Words, Keys, Held
  <2> QED BY <1>6, <1>12, <1>14, <2>1 DEF Settled
<1>16. ReadyPhase'
  BY <1>2, <1>6, <1>11, <1>12, <1>15 DEF ReadyPhase
<1> QED BY <1>7, <1>9, <1>10, <1>11, <1>16 DEF IInv, Progress, InRun

-----------------------------------------------------------------------------
(* A run that starts from nothing, and the retry of the failed batches.    *)

\* The stores in memory are emptied.
LEMMA InvClear ==
  ASSUME IInv, Clear
  PROVE  IInv'
<1>1. /\ Typed /\ Handles /\ run # None /\ db # None /\ run.todo = Plan("force") /\ Together
  BY AtPlan DEF IInv, Clear
<1>2. /\ ToVec(ToWipe) \in Seq(StepName) /\ run.todo = Cons("clear", ToVec(ToWipe))
  BY <1>1, Literals, ForcePlaces, Places
<1>3. Tail(run.todo) = ToVec(ToWipe)
  BY <1>2, StepFacts DEF StepName
<1>4. /\ run' \in Mutation /\ run'.todo = ToVec(ToWipe) /\ run'.mem = {}
      /\ run'.by = run.by /\ run'.op = run.op /\ run'.branch = run.branch
      /\ run'.now = run.now /\ run'.file = run.file
      /\ Typed'
  BY <1>1, <1>3, ClearFields
<1>5. UNCHANGED <<world, repo, files, mode, gone, lease>>
  BY DEF Clear
<1>6. Handles'
  BY <1>1, <1>4, <1>5, HandlesKept DEF Handles, files
<1>7. run' # None /\ db' # None
  BY <1>1, <1>4, <1>5, NoneAssumption DEF files
<1>8. ForcePhase'
  BY <1>1, <1>4 DEF ForcePhase, Publishing, Together
<1> QED BY <1>4, <1>6, <1>7, <1>8 DEF IInv, Progress, InRun

\* The hash caches are deleted.
LEMMA InvWipe ==
  ASSUME IInv, Wipe
  PROVE  IInv'
<1>1. /\ Typed /\ Handles /\ run # None /\ db # None
      /\ ForcePhase /\ Shown /\ run.todo = ToWipe
  BY AtSweep DEF IInv, Wipe
<1>2. /\ Done /\ UNCHANGED <<world, repo, pub, inverted, db, memory, lease>>
      /\ hashes' = [k \in Namespace |-> NoHashes]
      /\ failed' = IF world.scope = "project" THEN [k \in Namespace |-> {}] ELSE failed
  BY DEF Wipe
<1>3. /\ run' \in Mutation /\ run'.todo = ToClearDb
      /\ run'.by = run.by /\ run'.op = run.op /\ run'.branch = run.branch
      /\ run'.now = run.now /\ run'.file = run.file
      /\ run'.mem = run.mem
  BY <1>1, <1>2, RunFacts, DoneFacts, ForcePlaces
<1>4. Typed'
  BY <1>1, TypedWipe
<1>5. ~world.fails => \A k \in Namespace : failed'[k] = {}
  BY <1>1, <1>2 DEF Handles
<1>6. Handles'
  BY <1>1, <1>2, <1>3, <1>5, HandlesKept DEF memory
<1>7. run' # None /\ db' # None
  BY <1>1, <1>2, <1>3, NoneAssumption
<1>8. ForcePhase'
  <2>1. Shown'
    BY <1>1, <1>2, <1>3 DEF Shown, Paired, Words, Keys
  <2> QED BY <1>1, <1>2, <1>3, <2>1 DEF ForcePhase, Together
<1> QED BY <1>4, <1>6, <1>7, <1>8 DEF IInv, Progress, InRun

\* The database is emptied; the empty index is whole.
LEMMA InvClearDb ==
  ASSUME IInv, ClearDb
  PROVE  IInv'
<1>1. /\ Typed /\ Handles /\ run # None /\ db # None
      /\ ForcePhase /\ Shown /\ run.todo = ToClearDb
      /\ \A k \in Namespace : hashes[k] = NoHashes
  BY AtSweep DEF IInv, ClearDb
<1>2. /\ db \in Database /\ Db(run.by) = db /\ Tracked \subseteq Branch
      /\ run.mem = {} /\ Together
  BY <1>1, RunFacts DEF Typed, ForcePhase
<1>3. /\ run' \in Mutation /\ run'.todo = Indexing /\ run'.compatible
      /\ run'.by = run.by /\ run'.op = run.op /\ run'.branch = run.branch
      /\ run'.now = run.now /\ run'.file = run.file
      /\ run'.mem = {}
      /\ Cleared \in Database /\ WriteDb(run.by, Cleared)
      /\ Typed'
  BY <1>1, <1>2, ClearDbFields, ForcePlaces
<1>4. /\ UNCHANGED <<world, refs, branch, pub, inverted, hashes, mode, inv, lease>>
      /\ failed' = [k \in Namespace |-> {}]
  BY DEF ClearDb
<1>5. db' = Cleared /\ gone' = gone /\ db' # None
  BY <1>1, <1>3, WriteFacts, NoneAssumption
<1>7. run' # None /\ Tracked' = Tracked /\ Looked' = Looked /\ Together'
  BY <1>2, <1>3, <1>4, NoneAssumption DEF Tracked, TrackedIn, Looked, tree, Together
<1>6. Handles'
  <2>1. Placed'
    BY <1>1, <1>3, <1>4, <1>7 DEF Handles, Placed
  <2>2. \A k \in Namespace : failed'[k] = {}
    BY <1>4
  <2> QED BY <1>1, <1>3, <1>4, <1>5, <1>7, <2>1, <2>2 DEF Handles, lease
<1>8. Whole(world, Tracked, strayed', run.branch, Cleared, {}, hashes, failed', Looked)
  <2> DEFINE w == world
             T == Tracked
             S == strayed'
             own == run.branch
             d == Cleared
             records == failed'
             present == Looked
  <2>1. /\ T \subseteq Branch /\ d \in Database
        /\ \A k \in Namespace : hashes[k] = NoHashes /\ records[k] = {}
    BY <1>1, <1>2, <1>3, <1>4
  <2>2. d.chunks = {} /\ d.catalog = [b \in Branch |-> {}]
    BY <1>2 DEF Cleared, EmptyDatabase, Database
  <2> HIDE DEF w, T, S, own, d, records, present
  <2>3. Whole(w, T, S, own, d, {}, hashes, records, present)
    BY <2>1, <2>2, WholeEmpty
  <2> QED BY <2>3 DEF w, T, S, own, d, records, present
<1>9. WholeNow(db, run.mem, hashes, failed, Looked)'
  <2>1. WholeNow(db, run.mem, hashes, failed, Looked)'
          = Whole(world, Tracked, strayed', run.branch, Cleared, {}, hashes, failed', Looked)
    BY <1>3, <1>4, <1>5, <1>7 DEF WholeNow
  <2> QED BY <1>8, <2>1
<1>10. Settled'
  <2>1. Shown' /\ Held'
    BY <1>1, <1>2, <1>3, <1>4 DEF Shown, Paired, Words, Keys, Held
  <2> QED BY <1>3, <1>9, <2>1 DEF Settled
<1>11. ReadyPhase'
  BY <1>3, <1>7, <1>10 DEF ReadyPhase
<1> QED BY <1>3, <1>5, <1>6, <1>7, <1>11 DEF IInv, Progress, InRun

\* Where checks are due or asked for, no more is asked of a whole index than that of the
\* other files; but an operation that is not a run of index_codebase needs more, and has it.
LEMMA LookedEverywhere ==
  ASSUME Typed, Handles, run # None, run.op \in {"retry", "health"},
         WholeNow(db, run.mem, hashes, failed, Looked)
  PROVE  WholeNow(db, run.mem, hashes, failed, File)
<1>1. /\ run.op \in world.ops /\ Tracked \subseteq Branch /\ Calm(world)
      /\ hashes \in [Namespace -> Tree]
  BY RunFacts DEF Typed
<1>2. Looked = File \/ "health" \in world.ops
  BY <1>1 DEF Looked, Calm
<1> DEFINE w == world
           T == Tracked
           S == strayed
           own == run.branch
           present == Looked
           keys == run.mem
<1>3. /\ T \subseteq Branch /\ Whole(w, T, S, own, db, keys, hashes, failed, present)
      /\ present = File \/ "health" \in w.ops
  BY <1>1, <1>2 DEF WholeNow
<1> HIDE DEF w, T, S, own, present, keys
<1>4. Whole(w, T, S, own, db, keys, hashes, failed, File)
  BY <1>1, <1>3, WholeWeaker
<1> QED BY <1>4 DEF WholeNow, w, T, S, own, keys

\* The failed chunks are sent again.
LEMMA InvRetry ==
  ASSUME IInv, Retry
  PROVE  IInv'
<1>1. /\ Typed /\ Handles /\ run # None /\ db # None /\ Settled
      /\ run.todo = <<"retry">> /\ run.op = "retry" /\ run.now = run.branch
      /\ run.file = run.branch
  BY AtPlan DEF IInv, Retry, Together
<1>2. /\ run \in Mutation /\ db \in Database /\ Db(run.by) = db /\ run.by \in Proc
      /\ run.branch \in Tracked /\ Tracked \subseteq Branch
      /\ Separate(world, Tracked, run.branch, failed)
      /\ Key(run.branch) = Place(world, run.branch)
  BY <1>1, RunFacts DEF Typed
<1>3. PICK again \in SUBSET Batch :
        LET stored == Batch \ again IN
        /\ again # {} => world.fails
        /\ RetryDb(stored) \in Database
        /\ RetryDb(stored).embeddings = db.embeddings \cup TextsOf(stored)
        /\ RetryDb(stored).catalog = [db.catalog EXCEPT ![run.now] = @ \cup stored]
        /\ RetryDb(stored).chunks = db.chunks
        /\ RetryDb(stored).versions = db.versions
        /\ RetryDb(stored).format = db.format
        /\ WriteDb(run.by, RetryDb(stored))
        /\ inv' = [inv EXCEPT ![run.by] = @ \cup stored]
        /\ run' \in Mutation
        /\ run'.todo = IF stored = {} THEN <<"putFailed">> ELSE Cons("putFailed", ToVec(<<>>))
        /\ run'.mem = run.mem \cup stored /\ run'.records = again
        /\ run'.by = run.by /\ run'.op = run.op /\ run'.branch = run.branch
        /\ run'.now = run.now /\ run'.file = run.file
  <2>1. RetryGives(Db(run.by))
    BY <1>1, <1>2, RetryFields
  <2>2. RetryGives(db)
    BY <1>2, <2>1
  <2> QED BY <2>2 DEF RetryGives
<1> DEFINE stored == Batch \ again
           e == RetryDb(stored)
<1>4. /\ again # {} => world.fails
      /\ e \in Database /\ e.embeddings = db.embeddings \cup TextsOf(stored)
      /\ e.catalog = [db.catalog EXCEPT ![run.branch] = @ \cup stored]
      /\ e.chunks = db.chunks /\ e.versions = db.versions /\ e.format = db.format
      /\ WriteDb(run.by, e)
      /\ inv' = [inv EXCEPT ![run.by] = @ \cup stored]
      /\ run' \in Mutation
      /\ run'.todo = IF stored = {} THEN <<"putFailed">> ELSE Cons("putFailed", ToVec(<<>>))
      /\ run'.mem = run.mem \cup stored /\ run'.records = again
      /\ run'.by = run.by /\ run'.op = run.op /\ run'.branch = run.branch
      /\ run'.now = run.now /\ run'.file = run.file
  BY <1>1, <1>3
<1>5. again \subseteq Batch /\ stored = Batch \ again
  OBVIOUS
<1> HIDE DEF stored, e
<1>6. Typed'
  BY <1>1, <1>2, TypedRetry
<1>7. UNCHANGED <<world, repo, pub, inverted, hashes, failed, mode, lease>>
  BY DEF Retry
<1>8. db' = e /\ gone' = gone /\ db' # None
  BY <1>1, <1>4, WriteFacts, NoneAssumption
<1>9. Handles'
  BY <1>1, <1>4, <1>7, <1>8, HandlesKept DEF Handles
<1>10. /\ run' # None /\ Tracked' = Tracked /\ strayed' = strayed
       /\ Key(FailedBranch)' = Key(run.branch)
  BY <1>1, <1>4, <1>7, RunKept DEF FailedBranch, Key
<1>11. WholeNow(db, run.mem, hashes, failed, File) /\ Shown /\ Held
  BY <1>1, LookedEverywhere DEF Settled
<1>12. Whole(world, Tracked, strayed, run.branch, e, run.mem \cup stored, hashes,
             [failed EXCEPT ![Place(world, run.branch)] = again], File)
  <2> DEFINE w == world
             T == Tracked
             S == strayed
             own == run.branch
             keys == run.mem
             d == db
  <2>1. Reembedded(w, T, S, own, d, keys, hashes, failed, again, stored, e)
    BY <1>1, <1>2, <1>4, <1>5, <1>11 DEF Reembedded, WholeNow, Typed, Batch
  <2> HIDE DEF w, T, S, own, keys, d
  <2>2. Whole(w, T, S, own, e, keys \cup stored, hashes, [failed EXCEPT ![Place(w, own)] = again],
              File)
    BY <2>1, WholeRetry
  <2> QED BY <2>2 DEF w, T, S, own, keys
<1>13. WholeNow(db, run.mem, hashes, NewFailed, File)'
  <2>1. NewFailed' = [failed EXCEPT ![Place(world, run.branch)] = again]
    BY <1>2, <1>4, <1>7, <1>10 DEF NewFailed
  <2>2. WholeNow(db, run.mem, hashes, NewFailed, File)'
          = Whole(world, Tracked, strayed, run.branch, e, run.mem \cup stored, hashes,
                  [failed EXCEPT ![Place(world, run.branch)] = again], File)
    BY <1>4, <1>7, <1>8, <1>10, <2>1 DEF WholeNow
  <2> QED BY <1>12, <2>2
<1>14. Held'
  <2>1. inv'[run.by] = inv[run.by] \cup stored
    BY <1>1, <1>2, <1>4 DEF Typed
  <2> QED BY <1>4, <1>11, <2>1 DEF Held
<1>15. stored = {} => Shown'
  BY <1>4, <1>7, <1>11 DEF Shown, Paired, Words, Keys
<1>16. RetryPhase'
  BY <1>1, <1>4, <1>7, <1>13, <1>14, <1>15 DEF RetryPhase
<1> QED BY <1>6, <1>8, <1>9, <1>10, <1>16 DEF IInv, Progress, InRun

-----------------------------------------------------------------------------
(* The beginning and the end of a run.                                     *)

\* A run takes the lease; the artifacts stay as they are.
LEMMA InvBegin ==
  ASSUME IInv, NEW p \in Proc, NEW op \in Ops, Begin(p, op)
  PROVE  IInv'
<1>1. /\ Typed /\ Handles /\ p # None
  BY NoneAssumption DEF IInv
<1>2. run = None
  <2>1. ASSUME run # None PROVE FALSE
    <3>1. holder = run.by /\ run.by \in Proc
      BY <1>1, <2>1, RunFacts
    <3> QED BY <3>1, NoneAssumption DEF Begin
  <2> QED BY <2>1
<1>3. Resting
  BY <1>2 DEF IInv, Progress
<1>4. Typed' /\ run' \in Mutation /\ run'.todo = <<"open">>
  BY <1>1, TypedBegin
<1>5. run' # None
  BY <1>4, NoneAssumption
<1>6. /\ p \in world.procs /\ op \in world.ops /\ holder' = p
      /\ world.reads => gone[p] = None
      /\ UNCHANGED <<world, repo, files, memory, crashed>>
      /\ run' = NewRun(p, op)
  BY DEF Begin
<1>7. /\ run'.by = p /\ run'.op = op
      /\ run'.branch = branch /\ run'.now = branch /\ run'.file = branch
  BY <1>6 DEF NewRun
<1>8. Tracked' = Tracked /\ branch \in Tracked /\ strayed' = strayed /\ branch' = branch
  BY <1>1, <1>6 DEF Tracked, TrackedIn, repo, Typed
<1>9. gone[p] = None
  BY <1>1, <1>6 DEF Handles
<1>10. Handles'
  <2>1. Placed'
    BY <1>7, <1>8 DEF Placed, Together
  <2> QED BY <1>1, <1>5, <1>6, <1>7, <1>9, <2>1 DEF Handles, memory, files
<1>11. Resting'
  BY <1>3, <1>6, <1>8 DEF Resting, Blank, Paired, Words, Keys, files
<1> QED BY <1>4, <1>5, <1>10, <1>11 DEF IInv, Progress

\* What a run with no step left has made of the artifacts.
LEMMA EndFacts ==
  ASSUME IInv, run # None, run.todo = <<>>
  PROVE  /\ db # None /\ Shown /\ WholeNow(db, run.mem, hashes, failed, File)
         /\ run.op \in {"index", "force"} => Accomplished
<1>1. Typed /\ Handles
  BY DEF IInv
<1>2. CASE run.op = "health" /\ Settled
  BY <1>1, <1>2, AtNothing, LookedEverywhere DEF Settled
<1>3. CASE EndPhase
  BY <1>3, AtNothing DEF EndPhase
<1>4. CASE run.op = "retry" /\ Shown /\ WholeNow(db, run.mem, hashes, failed, File)
  BY <1>4, AtNothing
<1> QED BY <1>2, <1>3, <1>4, AtNothing

\* The run ends, and the artifacts are whole.
LEMMA InvFinish ==
  ASSUME IInv, Finish
  PROVE  IInv'
<1>1. /\ Typed /\ Handles /\ run # None /\ run.todo = <<>>
  BY DEF IInv, Finish
<1>2. db # None /\ Shown /\ WholeNow(db, run.mem, hashes, failed, File)
  BY <1>1, EndFacts
<1>3. /\ run' = None /\ holder' = None /\ crashed' = FALSE
      /\ UNCHANGED <<world, repo, files, memory>>
  BY DEF Finish
<1>4. Typed'
  BY <1>1, TypedFinish
<1>5. Tracked' = Tracked /\ strayed' = strayed
  BY <1>3 DEF Tracked, TrackedIn, repo
<1>6. Handles'
  BY <1>1, <1>3, <1>5 DEF Handles, memory, files
<1>7. Resting'
  <2>1. run.branch \in Branch
    BY <1>1, RunFacts
  <2>2. Paired(pub.vec, pub.meta, inverted) /\ Keys(pub) = run.mem
        /\ Whole(world, Tracked, strayed, run.branch, db, Keys(pub), hashes, failed, File)
    BY <1>2 DEF Shown, WholeNow
  <2>3. \E own \in Branch :
          Whole(world, Tracked, strayed, own, db, Keys(pub), hashes, failed, File)
    BY <2>1, <2>2
  <2>4. Paired(pub.vec, pub.meta, inverted)' /\ Keys(pub)' = Keys(pub)
    BY <1>3, <2>2 DEF Paired, Words, Keys, files
  <2> QED BY <1>2, <1>3, <1>5, <2>3, <2>4 DEF Resting, files
<1> QED BY <1>3, <1>4, <1>6, <1>7 DEF IInv, Progress

\* A killed writer leaves its work to the next one.
LEMMA InvKill ==
  ASSUME IInv, Kill
  PROVE  IInv'
<1>1. Typed /\ Handles
  BY DEF IInv
<1>2. /\ run' = None /\ holder' = None /\ crashed' = TRUE /\ world.kills
      /\ mode' = [mode EXCEPT ![holder] = "none"] /\ gone' = [gone EXCEPT ![holder] = None]
      /\ UNCHANGED <<world, repo, files>>
  BY DEF Kill
<1>3. Typed'
  BY <1>1, TypedKill
<1>4. /\ \A q \in Proc : mode'[q] = "writer" => mode[q] = "writer"
      /\ \A q \in Proc : gone'[q] # None => gone[q] # None
  BY <1>1, <1>2 DEF Typed
<1>5. Handles'
  BY <1>1, <1>2, <1>4 DEF Handles, files
<1> QED BY <1>2, <1>3, <1>5 DEF IInv, Progress, Resting

\* The next writer finds a pair it can read: nothing, or what the last run published.
LEMMA OpenReads ==
  ASSUME Typed, Handles, Resting
  PROVE  /\ Readable(OpenPub) /\ Recovered(pub) = OpenPub
         /\ OpenDb \in Database /\ Keys(OpenPub) \subseteq Words(OpenInverted)
         /\ OpenPub.meta = OpenPub.vec
         /\ \A k \in Namespace : OpenFailed[k] = IF crashed THEN {} ELSE failed[k]
         /\ \A own, present :
              Whole(world, Tracked, OpenStrayed, own, OpenDb, Keys(OpenPub), OpenHashes, OpenFailed, present)
<1>1. crashed => world.scope = "project"
  BY DEF Handles, Typed, Calm
<1>2. Recovered(pub) = OpenPub
  BY <1>1 DEF Recovered, OpenPub
<1>3. OpenDb \in Database
  BY EmptyType DEF OpenDb, Typed
<1>4. Tracked \subseteq Branch /\ hashes \in [Namespace -> Tree]
  BY DEF Typed, Tracked, TrackedIn
<1>5. CASE crashed \/ Blank
  <2>1. OpenPub.vec = None /\ OpenPub.meta = None
    BY <1>5 DEF OpenPub, NoPublication, Blank
  <2>2. Keys(OpenPub) = {}
    BY <2>1 DEF Keys
  <2>3. OpenDb.chunks = {} /\ OpenDb.catalog = [b \in Branch |-> {}]
    BY <1>5 DEF OpenDb, EmptyDatabase, Blank
  <2>4. \A k \in Namespace : OpenHashes[k] = NoHashes /\ OpenFailed[k] = {}
    BY <1>5 DEF OpenHashes, OpenFailed, Blank
  <2>5. ASSUME NEW own, NEW present
        PROVE  Whole(world, Tracked, OpenStrayed, own, OpenDb, {}, OpenHashes, OpenFailed, present)
    <3> DEFINE w == world
               T == Tracked
               S == OpenStrayed
               d == OpenDb
               caches == OpenHashes
               records == OpenFailed
    <3>1. /\ T \subseteq Branch /\ d \in Database
          /\ d.chunks = {} /\ d.catalog = [b \in Branch |-> {}]
          /\ \A k \in Namespace : caches[k] = NoHashes /\ records[k] = {}
      BY <1>3, <1>4, <2>3, <2>4
    <3> HIDE DEF w, T, S, d, caches, records
    <3>2. Whole(w, T, S, own, d, {}, caches, records, present)
      BY <3>1, WholeEmpty
    <3> QED BY <3>2 DEF w, T, S, d, caches, records
  <2>6. \A k \in Namespace : OpenFailed[k] = IF crashed THEN {} ELSE failed[k]
    BY DEF OpenFailed
  <2>7. \A own, present :
          Whole(world, Tracked, OpenStrayed, own, OpenDb, Keys(OpenPub), OpenHashes, OpenFailed, present)
    BY <2>2, <2>5
  <2>8. Readable(OpenPub) /\ Keys(OpenPub) \subseteq Words(OpenInverted)
    BY <2>1, <2>2 DEF Readable
  <2> QED BY <1>2, <1>3, <2>1, <2>6, <2>7, <2>8
<1>6. CASE /\ ~crashed /\ db # None /\ Paired(pub.vec, pub.meta, inverted)
           /\ \E own \in Branch :
                Whole(world, Tracked, strayed, own, db, Keys(pub), hashes, failed, File)
  <2>1. OpenPub = pub /\ OpenDb = db /\ OpenHashes = hashes /\ OpenFailed = failed
        /\ OpenInverted = inverted /\ OpenStrayed = strayed
    BY <1>6 DEF OpenPub, OpenDb, OpenHashes, OpenFailed, OpenInverted, OpenStrayed
  <2>2. pub.meta = pub.vec /\ Keys(pub) \subseteq Words(inverted)
    BY <1>6 DEF Paired, Keys
  <2>3. Readable(pub)
    BY <2>2 DEF Readable
  <2>4. PICK old \in Branch : Whole(world, Tracked, strayed, old, db, Keys(pub), hashes, failed, File)
    BY <1>6
  <2>5. ASSUME NEW own, NEW present
        PROVE  Whole(world, Tracked, strayed, own, db, Keys(pub), hashes, failed, present)
    <3> DEFINE w == world
               T == Tracked
               S == strayed
               keys == Keys(pub)
               all == File
    <3>1. /\ T \subseteq Branch /\ Whole(w, T, S, old, db, keys, hashes, failed, all)
          /\ all = File
      BY <1>4, <2>4
    <3> HIDE DEF w, T, S, keys, all
    <3>2. Whole(w, T, S, own, db, keys, hashes, failed, present)
      BY <1>4, <3>1, WholeWeaker
    <3> QED BY <3>2 DEF w, T, S, keys
  <2> QED BY <1>2, <1>3, <1>6, <2>1, <2>2, <2>3, <2>5
<1> QED BY <1>5, <1>6 DEF Resting

\* The index is opened, and a run may start.
LEMMA InvOpen ==
  ASSUME IInv, Open
  PROVE  IInv'
<1>1. /\ Typed /\ Handles /\ run # None /\ run.todo = <<"open">> /\ Resting
  BY AtIndexing DEF IInv, Open
<1>2. /\ run \in Mutation /\ run.by \in Proc /\ run.by \in world.procs /\ run.op \in Ops
      /\ run.op \in world.ops /\ run.now \in Tracked /\ Tracked \subseteq Branch
      /\ Calm(world)
  BY <1>1, RunFacts
<1>3. /\ Readable(OpenPub) /\ OpenDb \in Database
      /\ Keys(OpenPub) \subseteq Words(OpenInverted) /\ OpenPub.meta = OpenPub.vec
      /\ \A k \in Namespace : OpenFailed[k] = IF crashed THEN {} ELSE failed[k]
      /\ \A own, present :
           Whole(world, Tracked, OpenStrayed, own, OpenDb, Keys(OpenPub), OpenHashes, OpenFailed, present)
  BY <1>1, OpenReads
<1>4. /\ pub' = OpenPub /\ inverted' = OpenInverted /\ db' = OpenDb
      /\ hashes' = OpenHashes /\ failed' = OpenFailed
      /\ mode' = [mode EXCEPT ![run.by] = "writer"]
      /\ inverted' # None => inv'[run.by] = inverted'
      /\ gone'[run.by] = None
      /\ \A q \in Proc : gone'[q] # None =>
           gone[q] # None \/ (crashed /\ q # run.by /\ mode[q] = "writer")
      /\ run' \in Mutation
      /\ \/ run'.todo = Plan(run.op)
         \/ world.gc /\ run'.todo = Cons("health", Plan(run.op))
      /\ run'.branch = OpenBranch /\ run'.now = OpenBranch /\ run'.file = OpenBranch
      /\ run'.mem = Keys(OpenPub) /\ strayed' = OpenStrayed
      /\ run'.compatible = \/ world.scope = "global"
                           \/ OpenDb.format
                           \/ Keys(OpenPub) = {} /\ OpenDb.chunks = {}
                                /\ OpenHashes[Key(OpenBranch)] = NoHashes
      /\ run'.by = run.by /\ run'.op = run.op
      /\ UNCHANGED lease
  BY <1>1, <1>2, <1>3, OpenFields
<1>5. Typed'
  BY <1>1, <1>2, <1>3, TypedOpen
<1>6. UNCHANGED <<world, refs, branch>>
  BY DEF Open
<1>7. /\ Tracked' = Tracked /\ Looked' = Looked /\ world' = world /\ branch' = branch
      /\ Together'
  BY <1>4, <1>6 DEF Tracked, TrackedIn, Looked, tree, Together
<1>8. OpenBranch \in Tracked /\ (world.races = {} => OpenBranch = branch)
  BY <1>1, <1>2 DEF OpenBranch, Tracked, TrackedIn, Typed, Handles, Placed
<1>9. run' # None /\ db' # None
  BY <1>3, <1>4, NoneAssumption
<1>10. Handles'
  <2>1. holder' = run'.by /\ crashed' = crashed
    BY <1>1, <1>4, RunFacts DEF lease
  <2>2. ASSUME NEW q \in Proc, mode'[q] = "writer" PROVE q \in world.procs
    BY <1>1, <1>2, <1>4, <2>2 DEF Handles, Typed
  <2>3. ASSUME NEW q \in Proc, gone'[q] # None PROVE world.reads
    <3>1. CASE gone[q] # None
      BY <1>1, <3>1 DEF Handles
    <3>2. CASE crashed /\ q # run.by /\ mode[q] = "writer"
      BY <1>1, <1>2, <3>2 DEF Handles, Calm
    <3> QED BY <1>4, <2>3, <3>1, <3>2
  <2>4. ~world.fails => \A k \in Namespace : failed'[k] = {}
    BY <1>1, <1>3, <1>4 DEF Handles
  <2>5. crashed' => world.kills
    BY <1>1, <2>1 DEF Handles
  <2>6. /\ run'.by \in world.procs /\ run'.op \in world.ops
        /\ Placed' /\ gone'[run'.by] = None
    BY <1>2, <1>4, <1>7, <1>8 DEF Placed
  <2> QED BY <1>7, <1>9, <2>1, <2>2, <2>3, <2>4, <2>5, <2>6 DEF Handles
<1>11. WholeNow(db, run.mem, hashes, failed, Looked)'
  <2>1. WholeNow(db, run.mem, hashes, failed, Looked)'
          = Whole(world, Tracked, OpenStrayed, OpenBranch, OpenDb, Keys(OpenPub), OpenHashes, OpenFailed,
                  Looked)
    BY <1>4, <1>7 DEF WholeNow
  <2> QED BY <1>3, <2>1
<1>12. Shown'
  <2>1. Keys(pub)' = Keys(OpenPub)
    BY <1>4 DEF Keys
  <2>2. Words(inverted)' = Words(OpenInverted)
    BY <1>4 DEF Words
  <2>3. (IF pub.vec = None THEN {} ELSE pub.vec.keys)' = Keys(OpenPub)
    BY <1>4 DEF Keys
  <2> QED BY <1>3, <1>4, <2>1, <2>2, <2>3 DEF Shown, Paired
<1>13. Held'
  <2>1. CASE inverted' = None
    BY <1>3, <1>4, <2>1 DEF Held, Words
  <2>2. CASE inverted' # None
    BY <1>3, <1>4, <2>2 DEF Held, Words
  <2> QED BY <2>1, <2>2
<1>14. run'.compatible
  <2>1. Marked(world, OpenDb, Keys(OpenPub), OpenHashes)
    BY <1>3 DEF Whole
  <2>2. Key(OpenBranch) \in Namespace
    BY <1>2, <1>8, KeyType
  <2> QED BY <1>4, <2>1, <2>2 DEF Marked
<1>15. Settled'
  BY <1>11, <1>12, <1>13, <1>14 DEF Settled
<1>16. ReadyPhase'
  <2>1. Plan(run.op) \in Rests(run.op)
    BY Literals DEF Rests
  <2> QED BY <1>4, <1>7, <1>15, <2>1 DEF ReadyPhase
<1> QED BY <1>5, <1>9, <1>10, <1>16 DEF IInv, Progress, InRun

-----------------------------------------------------------------------------
(* A rebuild that throws.                                                  *)

\* No vectors are rebuilt in t.
Lacks(t) == \A i \in DOMAIN t : t[i] # "dropVec"

\* A step other than the drop of the set-aside vectors adds none.
LEMMA LacksCons ==
  ASSUME NEW t \in Seq(StepName), Lacks(t), NEW s \in StepName, s # "dropVec"
  PROVE  Lacks(Cons(s, t)) /\ Cons(s, t) \in Seq(StepName)
<1> DEFINE u == <<s>>
<1>1. u \in Seq(StepName) /\ Len(u) = 1 /\ u[1] = s
  OBVIOUS
<1>2. Cons(s, t) = u \o t
  BY DEF Cons
<1> HIDE DEF u
<1>3. /\ u \o t \in Seq(StepName) /\ Len(u \o t) = Len(u) + Len(t)
      /\ \A i \in 1 .. Len(u) + Len(t) : (u \o t)[i] = IF i <= Len(u) THEN u[i] ELSE t[i - Len(u)]
  BY <1>1, ConcatProperties
<1>4. \A i \in 1 .. 1 + Len(t) : (u \o t)[i] = IF i <= 1 THEN s ELSE t[i - 1]
  BY <1>1, <1>3
<1>5. DOMAIN (u \o t) = 1 .. 1 + Len(t) /\ DOMAIN t = 1 .. Len(t) /\ Len(t) \in Nat
  BY <1>1, <1>3
<1>6. ASSUME NEW i \in 1 .. 1 + Len(t) PROVE (u \o t)[i] # "dropVec"
  <2>1. CASE i = 1
    BY <1>4, <1>5, <2>1
  <2>2. CASE i # 1
    <3>1. i - 1 \in 1 .. Len(t)
      BY <1>5, <2>2
    <3>2. (u \o t)[i] = t[i - 1]
      BY <1>4, <1>5, <2>2
    <3> QED BY <1>5, <3>1, <3>2 DEF Lacks
  <2> QED BY <2>1, <2>2
<1> QED BY <1>2, <1>3, <1>5, <1>6 DEF Lacks

\* A publication that is not a rebuild has no vectors set aside.
LEMMA LacksPublishing ==
  ASSUME NEW k \in Seq(StepName), Lacks(k), Publishing(k)
  PROVE  Lacks(run.todo)
<1>1. Lacks(ToInverted(k)) /\ ToInverted(k) \in Seq(StepName)
  BY LacksCons DEF ToInverted, StepName
<1>2. Lacks(ToMeta(k)) /\ ToMeta(k) \in Seq(StepName)
  BY <1>1, LacksCons DEF ToMeta, StepName
<1>3. Lacks(ToVec(k))
  BY <1>2, LacksCons DEF ToVec, StepName
<1> QED BY <1>1, <1>2, <1>3 DEF Publishing

\* So has none of the lists that follow one.
LEMMA LacksFacts ==
  /\ Lacks(<<>>) /\ Lacks(ToWipe)
  /\ \A m \in Endings : Lacks(ToHashes(m))
<1>1. Lacks(<<>>) /\ <<>> \in Seq(StepName)
  BY Literals DEF Lacks
<1>2. Lacks(<<"catalog">>) /\ <<"catalog">> \in Seq(StepName)
  BY <1>1, Literals, LacksCons DEF StepName
<1>3. Lacks(<<"embed", "catalog">>) /\ <<"embed", "catalog">> \in Seq(StepName)
  BY <1>2, Literals, LacksCons DEF StepName
<1>4. Lacks(Indexing) /\ Indexing \in Seq(StepName)
  BY <1>3, Literals, LacksCons DEF StepName
<1>5. Lacks(ToClearDb) /\ ToClearDb \in Seq(StepName)
  BY <1>4, LacksCons DEF ToClearDb, StepName
<1>6. Lacks(ToWipe)
  BY <1>5, LacksCons DEF ToWipe, StepName
<1>7. Lacks(<<"metadata">>) /\ <<"metadata">> \in Seq(StepName)
  BY <1>1, Literals, LacksCons DEF StepName
<1>8. ASSUME NEW m \in Endings PROVE Lacks(ToHashes(m))
  <2>1. Lacks(m) /\ m \in Seq(StepName)
    BY <1>1, <1>7 DEF Endings
  <2>2. Lacks(ToCommit(m)) /\ ToCommit(m) \in Seq(StepName)
    BY <2>1, LacksCons DEF ToCommit, StepName
  <2>3. Lacks(ToFailed(m)) /\ ToFailed(m) \in Seq(StepName)
    BY <2>2, LacksCons DEF ToFailed, StepName
  <2> QED BY <2>3, LacksCons DEF ToHashes, StepName
<1> QED BY <1>1, <1>6, <1>8

\* Only a rebuild throws, and it puts back a whole index.
LEMMA InvThrow ==
  ASSUME IInv, Throw
  PROVE  IInv'
<1>1. /\ Typed /\ Handles /\ run # None
  BY DEF IInv, Throw
<1>2. /\ run \in Mutation /\ run.todo \in Seq(StepName) /\ run.branch \in Branch
      /\ Calm(world)
  BY <1>1, RunFacts
<1>3. Typed'
  BY <1>1, <1>2, TypedThrow
<1>4. /\ run' = None /\ holder' = None /\ crashed' = crashed
      /\ UNCHANGED <<world, repo, inverted, hashes, failed, db, memory>>
  BY DEF Throw, GiveUp
<1>5. Tracked' = Tracked /\ strayed' = strayed /\ world' = world /\ db' = db /\ hashes' = hashes
      /\ failed' = failed /\ inverted' = inverted
  BY <1>4 DEF Tracked, TrackedIn, repo
<1>6. Handles'
  BY <1>1, <1>4, <1>5 DEF Handles, memory
<1>7. ASSUME NEW step \in world.faults, At(step) PROVE FALSE
  <2>1. step = "rebuild"
    BY <1>2 DEF Calm
  <2>2. Head(run.todo) = "rebuild" /\ run.todo # <<>>
    BY <1>7, <2>1 DEF At
  <2>3. Head(run.todo) \in StepName
    BY <1>2, <2>2, HeadTailProperties
  <2> QED BY <2>2, <2>3 DEF StepName
<1>8. /\ ~Lacks(run.todo) /\ "rebuild" \in world.faults
      /\ At("setAside") \/ At("putVec") \/ At("putMeta")
      /\ pub' = IF At("setAside") THEN pub
                ELSE [NoPublication EXCEPT !.vec = pub.bakVec, !.meta = pub.bakMeta]
  BY <1>7 DEF Throw, Lacks
<1>9. PICK s \in {"setAside", "putVec", "putMeta"} : At(s)
  BY <1>8
<1>10. \E m \in Endings : Restoring(ToVec(ToHashes(m)))
  <2>1. s \in ArtifactStep
    BY DEF ArtifactStep
  <2>2. CASE \E m \in Endings :
                \/ Restoring(ToVec(ToHashes(m)))
                \/ Publishing(ToHashes(m)) /\ run.todo # ToHashes(m)
    BY <1>8, <2>2, EndingFacts, EndPlaces, LacksFacts, LacksPublishing
  <2>3. CASE \E r \in Rests(run.op) : HealthPhase(r)
    BY <1>8, <2>3 DEF HealthPhase
  <2>4. CASE Publishing(ToWipe)
    BY <1>8, <2>4, ForcePlaces, LacksFacts, LacksPublishing
  <2>5. CASE Publishing(<<>>)
    BY <1>8, <2>5, Literals, LacksFacts, LacksPublishing
  <2> QED BY <1>9, <2>1, <2>2, <2>3, <2>4, <2>5, AtArtifact
<1>11. PICK m \in Endings : Restoring(ToVec(ToHashes(m)))
  BY <1>10
<1>12. db # None
  BY <1>9, AtArtifact DEF ArtifactStep
<1>13. ASSUME NEW vec, NEW meta, Restorable(vec, meta), pub'.vec = vec, pub'.meta = meta
       PROVE  Resting'
  <2> DEFINE keys == IF vec = None THEN {} ELSE vec.keys
  <2>1. Paired(vec, meta, inverted) /\ Whole(world, Tracked, strayed, run.branch, db, keys, hashes, failed, File)
    BY <1>8, <1>13 DEF Restorable, WholeNow
  <2>2. Keys(pub)' = keys
    BY <1>13 DEF Keys
  <2>3. Paired(pub.vec, pub.meta, inverted)'
    BY <1>5, <1>13, <2>1 DEF Paired, Words
  <2> HIDE DEF keys
  <2>4. \E own \in Branch :
          Whole(world, Tracked, strayed, own, db, keys, hashes, failed, File)
    BY <1>2, <2>1
  <2> QED BY <1>5, <1>12, <2>2, <2>3, <2>4 DEF Resting
<1>14. Resting'
  <2> DEFINE k == ToVec(ToHashes(m))
  <2>1. k \in Seq(StepName)
    BY EndingFacts, EndPlaces, Places
  <2> HIDE DEF k
  <2>2. Restoring(k)
    BY <1>11 DEF k
  <2>3. CASE At("setAside")
    <3>1. Restorable(pub.vec, pub.meta)
      BY <2>1, <2>2, <2>3, RestoringHeads DEF At
    <3> QED BY <1>8, <1>13, <2>3, <3>1
  <2>4. CASE ~At("setAside")
    <3>1. Restorable(pub.bakVec, pub.bakMeta)
      BY <1>8, <2>1, <2>2, <2>4, RestoringHeads DEF At
    <3>2. pub'.vec = pub.bakVec /\ pub'.meta = pub.bakMeta
      BY <1>8, <2>4 DEF NoPublication
    <3> QED BY <1>13, <3>1, <3>2
  <2> QED BY <2>3, <2>4
<1> QED BY <1>3, <1>4, <1>6, <1>14 DEF IInv, Progress

-----------------------------------------------------------------------------
(* What others do while a run goes on.                                     *)

\* The run, the artifacts and the tree it relies on are as they were.
Aside ==
  /\ UNCHANGED <<world, files, crashed, run>>
  /\ Tracked' = Tracked /\ strayed' = strayed
  /\ run # None => /\ inv'[run.by] = inv[run.by]
                   /\ Looked' = Looked \/ Looked = File \/ "health" \in world.ops
                   /\ At("embed") => UNCHANGED repo

\* A run goes on.
LEMMA AsideRun ==
  ASSUME Typed, Handles, run # None, InRun, Aside
  PROVE  InRun'
<1>1. /\ world' = world /\ run' = run /\ pub' = pub /\ inverted' = inverted
      /\ hashes' = hashes /\ failed' = failed /\ db' = db /\ Tracked' = Tracked
      /\ strayed' = strayed
      /\ inv'[run.by] = inv[run.by]
      /\ Looked' = Looked \/ Looked = File \/ "health" \in world.ops
  BY DEF Aside, files
<1>2. Tracked \subseteq Branch /\ hashes \in [Namespace -> Tree]
  BY RunFacts DEF Typed
<1>3. ASSUME NEW d, NEW keys,
             Whole(world, Tracked, strayed, run.branch, d, keys, hashes, failed, Looked)
      PROVE  Whole(world, Tracked, strayed, run.branch, d, keys, hashes, failed, Looked')
  <2>1. CASE Looked' = Looked
    BY <1>3, <2>1
  <2>2. CASE Looked = File \/ "health" \in world.ops
    <3> DEFINE w == world
               T == Tracked
               S == strayed
               own == run.branch
               present == Looked
               later == Looked'
    <3>1. /\ T \subseteq Branch /\ Whole(w, T, S, own, d, keys, hashes, failed, present)
          /\ present = File \/ "health" \in w.ops
      BY <1>2, <1>3, <2>2
    <3> HIDE DEF w, T, S, own, present, later
    <3>2. Whole(w, T, S, own, d, keys, hashes, failed, later)
      BY <1>2, <3>1, WholeWeaker
    <3> QED BY <3>2 DEF w, T, S, own, later
  <2> QED BY <1>1, <2>1, <2>2
<1>4. WholeNow(db, run.mem, hashes, failed, Looked) =>
        WholeNow(db, run.mem, hashes, failed, Looked)'
  <2>1. WholeNow(db, run.mem, hashes, failed, Looked)'
          = Whole(world, Tracked, strayed, run.branch, db, run.mem, hashes, failed, Looked')
    BY <1>1 DEF WholeNow
  <2> QED BY <1>3, <2>1 DEF WholeNow
<1>5. WholeNow(db, Keys(pub), hashes, failed, Looked) =>
        WholeNow(db, Keys(pub), hashes, failed, Looked)'
  <2>1. WholeNow(db, Keys(pub), hashes, failed, Looked)'
          = Whole(world, Tracked, strayed, run.branch, db, Keys(pub), hashes, failed, Looked')
    BY <1>1 DEF WholeNow, Keys
  <2> QED BY <1>3, <2>1 DEF WholeNow
<1>6. /\ Shown' = Shown /\ Held' = Held /\ Keys(pub)' = Keys(pub)
      /\ Paired(pub.vec, pub.meta, inverted)' = Paired(pub.vec, pub.meta, inverted)
      /\ NewHashes' = NewHashes /\ NewFailed' = NewFailed
      /\ Finished(run.tx)' = Finished(run.tx) /\ Finished(db)' = Finished(db)
      /\ Chosen' = Chosen
  BY <1>1 DEF Shown, Paired, Words, Keys, Held, NewHashes, NewFailed, FailedBranch, Finished,
             Key, Chosen
<1>7. Settled => Settled'
  BY <1>1, <1>4, <1>6 DEF Settled
<1>8. /\ WholeNow(db, run.mem, hashes, failed, File)'
           = WholeNow(db, run.mem, hashes, failed, File)
      /\ WholeNow(db, run.mem, hashes, NewFailed, File)'
           = WholeNow(db, run.mem, hashes, NewFailed, File)
      /\ WholeNow(Finished(db), run.mem, hashes, failed, File)'
           = WholeNow(Finished(db), run.mem, hashes, failed, File)
      /\ WholeNow(Finished(run.tx), run.mem, NewHashes, NewFailed, File)'
           = WholeNow(Finished(run.tx), run.mem, NewHashes, NewFailed, File)
  BY <1>1, <1>6 DEF WholeNow
<1>9. ASSUME NEW k PROVE /\ Publishing(k) => Publishing(k)'
                         /\ Restoring(k) => Restoring(k)'
  <2>1. Restorable(pub.vec, pub.meta)' = Restorable(pub.vec, pub.meta)
    BY <1>1 DEF Restorable, Paired, Words, WholeNow
  <2>2. Restorable(pub.bakVec, pub.bakMeta)' = Restorable(pub.bakVec, pub.bakMeta)
    BY <1>1 DEF Restorable, Paired, Words, WholeNow
  <2> QED BY <1>1, <1>6, <2>1, <2>2 DEF Publishing, Restoring
<1>21. Together' = Together
  BY <1>1 DEF Together
<1>10. ReadyPhase => ReadyPhase'
  BY <1>1, <1>7, <1>21 DEF ReadyPhase
<1>11. ScannedPhase => ScannedPhase'
  <2> SUFFICES ASSUME ScannedPhase PROVE ScannedPhase'
    OBVIOUS
  <2>1. At("embed")
    BY LiteralPlaces DEF ScannedPhase, At
  <2>2. tree' = tree
    BY <2>1 DEF Aside, repo, tree
  <2>3. Changed(db)' = Changed(db)
    BY <1>1, <2>2 DEF Changed, Key
  <2>4. Present(tree)' = Present(tree)
    BY <2>2 DEF Present
  <2> QED BY <1>1, <1>7, <2>2, <2>3, <2>4 DEF ScannedPhase
<1>12. EmbeddedPhase => EmbeddedPhase'
  BY <1>1, <1>5, <1>6 DEF EmbeddedPhase
<1>13. ASSUME NEW m \in Endings PROVE PublishPhase(m) => PublishPhase(m)'
  <2>1. Target(m) => Target(m)'
    BY <1>1, <1>6, <1>8 DEF Target
  <2> QED BY <1>1, <1>6, <1>9, <2>1 DEF PublishPhase
<1>14. Accomplished' = Accomplished
  BY <1>1 DEF Accomplished
<1>15. MetadataPhase => MetadataPhase'
  BY <1>1, <1>6, <1>8, <1>14 DEF MetadataPhase
<1>16. EndPhase => EndPhase'
  BY <1>1, <1>6, <1>8, <1>14 DEF EndPhase
<1>17. ASSUME NEW r \in Rests(run.op) PROVE HealthPhase(r) => HealthPhase(r)'
  BY <1>1, <1>4, <1>6, <1>9, <1>21 DEF HealthPhase
<1>18. ForcePhase => ForcePhase'
  BY <1>1, <1>6, <1>9, <1>21 DEF ForcePhase
<1>19. RetryPhase => RetryPhase'
  BY <1>1, <1>6, <1>8, <1>9 DEF RetryPhase
<1>20. Rests(run.op)' = Rests(run.op)
  BY <1>1
<1> QED BY <1>10, <1>11, <1>12, <1>13, <1>15, <1>16, <1>17, <1>18, <1>19, <1>20 DEF InRun

\* And what rests between two runs still does.
LEMMA AsideProgress ==
  ASSUME Typed, Handles, Progress, Aside
  PROVE  Progress'
<1>1. /\ world' = world /\ run' = run /\ pub' = pub /\ inverted' = inverted
      /\ hashes' = hashes /\ failed' = failed /\ db' = db /\ Tracked' = Tracked
      /\ crashed' = crashed /\ strayed' = strayed
  BY DEF Aside, files
<1>2. Resting' = Resting
  BY <1>1 DEF Resting, Blank, Paired, Words, Keys
<1>3. run # None /\ InRun => InRun'
  BY AsideRun
<1> QED BY <1>1, <1>2, <1>3 DEF Progress

\* A process that reads opens the index anew.
LEMMA InvRefresh ==
  ASSUME IInv, NEW p \in Proc, Refresh(p)
  PROVE  IInv'
<1>1. /\ Typed /\ Handles /\ Progress
  BY DEF IInv
<1>2. /\ holder # p /\ UNCHANGED <<world, repo, files, lease, run>>
      /\ mode' = [mode EXCEPT ![p] = "none"] /\ inv' = [inv EXCEPT ![p] = {}]
      /\ gone' = [gone EXCEPT ![p] = None]
  BY DEF Refresh
<1>3. Typed'
  BY <1>1, TypedRefresh
<1>4. run # None => run.by \in Proc /\ run.by # p /\ holder = run.by
  BY <1>1, <1>2, RunFacts
<1>5. Tracked' = Tracked /\ Looked' = Looked /\ strayed' = strayed /\ branch' = branch
  BY <1>2 DEF Tracked, TrackedIn, Looked, tree, repo
<1>6. Aside
  BY <1>1, <1>2, <1>4, <1>5 DEF Aside, Typed, lease
<1>7. /\ \A q \in Proc : mode'[q] = "writer" => mode[q] = "writer"
      /\ \A q \in Proc : gone'[q] # None => gone[q] # None
      /\ run # None => gone'[run.by] = gone[run.by]
  BY <1>1, <1>2, <1>4 DEF Typed
<1>8. Handles'
  <2>1. run # None => Placed'
    BY <1>1, <1>2, <1>5 DEF Handles, Placed, Together, Moved
  <2> QED BY <1>1, <1>2, <1>7, <2>1 DEF Handles, files, lease
<1> QED BY <1>1, <1>3, <1>6, <1>8, AsideProgress DEF IInv

\* The user edits files, checks out branches and merges them.
LEMMA InvUser ==
  ASSUME IInv, Edit \/ Checkout \/ Merge
  PROVE  IInv'
<1>1. /\ Typed /\ Handles /\ Progress
  BY DEF IInv
<1>2. /\ UNCHANGED <<world, files, memory, lease, run>> /\ Quiet
      /\ branch' = branch \/ world.checkouts
      /\ strayed' = strayed
  BY DEF Edit, Checkout, Merge
<1>3. Typed'
  BY <1>1, TypedUser
<1>4. Tracked' = Tracked
  BY <1>2 DEF Tracked, TrackedIn
<1>5. ASSUME run # None
      PROVE  /\ ~At("embed") /\ (Looked = File \/ "health" \in world.ops)
             /\ world.races # {}
  <2>1. Calm(world)
    BY <1>1 DEF Typed
  <2>2. (IF At("embed") THEN "reading" ELSE "running") \in world.races
    BY <1>2, <1>5 DEF Quiet
  <2>3. ~At("embed") /\ world.races # {}
    BY <2>1, <2>2 DEF Calm
  <2> QED BY <2>1, <2>3 DEF Calm, Looked
<1>6. Aside
  BY <1>2, <1>4, <1>5 DEF Aside, memory, lease
<1>7. Handles'
  <2>1. run # None => Placed'
    BY <1>1, <1>2, <1>4, <1>5 DEF Handles, Placed, Together, Moved
  <2> QED BY <1>1, <1>2, <2>1 DEF Handles, files, memory, lease
<1> QED BY <1>1, <1>3, <1>6, <1>7, AsideProgress DEF IInv

\* What a query that notices a checkout makes of the run.
LEMMA NoticeFields ==
  ASSUME Typed, Handles, Notice
  PROVE  /\ run # None /\ run' \in Mutation /\ run'.todo = run.todo
         /\ run'.by = run.by /\ run'.op = run.op /\ run'.now = branch
         /\ run'.mem = run.mem /\ run'.seen = run.seen /\ run'.changed = run.changed
         /\ run'.previous = run.previous /\ run'.existing = run.existing
         /\ run'.current = run.current /\ run'.lost = run.lost
         /\ run'.records = run.records /\ run'.embeds = run.embeds
         /\ run'.drop = run.drop /\ run'.compatible = run.compatible /\ run'.tx = run.tx
         /\ \/ /\ At("scan") \/ At("embed") \/ At("catalog")
                  \/ (At("retry") /\ failed[Key(run.file)] # {})
               /\ run'.branch = run.branch /\ run'.file = run.file
               /\ strayed' = strayed \cup {run.branch, branch}
            \/ /\ \/ At("open") \/ At("clear") \/ At("wipe") \/ At("clearDb")
                  \/ At("health") \/ At("scan") \/ At("retry")
               /\ run.branch = run.now /\ run.file = run.now
               /\ run'.branch = branch /\ run'.file = branch
               /\ strayed' = strayed
<1>1. run # None /\ run \in Mutation /\ branch \in Branch
  BY DEF Notice, Typed
<1>2. CASE /\ At("scan") \/ At("embed") \/ At("catalog")
              \/ (At("retry") /\ failed[Key(run.file)] # {})
           /\ run' = [run EXCEPT !.now = branch]
           /\ strayed' = strayed \cup {run.branch, branch}
  BY <1>1, <1>2 DEF Mutation
<1>3. CASE /\ \/ At("open") \/ At("clear") \/ At("wipe") \/ At("clearDb")
              \/ At("health") \/ At("scan") \/ At("retry")
           /\ run.branch = run.now /\ run.file = run.now
           /\ run' = [run EXCEPT !.now = branch, !.branch = branch, !.file = branch]
           /\ strayed' = strayed
  BY <1>1, <1>3 DEF Mutation
<1>4. PICK fixed \in BOOLEAN :
       /\ IF fixed THEN \/ At("scan") \/ At("embed") \/ At("catalog")
                        \/ (At("retry") /\ failed[Key(run.file)] # {})
          ELSE /\ \/ At("open") \/ At("clear") \/ At("wipe") \/ At("clearDb") \/ At("health")
                  \/ At("scan") \/ At("retry")
               /\ run.branch = run.now /\ run.file = run.now
       /\ run' = IF fixed THEN [run EXCEPT !.now = branch]
                 ELSE [run EXCEPT !.now = branch, !.branch = branch, !.file = branch]
       /\ strayed' = IF fixed THEN strayed \cup {run.branch, branch} ELSE strayed
  BY DEF Notice
<1> QED BY <1>2, <1>3, <1>4

\* A query of the Indexer moves its run to the branch that was checked out: whole, or from
\* the branch it has begun with, and then both have strayed.
LEMMA InvNotice ==
  ASSUME IInv, Notice
  PROVE  IInv'
<1>1. /\ Typed /\ Handles /\ Progress
  BY DEF IInv
<1>2. /\ run # None /\ run' \in Mutation /\ run'.todo = run.todo
      /\ run'.by = run.by /\ run'.op = run.op /\ run'.now = branch
      /\ run'.mem = run.mem /\ run'.seen = run.seen /\ run'.changed = run.changed
      /\ run'.previous = run.previous /\ run'.existing = run.existing
      /\ run'.current = run.current /\ run'.lost = run.lost
      /\ run'.records = run.records /\ run'.embeds = run.embeds
      /\ run'.drop = run.drop /\ run'.compatible = run.compatible /\ run'.tx = run.tx
      /\ \/ /\ At("scan") \/ At("embed") \/ At("catalog")
               \/ (At("retry") /\ failed[Key(run.file)] # {})
            /\ run'.branch = run.branch /\ run'.file = run.file
            /\ strayed' = strayed \cup {run.branch, branch}
         \/ /\ \/ At("open") \/ At("clear") \/ At("wipe") \/ At("clearDb")
               \/ At("health") \/ At("scan") \/ At("retry")
            /\ run.branch = run.now /\ run.file = run.now
            /\ run'.branch = branch /\ run'.file = branch
            /\ strayed' = strayed
  BY <1>1, NoticeFields
<1>3. /\ world' = world /\ refs' = refs /\ branch' = branch /\ pub' = pub /\ inverted' = inverted
      /\ hashes' = hashes /\ failed' = failed /\ db' = db /\ mode' = mode /\ inv' = inv
      /\ gone' = gone /\ holder' = holder /\ crashed' = crashed
      /\ run.now # branch
  BY DEF Notice, files, memory, lease
<1>4. /\ run.branch \in Branch /\ run.op \in Ops /\ Tracked \subseteq Branch /\ Calm(world)
      /\ Placed /\ branch \in Branch /\ hashes \in [Namespace -> Tree]
      /\ run.file \in Branch /\ Key(run.file) \in Namespace
  BY <1>1, <1>2, RunFacts DEF Handles, Typed
<1>5. Typed'
  <2>1. strayed' \subseteq Branch
    BY <1>1, <1>2, <1>4 DEF Typed
  <2> QED BY <1>1, <1>2, <1>3, <2>1 DEF Typed
<1>6. Tracked' = Tracked /\ branch \in Tracked /\ Looked' = Looked /\ tree' = tree
  BY <1>3, <1>4 DEF Tracked, TrackedIn, Looked, tree
<1>7. Together \/ Moved
  BY <1>4 DEF Placed
<1>8. run' # None
  BY <1>2, NoneAssumption
<1>9. Handles'
  <2>1. Placed'
    BY <1>2, <1>3, <1>4, <1>6, <1>7 DEF Placed, Together, Moved
  <2> QED BY <1>1, <1>2, <1>3, <1>8, <2>1 DEF Handles
<1>10. ~world.fails /\ (Looked = File \/ "health" \in world.ops)
  <2>1. world.races # {}
    BY <1>3, <1>4 DEF Placed
  <2>2. world.checkouts
    BY <1>3, <1>4, <1>6 DEF Placed, Tracked, TrackedIn
  <2> QED BY <1>4, <2>1, <2>2 DEF Calm, Looked
<1>11. Shown' = Shown /\ Held' = Held /\ Keys(pub)' = Keys(pub)
  BY <1>2, <1>3 DEF Shown, Paired, Words, Keys, Held
<1>12. ASSUME NEW keys, WholeNow(db, keys, hashes, failed, Looked),
              run'.branch = run.branch, strayed' = strayed \cup {run.branch, branch}
       PROVE  Whole(world, Tracked, strayed', run.branch, db, keys, hashes, failed, Looked)
  <2> DEFINE w == world
             T == Tracked
             S == strayed
             R == strayed'
             own == run.branch
             present == Looked
  <2>1. S \subseteq R /\ Whole(w, T, S, own, db, keys, hashes, failed, present)
    BY <1>12 DEF WholeNow
  <2> HIDE DEF w, T, S, R, own, present
  <2>2. Whole(w, T, R, own, db, keys, hashes, failed, present)
    BY <2>1, WholeMoved
  <2> QED BY <2>2 DEF w, T, R, own, present
<1>13. ASSUME NEW keys, WholeNow(db, keys, hashes, failed, Looked)
       PROVE  Whole(world, Tracked, strayed, branch, db, keys, hashes, failed, Looked)
  <2> DEFINE w == world
             T == Tracked
             S == strayed
             own == run.branch
             other == branch
             present == Looked
  <2>1. /\ T \subseteq Branch /\ Whole(w, T, S, own, db, keys, hashes, failed, present)
        /\ present = File \/ "health" \in w.ops
    BY <1>4, <1>10, <1>13 DEF WholeNow
  <2> HIDE DEF w, T, S, own, other, present
  <2>2. Whole(w, T, S, other, db, keys, hashes, failed, present)
    BY <1>4, <2>1, WholeWeaker
  <2> QED BY <2>2 DEF w, T, S, other, present
<1>14. Settled => Settled'
  <2> SUFFICES ASSUME Settled PROVE Settled'
    OBVIOUS
  <2>1. WholeNow(db, run.mem, hashes, failed, Looked)
    BY DEF Settled
  <2>2. WholeNow(db, run.mem, hashes, failed, Looked)'
          = Whole(world, Tracked, strayed', run'.branch, db, run.mem, hashes, failed, Looked)
    BY <1>2, <1>3, <1>6 DEF WholeNow
  <2>3. CASE run'.branch = run.branch /\ strayed' = strayed \cup {run.branch, branch}
    BY <1>2, <1>11, <1>12, <2>1, <2>2, <2>3 DEF Settled
  <2>4. CASE run'.branch = branch /\ strayed' = strayed
    BY <1>2, <1>11, <1>13, <2>1, <2>2, <2>4 DEF Settled
  <2> QED BY <1>2, <2>3, <2>4
<1>15. CASE /\ At("scan") \/ At("embed") \/ At("catalog")
                \/ (At("retry") /\ failed[Key(run.file)] # {})
            /\ run'.branch = run.branch /\ run'.file = run.file
            /\ strayed' = strayed \cup {run.branch, branch}
  <2>1. failed[Key(run.file)] = {}
    BY <1>1, <1>4, <1>10 DEF Handles
  <2>2. CASE At("scan")
    <3>1. Settled /\ run.todo = Indexing /\ db # None
      BY <2>2, AtPlan
    <3>2. ReadyPhase'
      BY <1>2, <1>14, <3>1 DEF ReadyPhase
    <3> QED BY <1>3, <1>5, <1>8, <1>9, <3>1, <3>2 DEF IInv, Progress, InRun
  <2>3. CASE At("embed")
    <3>1. ScannedPhase /\ db # None
      BY <2>3, AtIndexing
    <3>2. Present(tree)' = Present(tree) /\ run'.branch \in strayed'
      BY <1>6, <1>15 DEF Present
    <3>3. ScannedPhase'
      BY <1>2, <1>3, <1>6, <1>14, <1>15, <3>1, <3>2 DEF ScannedPhase
    <3> QED BY <1>3, <1>5, <1>8, <1>9, <3>1, <3>3 DEF IInv, Progress, InRun
  <2>4. CASE At("catalog")
    <3>1. EmbeddedPhase /\ db # None
      BY <2>4, AtIndexing
    <3>2. WholeNow(db, Keys(pub), hashes, failed, Looked)'
            = Whole(world, Tracked, strayed', run.branch, db, Keys(pub), hashes, failed, Looked)
      BY <1>3, <1>6, <1>11, <1>15 DEF WholeNow
    <3>3. WholeNow(db, Keys(pub), hashes, failed, Looked)'
      BY <1>12, <1>15, <3>1, <3>2 DEF EmbeddedPhase
    <3>4. Chosen' = Chosen /\ run'.branch \in strayed'
          /\ Paired(pub.vec, pub.meta, inverted)' = Paired(pub.vec, pub.meta, inverted)
      BY <1>2, <1>3, <1>15 DEF Chosen, Paired, Words
    <3>5. EmbeddedPhase'
      BY <1>2, <1>3, <1>11, <1>15, <3>1, <3>3, <3>4 DEF EmbeddedPhase
    <3> QED BY <1>3, <1>5, <1>8, <1>9, <3>1, <3>5 DEF IInv, Progress, InRun
  <2> QED BY <1>15, <2>1, <2>2, <2>3, <2>4
<1>16. CASE /\ \/ At("open") \/ At("clear") \/ At("wipe") \/ At("clearDb")
               \/ At("health") \/ At("scan") \/ At("retry")
            /\ run'.branch = branch /\ run'.file = branch /\ strayed' = strayed
  <2>0. Together'
    BY <1>2, <1>16 DEF Together
  <2>1. CASE At("open")
    <3>1. run.todo = <<"open">> /\ Resting
      BY <2>1, AtIndexing
    <3>2. Resting'
      BY <1>3, <1>6, <1>11, <1>16, <3>1 DEF Resting, Blank, Paired, Words
    <3> QED BY <1>2, <1>5, <1>8, <1>9, <3>1, <3>2 DEF IInv, Progress
  <2>2. CASE At("wipe") \/ At("clearDb")
    <3>1. ForcePhase /\ db # None
      BY <2>2, AtSweep
    <3>2. Publishing(ToWipe) => Publishing(ToWipe)'
      BY <1>2, <1>3, <1>11 DEF Publishing
    <3>3. ForcePhase'
      BY <1>2, <1>3, <1>11, <2>0, <3>1, <3>2 DEF ForcePhase
    <3> QED BY <1>3, <1>5, <1>8, <1>9, <3>1, <3>3 DEF IInv, Progress, InRun
  <2>3. CASE At("clear") \/ At("health") \/ At("scan") \/ At("retry")
    <3>1. ReadyPhase /\ Settled /\ db # None
      BY <2>3, AtPlan
    <3>2. ReadyPhase'
      BY <1>2, <1>3, <1>14, <2>0, <3>1 DEF ReadyPhase
    <3> QED BY <1>3, <1>5, <1>8, <1>9, <3>1, <3>2 DEF IInv, Progress, InRun
  <2> QED BY <1>16, <2>1, <2>2, <2>3
<1> QED BY <1>2, <1>15, <1>16

-----------------------------------------------------------------------------
(* The theorems.                                                           *)

\* No run has begun, and there is no index.
LEMMA InitInv ==
  ASSUME Init, Calm(world)
  PROVE  IInv
<1>1. world \in World
  BY WorldsAssumption DEF Init
<1>2. /\ refs \in [Branch -> Tree] /\ branch \in Branch /\ strayed = {} /\ pub = NoPublication
      /\ inverted = None /\ hashes = [k \in Namespace |-> NoHashes]
      /\ failed = [k \in Namespace |-> {}] /\ db = None
      /\ mode = [p \in Proc |-> "none"] /\ inv = [p \in Proc |-> {}]
      /\ gone = [p \in Proc |-> None] /\ holder = None /\ crashed = FALSE /\ run = None
  BY DEF Init
<1>3. Typed
  BY <1>1, <1>2, NoHashesType DEF Typed, NoPublication
<1>4. Handles
  BY <1>2 DEF Handles
<1>5. Resting
  BY <1>2 DEF Resting, Blank, NoPublication
<1> QED BY <1>2, <1>3, <1>4, <1>5 DEF IInv, Progress

\* Every step keeps the invariant.
LEMMA NextInv ==
  ASSUME IInv, [Next]_vars
  PROVE  IInv'
<1>1. CASE Edit \/ Checkout \/ Merge
  BY <1>1, InvUser
<1>2. CASE \E p \in Proc, op \in Ops : Begin(p, op)
  BY <1>2, InvBegin
<1>3. CASE Open \/ Scan \/ Embed \/ Catalog
  BY <1>3, InvOpen, InvScan, InvEmbed, InvCatalog
<1>4. CASE PutHashes \/ PutFailed \/ Commit \/ Metadata \/ Finish
  BY <1>4, InvPutHashes, InvPutFailed, InvCommit, InvMetadata, InvFinish
<1>5. CASE PutVec \/ PutMeta \/ PutInverted \/ SetAside \/ DropVec \/ DropMeta
  BY <1>5, InvArtifact
<1>6. CASE Health \/ Rows \/ Gc
  BY <1>6, InvHealth, InvRows, InvGc
<1>7. CASE Clear \/ Wipe \/ ClearDb \/ Retry
  BY <1>7, InvClear, InvWipe, InvClearDb, InvRetry
<1>8. CASE Throw \/ Kill
  BY <1>8, InvThrow, InvKill
<1>9. CASE (\E p \in Proc : Refresh(p)) \/ Notice
  BY <1>9, InvRefresh, InvNotice
<1>10. CASE UNCHANGED vars
  <2>1. /\ Typed /\ Handles /\ Progress
    BY DEF IInv
  <2>2. UNCHANGED <<world, repo, files, memory, lease, run>>
    BY <1>10 DEF vars
  <2>3. Tracked' = Tracked /\ Looked' = Looked /\ strayed' = strayed /\ branch' = branch
    BY <2>2 DEF Tracked, TrackedIn, Looked, tree, repo
  <2>4. Aside
    BY <2>2, <2>3 DEF Aside, memory, lease
  <2>5. Typed'
    BY <2>1, <2>2 DEF Typed, repo, files, memory, lease
  <2>6. Handles'
    <3>1. run # None => Placed'
      BY <2>1, <2>2, <2>3 DEF Handles, Placed, Together, Moved
    <3> QED BY <2>1, <2>2, <3>1 DEF Handles, files, memory, lease
  <2> QED BY <2>1, <2>4, <2>5, <2>6, AsideProgress DEF IInv
<1> QED BY <1>1, <1>2, <1>3, <1>4, <1>5, <1>6, <1>7, <1>8, <1>9, <1>10 DEF Next, Step

\* In a calm world the six artifacts of an index say the same at every place of every run:
\* the invariant behind the theorems below.
THEOREM Invariant ==
  Spec /\ Calm(world) => []IInv
<1>1. Init /\ Calm(world) => IInv
  BY InitInv
<1>2. IInv /\ [Next]_vars => IInv'
  BY NextInv
<1> QED BY <1>1, <1>2, PTL DEF Spec

\* The artifacts agree: between two runs every chunk of every catalog has its vector, its
\* words, its row and its embedding, no vector is left without a catalog, and no run is
\* refused (ArtifactsAgree).
LEMMA InvAgree ==
  ASSUME IInv
  PROVE  ArtifactsAgree
<1>1. /\ Typed /\ Handles /\ Progress
  BY DEF IInv
<1>2. ASSUME holder = None, ~crashed, db # None
      PROVE  CatalogBacked /\ VectorsReferenced
  <2>1. run = None
    <3>1. ASSUME run # None PROVE FALSE
      <4>1. holder = run.by /\ run.by \in Proc
        BY <1>1, <3>1, RunFacts
      <4> QED BY <1>2, <4>1, NoneAssumption
    <3> QED BY <3>1
  <2>2. /\ Paired(pub.vec, pub.meta, inverted)
        /\ \E own \in Branch : Whole(world, Tracked, strayed, own, db, Keys(pub), hashes, failed, File)
    BY <1>1, <1>2, <2>1 DEF Progress, Resting, Blank
  <2>3. /\ Keys(pub) = Referenced(db.catalog) /\ Keys(pub) \subseteq db.chunks
        /\ TextsOf(Keys(pub)) \subseteq db.embeddings
    BY <2>2 DEF Whole
  <2>4. Keys(pub) \subseteq Words(inverted)
    BY <2>2 DEF Paired, Keys
  <2> QED BY <2>3, <2>4 DEF CatalogBacked, VectorsReferenced, Searchable, Words
<1>3. ASSUME At("open") PROVE Readable(Recovered(pub))
  <2>1. Resting
    BY <1>3, AtIndexing
  <2> QED BY <1>1, <2>1, OpenReads
<1>4. ASSUME At("scan") PROVE run.compatible
  BY <1>4, AtPlan DEF Settled
<1> QED BY <1>2, <1>3, <1>4 DEF ArtifactsAgree, NeverRefused

\* The six artifacts that no transaction spans agree whenever somebody relies on it, after
\* any number of runs, of kills, of failed requests, and of changes of the tree.
THEOREM Agreement ==
  Spec /\ Calm(world) => []ArtifactsAgree
<1>1. IInv => ArtifactsAgree
  BY InvAgree
<1> QED BY <1>1, Invariant, PTL

\* An index that getIndexFreshness calls current lists the chunks of the tree.
LEMMA InvCurrent ==
  ASSUME IInv
  PROVE  CurrentMeansIndexed
<1> SUFFICES ASSUME ~crashed, "health" \notin world.ops, branch \notin strayed, holder = None,
                    Fresh
             PROVE  db.catalog[branch] = ChunksOf(tree) /\ ChunksOf(tree) \subseteq Keys(pub)
  BY DEF CurrentMeansIndexed, FreshIsTrue
<1>1. /\ Typed /\ Handles /\ Progress
  BY DEF IInv
<1>2. run = None
  <2>1. ASSUME run # None PROVE FALSE
    <3>1. holder = run.by /\ run.by \in Proc
      BY <1>1, <2>1, RunFacts
    <3> QED BY <3>1, NoneAssumption
  <2> QED BY <2>1
<1>3. /\ db # None /\ failed[Key(branch)] = {} /\ hashes[Key(branch)] = tree
      /\ branch \in db.versions
  BY DEF Fresh
<1>4. PICK own \in Branch : Whole(world, Tracked, strayed, own, db, Keys(pub), hashes, failed, File)
  BY <1>1, <1>2, <1>3 DEF Progress, Resting, Blank
<1>5. /\ branch \in Branch /\ branch \in Tracked /\ Tracked \subseteq Branch
      /\ hashes \in [Namespace -> Tree] /\ Key(branch) = Place(world, branch)
  BY <1>1, KeyType DEF Typed, Tracked, TrackedIn
<1>6. Whole(world, Tracked, strayed, branch, db, Keys(pub), hashes, failed, File)
  <2> DEFINE w == world
             T == Tracked
             S == strayed
             keys == Keys(pub)
             b == branch
             all == File
  <2>1. /\ T \subseteq Branch /\ Whole(w, T, S, own, db, keys, hashes, failed, all) /\ all = File
    BY <1>4, <1>5
  <2> HIDE DEF w, T, S, keys, b, all
  <2>2. Whole(w, T, S, b, db, keys, hashes, failed, all)
    BY <1>5, <2>1, WholeWeaker
  <2> QED BY <2>2 DEF w, T, S, keys, b, all
<1>7. db.catalog[branch] \cup failed[Place(world, branch)] = ChunksOf(hashes[Place(world, branch)])
  <2> DEFINE w == world
             T == Tracked
             S == strayed
             keys == Keys(pub)
             b == branch
  <2>1. /\ b \in T \ S /\ b \in Branch /\ Whole(w, T, S, b, db, keys, hashes, failed, File)
        /\ b \in db.versions /\ "health" \notin w.ops
    BY <1>3, <1>5, <1>6
  <2> HIDE DEF w, T, S, keys, b
  <2>2. db.catalog[b] \cup failed[Place(w, b)] = ChunksOf(hashes[Place(w, b)])
    BY <1>5, <2>1, WholeAccomplished
  <2> QED BY <2>2 DEF w, b
<1>8. db.catalog[branch] = ChunksOf(tree)
  BY <1>3, <1>5, <1>7
<1>9. Keys(pub) = Referenced(db.catalog)
  BY <1>4 DEF Whole
<1> QED BY <1>5, <1>8, <1>9, ReferencedFacts

\* An index that is reported current holds the checked-out tree (getIndexFreshness takes
\* the word of the hash cache for it), if since it was last rebuilt no query has moved a run
\* from or to the branch.
THEOREM Currency ==
  Spec /\ Calm(world) => []CurrentMeansIndexed
<1>1. IInv => CurrentMeansIndexed
  BY InvCurrent
<1> QED BY <1>1, Invariant, PTL

\* A run of index_codebase that ends with no failed request leaves the branch with exactly
\* the chunks of the tree it scanned (indexUnlocked).
LEMMA InvCompleted ==
  ASSUME IInv, "health" \notin world.ops, run # None, run.branch \notin strayed
  PROVE  Completed
<1> SUFFICES ASSUME Finish, run.op \in {"index", "force"}, run.records = {}
             PROVE  Db(run.by).catalog[run.branch] = ChunksOf(run.seen)
  BY DEF Completed
<1>1. /\ Typed /\ Handles /\ run # None /\ run.todo = <<>>
  BY DEF IInv, Finish
<1>2. Accomplished
  BY <1>1, EndFacts
<1>3. Db(run.by) = db
  BY <1>1, RunFacts
<1> QED BY <1>2, <1>3 DEF Accomplished

\* What a run of index_codebase that ends without a failed request has indexed is what it
\* scanned, whatever was killed, thrown or edited before, if since the index was last rebuilt
\* no query has moved a run from or to the branch.
THEOREM Completion ==
  Spec /\ Calm(world) => UncheckedRunIndexes
<1>1. IInv => [ "health" \notin world.ops /\ run # None /\ run.branch \notin strayed => Completed ]_vars
  BY InvCompleted
<1> QED BY <1>1, Invariant, PTL DEF UncheckedRunIndexes
=============================================================================
