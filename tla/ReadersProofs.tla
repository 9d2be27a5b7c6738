---------------------------- MODULE ReadersProofs ----------------------------
(***************************************************************************)
(* What a query loads while another process publishes.                     *)
(*                                                                         *)
(* The files (FilesInv): a publication replaces them in a fixed order, so  *)
(* which of them carry its number follows from the step it is at, and only *)
(* a kill leaves them apart.  The optimistic load of the vectors           *)
(* (OptimisticInv): the hash that it reads back is that of the metadata it *)
(* began with, or the metadata is of a past publication; a pair that       *)
(* passes the check is therefore whole, whatever was renamed in between.   *)
(*                                                                         *)
(* A fingerprint names versions the files have or had (KnownInv), and a    *)
(* version that a file has lost never comes back: numbers only grow.  So a *)
(* fingerprint that is the files' again has been theirs ever since it was  *)
(* taken, and what was loaded under it is what the files hold (FreshInv,   *)
(* and LoadInv for a load under way).                                      *)
(***************************************************************************)
EXTENDS Readers, TLAPS

\* The values of the files, and the steps of a load that read them.
Version == [n : Nat, whole : BOOLEAN]
Database == [id : Nat, n : Nat]
Reading == {"vectors", "hash", "index", "check", "keyword", "database"}

\* The types.
Typed ==
  /\ disk \in [vec : Version \cup {Absent}, meta : Version \cup {Absent}, words : Nat \cup {Absent},
               db : Database \cup {Absent}]
  /\ other \in {"idle", "reset"} \cup DOMAIN After
  /\ last \in Nat /\ killed \in BOOLEAN
  /\ mode \in {"none", "reader", "writer"}
  /\ DOMAIN loaded = {"store", "words", "handle", "id", "astray"}
  /\ DOMAIN load = {"step", "mode", "previous", "current", "due", "meta", "vec"}
  /\ load.step \in {"none", "detect"} \cup Reading
  /\ load.step = "detect" => load.mode \in {"reader", "writer"}
  /\ DOMAIN mutation = {"step", "db", "id", "mine", "repairs"}
  /\ mutation.step \in {"idle", "enters", "opens", "works", "publishes"}
  /\ mutation.mine \in BOOLEAN

\* One mutation at a time: the other process's, or the tools', which knows its database.
OneWriter ==
  /\ other # "idle" => mutation.step = "idle"
  /\ mutation.step # "idle" => mutation.repairs = killed
  /\ mutation.step = "opens" <=> load.step = "detect" /\ load.mode = "writer"
  /\ mutation.step \in {"works", "publishes"} =>
       /\ mutation.mine <=> mode = "writer"
       /\ mutation.mine => mutation.id = loaded.id

\* A version of a past publication.
Below(v) == v # Absent => v.n < last

\* Where each file is at each step of a publication.
VecInv ==
  /\ other \in {"reset", "vec"} \/ mutation.step # "idle" => Below(disk.vec)
  /\ other = "bind" => disk.vec = Torn(last)
  /\ other \in {"meta", "seal", "words", "commit"} => disk.vec = Whole(last)
  /\ disk.vec # Absent => disk.vec.n <= last

MetaInv ==
  /\ other \in {"reset", "vec", "bind", "meta"} \/ mutation.step # "idle" => Below(disk.meta)
  /\ other = "seal" => disk.meta = Torn(last)
  /\ other \in {"words", "commit"} => disk.meta = Whole(last)
  /\ disk.meta # Absent => disk.meta.n <= last

WordsInv ==
  /\ other \in {"reset", "vec", "bind", "meta", "seal", "words"} \/ mutation.step # "idle" =>
       (disk.words # Absent => disk.words < last)
  /\ disk.words # Absent => disk.words <= last

DbInv ==
  /\ other = "reset" \/ mutation.step \in {"enters", "opens"} => (disk.db # Absent => disk.db.id < last)
  /\ disk.db # Absent => disk.db.id <= last
  /\ other \in DOMAIN After => disk.db \in Database /\ disk.db.id <= last

\* With nobody publishing, and nobody killed, the pair matches.
AtRest ==
  other = "idle" /\ ~killed => disk.vec = disk.meta /\ (disk.vec = Absent \/ disk.vec.whole)

FilesInv == VecInv /\ MetaInv /\ WordsInv /\ DbInv /\ AtRest

\* What a load knows of the pair between its reads.
OptimisticInv ==
  /\ load.step \in {"hash", "index", "check"} => load.meta \in Nat
  /\ load.step = "index" => disk.vec = Whole(load.meta) \/ load.meta < last
  /\ load.step = "check" =>
       load.vec = Whole(load.meta) \/ (disk.vec # Whole(load.meta) /\ load.meta < last)

\* A fingerprint's version is the file's, a past one, or the torn state of a write that is over.
KnownVersion(v, w) ==
  v = Absent \/ v = w \/ (v \in Version /\ v.n < last) \/ (v = Torn(last) /\ w = Whole(last))
Known(fp) ==
  /\ KnownVersion(fp.vectors[1], disk.vec)
  /\ KnownVersion(fp.vectors[2], disk.meta)
  /\ fp.keyword = Absent \/ fp.keyword = disk.words \/ (fp.keyword \in Nat /\ fp.keyword < last)
  /\ \/ fp.identity = Absent
     \/ disk.db # Absent /\ fp.identity = disk.db.id
     \/ fp.identity \in Nat /\ fp.identity < last

\* If a fingerprint is still the files', what is loaded is what they hold.
FreshVectors(fp) ==
  /\ fp.vectors = <<disk.vec, disk.meta>>
  /\ disk.vec # Absent /\ disk.meta # Absent /\ "vectors" \notin issues
  => loaded.store \in {Unsaved, [vec |-> disk.vec, meta |-> disk.meta]}
FreshWords(fp) ==
  fp.keyword = disk.words /\ disk.words # Absent /\ "keyword" \notin issues => loaded.words = disk.words
FreshDatabase(fp, bad) ==
  disk.db # Absent /\ fp.identity = disk.db.id /\ "database" \notin bad =>
    loaded.id = disk.db.id \/ loaded.astray

\* The fingerprints that are kept are of that kind.
KnownInv ==
  /\ noticed # Absent => Known(noticed)
  /\ written # Absent => Known(written)
  /\ load.step \in Reading => Known(load.current)

\* And fresh, for a reader and for a writer.
FreshInv ==
  /\ mode = "reader" /\ noticed # Absent => FreshVectors(noticed) /\ FreshWords(noticed) /\ FreshDatabase(noticed, issues)
  /\ mode = "writer" /\ written # Absent =>
       FreshVectors(written) /\ FreshWords(written) /\ FreshDatabase(written, {})

\* How far a load under way has come, and from which fingerprint.
LoadInv ==
  /\ load.step = "detect" => mode = "none" /\ (load.mode = "writer" => written = Absent)
  /\ load.step \in Reading =>
       \/ load.mode = "initialize" /\ mode = "none" /\ load.previous = Absent
       \/ load.mode = "refresh" /\ mode = "reader" /\ load.previous = noticed
       \/ /\ load.mode = "refresh" /\ mode = "writer" /\ mutation.step = "idle"
          /\ load.previous = written /\ written # Absent
          /\ load.current.identity = load.previous.identity
  /\ load.step \in {"keyword", "database"} => FreshVectors(load.current)
  /\ load.step = "database" => FreshWords(load.current)

\* The invariant.
ReadersInv ==
  Typed /\ OneWriter /\ FilesInv /\ OptimisticInv /\ LoadedWhole /\ KnownInv /\ FreshInv /\ LoadInv

-----------------------------------------------------------------------------
USE DEF Reading

\* What holds at the beginning.
LEMMA InitHolds == ReadersInit => ReadersInv
<1> SUFFICES ASSUME ReadersInit PROVE ReadersInv
  OBVIOUS
<1> USE DEF ReadersInit
<1>1. Typed
  BY DEF Typed, Initial, NotLoaded, NoLoad, NoMutation, Nothing
<1>2. OneWriter
  BY DEF OneWriter, Initial, NotLoaded, NoLoad, NoMutation
<1>3. FilesInv
  BY DEF FilesInv, VecInv, MetaInv, WordsInv, DbInv, AtRest, NoMutation, After, Below
<1>4. OptimisticInv /\ LoadedWhole
  BY DEF OptimisticInv, LoadedWhole, Initial, NotLoaded, NoLoad
<1>5. KnownInv /\ FreshInv /\ LoadInv
  BY DEF KnownInv, FreshInv, LoadInv, Initial, NotLoaded, NoLoad
<1> QED
  BY <1>1, <1>2, <1>3, <1>4, <1>5 DEF ReadersInv

\* The next part of a load has the load's mode and fingerprints.
LEMMA LoadMoves ==
  ASSUME DOMAIN load = {"step", "mode", "previous", "current", "due", "meta", "vec"},
         NEW step, To(step)
  PROVE  /\ DOMAIN load' = DOMAIN load
         /\ load'.step = step
         /\ load'.mode = load.mode /\ load'.previous = load.previous
         /\ load'.current = load.current
BY DEF To

\* Each step keeps the types.
LEMMA TypedStep ==
  ASSUME ReadersInv, ReadersNext
  PROVE  Typed'
<1> USE ReadersBounds DEF ReadersInv, Typed
<1>1. CASE OtherBegins
  BY <1>1 DEF OtherBegins, reader, Database, After, DbInv, Leased
<1>2. ASSUME NEW f \in File, OtherRemoves(f) PROVE Typed'
  BY <1>2 DEF OtherRemoves, reader, File, Version, Database
<1>3. CASE OtherCreates
  BY <1>3 DEF OtherCreates, reader, Database, After
<1>4. CASE OtherWrites
  <2>1. disk' \in [vec : Version \cup {Absent}, meta : Version \cup {Absent}, words : Nat \cup {Absent},
                   db : Database \cup {Absent}]
    <3>1. disk' \in {[disk EXCEPT !.vec = Torn(last)], [disk EXCEPT !.vec = Whole(last)],
                     [disk EXCEPT !.meta = Torn(last)], [disk EXCEPT !.meta = Whole(last)],
                     [disk EXCEPT !.words = last], [disk EXCEPT !.db.n = last]}
      BY <1>4 DEF OtherWrites, Written, After
    <3>2. Torn(last) \in Version /\ Whole(last) \in Version
      BY DEF Torn, Whole, Version
    <3>3. disk.db \in Database
      BY <1>4 DEF OtherWrites, FilesInv, DbInv
    <3>4. [disk.db EXCEPT !.n = last] \in Database
      BY <3>3 DEF Database
    <3> QED
      BY <3>1, <3>2, <3>4
  <2>2. other' \in {"idle", "reset"} \cup DOMAIN After
    BY <1>4 DEF OtherWrites, After
  <2> QED
    BY <2>1, <2>2, <1>4 DEF OtherWrites, reader
<1>5. CASE OtherKilled
  BY <1>5 DEF OtherKilled, reader
<1>6. CASE QueryBegins \/ QueryContinues \/ QueryAgain \/ QueryEnds
  BY <1>6 DEF QueryBegins, QueryContinues, QueryAgain, QueryEnds, writer
<1>7. CASE QueryInitializes
  BY <1>7 DEF QueryInitializes, writer, NoLoad
<1>8. CASE QueryRefreshes
  BY <1>8 DEF QueryRefreshes, writer, NoLoad
<1>9. CASE QueryReopens
  BY <1>9 DEF QueryReopens, Reset, NotLoaded, writer, NoLoad
<1>10. CASE LoadBegins
  BY <1>10 DEF LoadBegins, NotLoaded, writer, NoLoad
<1>11. CASE LoadFails
  BY <1>11 DEF LoadFails, Reset, NotLoaded, writer, NoLoad, NoMutation
<1>12. CASE LoadMetadata \/ LoadHash \/ LoadIndex
  <2>1. CASE LoadMetadata
    <3>1. \/ load' = [load EXCEPT !.step = "hash", !.meta = disk.meta.n]
          \/ To("keyword")
      BY <2>1 DEF LoadMetadata
    <3>2. DOMAIN load' = DOMAIN load /\ load'.step \in {"hash", "keyword"}
      <4>1. CASE To("keyword")
        BY <4>1, LoadMoves
      <4>2. CASE load' = [load EXCEPT !.step = "hash", !.meta = disk.meta.n]
        BY <4>2
      <4> QED
        BY <3>1, <4>1, <4>2
    <3> QED
      BY <2>1, <3>2 DEF LoadMetadata, writer
  <2>2. CASE LoadHash
    <3>1. load' = [load EXCEPT !.step = "index"] \/ To("keyword")
      BY <2>2 DEF LoadHash
    <3>2. DOMAIN load' = DOMAIN load /\ load'.step \in {"index", "keyword"}
      BY <3>1, LoadMoves
    <3> QED
      BY <2>2, <3>2 DEF LoadHash, writer
  <2>3. CASE LoadIndex
    BY <2>3 DEF LoadIndex, writer
  <2> QED
    BY <1>12, <2>1, <2>2, <2>3
<1>13. CASE LoadCheck
  BY <1>13 DEF LoadCheck, To, writer
<1>14. CASE LoadKeyword
  BY <1>14 DEF LoadKeyword, To, writer
<1>15. CASE LoadDatabase
  <2>1. DOMAIN loaded' = DOMAIN loaded /\ mode' \in {"reader", mode} /\ load' = NoLoad
    BY <1>15 DEF LoadDatabase, Opened
  <2> QED
    BY <2>1, <1>15 DEF LoadDatabase, NoLoad, writer
<1>16. CASE MutationBegins
  BY <1>16 DEF MutationBegins, NoMutation
<1>17. CASE MutationResets
  BY <1>17 DEF MutationResets, Reset, NotLoaded, NoLoad, writer
<1>18. CASE MutationOpens
  BY <1>18 DEF MutationOpens, NoLoad, Empty, Database
<1>19. CASE MutationReloads
  BY <1>19 DEF MutationReloads, writer
<1>20. CASE MutationWorks
  BY <1>20 DEF MutationWorks, writer
<1>21. CASE MutationPublishes
  BY <1>21 DEF MutationPublishes, Published, Ended, NoMutation, Version, Database, Whole, Live
<1>22. CASE MutationFails
  <2>1. disk' \in [vec : Version \cup {Absent}, meta : Version \cup {Absent}, words : Nat \cup {Absent},
                   db : Database \cup {Absent}]
    <3>1. CASE UNCHANGED disk
      BY <3>1
    <3>2. CASE disk' = [disk EXCEPT !.vec = Whole(last), !.meta = Whole(last)]
      BY <3>2 DEF Version, Whole
    <3> QED
      BY <3>1, <3>2, <1>22 DEF MutationFails
  <2>2. DOMAIN loaded' = DOMAIN loaded
    BY <1>22 DEF MutationFails
  <2> QED
    BY <2>1, <2>2, <1>22 DEF MutationFails, Ended, NoMutation
<1>23. CASE PrImpact
  BY <1>23 DEF PrImpact, Reset, NotLoaded, writer
<1>24. CASE Replaced
  BY <1>24 DEF Replaced, Reset, NotLoaded, writer
<1> QED
  BY <1>1, <1>2, <1>3, <1>4, <1>5, <1>6, <1>7, <1>8, <1>9, <1>10, <1>11, <1>12, <1>13, <1>14, <1>15, <1>16, <1>17, <1>18, <1>19, <1>20, <1>21, <1>22, <1>23, <1>24 DEF ReadersNext, OtherStep, QueryStep,
     LoadStep, MutationStep

\* The actions, one by one.
LEMMA Actions ==
  ASSUME ReadersNext
  PROVE  \/ OtherBegins \/ (\E f \in File : OtherRemoves(f)) \/ OtherCreates \/ OtherWrites
         \/ OtherKilled
         \/ QueryBegins \/ QueryInitializes \/ QueryRefreshes \/ QueryReopens \/ QueryContinues
         \/ QueryAgain \/ QueryEnds
         \/ LoadBegins \/ LoadFails \/ LoadMetadata \/ LoadHash \/ LoadIndex \/ LoadCheck
         \/ LoadKeyword \/ LoadDatabase
         \/ MutationBegins \/ MutationResets \/ MutationOpens \/ MutationReloads \/ MutationWorks
         \/ MutationPublishes \/ MutationFails \/ PrImpact \/ Replaced
BY DEF ReadersNext, OtherStep, QueryStep, LoadStep, MutationStep

\* One writer at a time; what a mutation in progress has opened is what is loaded.
LEMMA OneWriterStep ==
  ASSUME ReadersInv, ReadersNext
  PROVE  OneWriter'
<1> USE DEF ReadersInv, Typed, OneWriter
<1>1. CASE OtherBegins \/ (\E f \in File : OtherRemoves(f)) \/ OtherCreates \/ OtherWrites \/ OtherKilled
  <2>1. UNCHANGED <<mode, loaded, load, mutation>> /\ mutation.step = "idle"
    BY <1>1 DEF OtherBegins, OtherRemoves, OtherCreates, OtherWrites, OtherKilled, reader, Leased, After
  <2> QED
    BY <2>1
<1>2. CASE QueryBegins \/ QueryContinues \/ QueryAgain \/ QueryEnds
  BY <1>2 DEF QueryBegins, QueryContinues, QueryAgain, QueryEnds, writer
<1>3. CASE QueryInitializes
  BY <1>3 DEF QueryInitializes, writer, NoLoad
<1>4. CASE QueryRefreshes
  BY <1>4 DEF QueryRefreshes, writer, NoLoad
<1>5. CASE QueryReopens
  BY <1>5 DEF QueryReopens, Reset, NotLoaded, writer, NoLoad, Active
<1>6. CASE LoadBegins
  BY <1>6 DEF LoadBegins, NotLoaded, writer, NoLoad, LoadInv
<1>7. CASE LoadFails
  <2>1. /\ load.step = "detect" /\ load' = NoLoad /\ mode' = "none" /\ UNCHANGED writer
        /\ mutation' = IF load.mode = "writer" THEN NoMutation ELSE mutation
    BY <1>7 DEF LoadFails, Reset
  <2>2. mode = "none"
    BY <2>1 DEF LoadInv
  <2>3. mutation'.step \in {"works", "publishes"} => UNCHANGED mutation /\ ~mutation.mine
    BY <2>1, <2>2 DEF NoMutation
  <2> QED
    BY <2>1, <2>2, <2>3 DEF NoLoad, NoMutation, writer
<1>8. CASE LoadMetadata \/ LoadHash \/ LoadIndex \/ LoadCheck \/ LoadKeyword
  <2>1. load'.step \in Reading /\ load.step \in Reading
    <3>1. CASE LoadMetadata
      <4>1. load' = [load EXCEPT !.step = "hash", !.meta = disk.meta.n] \/ To("keyword")
        BY <3>1 DEF LoadMetadata
      <4> QED
        BY <3>1, <4>1, LoadMoves DEF LoadMetadata
    <3>2. CASE LoadHash
      BY <3>2, LoadMoves DEF LoadHash
    <3>3. CASE LoadIndex
      BY <3>3 DEF LoadIndex
    <3>4. CASE LoadCheck
      BY <3>4, LoadMoves DEF LoadCheck
    <3>5. CASE LoadKeyword
      BY <3>5, LoadMoves DEF LoadKeyword
    <3> QED
      BY <1>8, <3>1, <3>2, <3>3, <3>4, <3>5
  <2>2. UNCHANGED <<writer, mode, mutation>> /\ loaded'.id = loaded.id
    BY <1>8 DEF LoadMetadata, LoadHash, LoadIndex, LoadCheck, LoadKeyword
  <2> QED
    BY <2>1, <2>2 DEF writer
<1>9. CASE LoadDatabase
  <2>1. /\ UNCHANGED <<writer, mutation>> /\ load' = NoLoad /\ load.step = "database"
        /\ mode' = IF load.mode = "initialize" THEN "reader" ELSE mode
    BY <1>9 DEF LoadDatabase
  <2>2. mutation.step \in {"works", "publishes"} => mode # "writer" /\ mode' # "writer"
    BY <2>1 DEF LoadInv
  <2> QED
    BY <2>1, <2>2 DEF NoLoad, writer
<1>10. CASE MutationBegins
  BY <1>10 DEF MutationBegins, NoMutation, Leased
<1>11. CASE MutationResets
  BY <1>11 DEF MutationResets, Reset, NotLoaded, NoLoad, writer
<1>12. CASE MutationOpens
  BY <1>12 DEF MutationOpens, NoLoad
<1>13. CASE MutationReloads
  BY <1>13 DEF MutationReloads, writer
<1>14. CASE MutationWorks
  BY <1>14 DEF MutationWorks, writer
<1>15. CASE MutationPublishes
  BY <1>15 DEF MutationPublishes, Ended, NoMutation
<1>16. CASE MutationFails
  BY <1>16 DEF MutationFails, Ended, NoMutation
<1>17. CASE PrImpact
  <2>1. /\ UNCHANGED <<writer, load>> /\ mode' = "none" /\ load.step = "none"
        /\ mutation' = IF Active THEN [mutation EXCEPT !.mine = FALSE] ELSE mutation
    BY <1>17 DEF PrImpact, Reset
  <2>2. /\ mutation'.step = mutation.step /\ mutation'.repairs = mutation.repairs
        /\ mutation'.step # "idle" => mutation'.mine = FALSE
    BY <2>1 DEF Active
  <2> QED
    BY <2>1, <2>2 DEF writer
<1>18. CASE Replaced
  <2>1. UNCHANGED <<writer, load, mutation>> /\ mutation.step = "idle"
    BY <1>18 DEF Replaced, Active
  <2> QED
    BY <2>1 DEF writer
<1> QED
  BY Actions, <1>1, <1>2, <1>3, <1>4, <1>5, <1>6, <1>7, <1>8, <1>9, <1>10, <1>11, <1>12, <1>13,
     <1>14, <1>15, <1>16, <1>17, <1>18

\* An action that writes no file and begins no run.
LEMMA FilesKept ==
  ASSUME FilesInv, UNCHANGED writer,
         mutation.step = "idle" => mutation'.step = "idle",
         mutation'.step \in {"enters", "opens"} => mutation.step \in {"enters", "opens"}
  PROVE  FilesInv'
BY DEF FilesInv, VecInv, MetaInv, WordsInv, DbInv, AtRest, Below, writer, Torn, Whole, After, Database

\* The files grow with the runs: a run finds files of earlier runs, or none, and leaves
\* its own; at rest and without a kill the vectors are those of the metadata.
LEMMA FilesStep ==
  ASSUME ReadersInv, ReadersNext
  PROVE  FilesInv'
<1> USE ReadersBounds DEF ReadersInv, Typed, OneWriter
<1>1. CASE OtherBegins
  <2>1. last' = last + 1 /\ other' \in {"reset", "vec"} /\ UNCHANGED <<killed, mutation>>
    BY <1>1 DEF OtherBegins, reader
  <2>2. UNCHANGED <<disk.vec, disk.meta, disk.words>>
    BY <1>1 DEF OtherBegins
  <2>3. DbInv'
    <3>1. \/ disk' = disk /\ (killed \/ disk.db # Absent)
          \/ ~killed /\ disk'.db = [id |-> last', n |-> 0]
      BY <1>1 DEF OtherBegins
    <3>2. other' = "reset" <=> killed
      BY <1>1 DEF OtherBegins
    <3>3. mutation'.step = "idle"
      BY <1>1, <2>1 DEF OtherBegins, Leased
    <3> QED
      BY <2>1, <3>1, <3>2, <3>3 DEF FilesInv, DbInv, After, Database
  <2> QED
    BY <2>1, <2>2, <2>3 DEF FilesInv, VecInv, MetaInv, WordsInv, AtRest, Below, Version
<1>2. ASSUME NEW f \in File, OtherRemoves(f) PROVE FilesInv'
  <2>1. other = "reset" /\ UNCHANGED <<other, last, mutation>>
    BY <1>2 DEF OtherRemoves, reader
  <2>2. /\ disk'.vec \in {disk.vec, Absent} /\ disk'.meta \in {disk.meta, Absent}
        /\ disk'.words \in {disk.words, Absent} /\ disk'.db \in {disk.db, Absent}
    BY <1>2 DEF OtherRemoves, File
  <2> QED
    BY <2>1, <2>2 DEF FilesInv, VecInv, MetaInv, WordsInv, DbInv, AtRest, Below, After
<1>3. CASE OtherCreates
  <2>1. other = "reset" /\ other' = "vec" /\ UNCHANGED <<last, mutation>>
    BY <1>3 DEF OtherCreates, reader
  <2>2. /\ disk'.vec = Absent /\ disk'.meta = Absent /\ disk'.words = Absent
        /\ disk'.db = [id |-> last, n |-> 0]
    BY <1>3 DEF OtherCreates, File
  <2> QED
    BY <2>1, <2>2 DEF FilesInv, VecInv, MetaInv, WordsInv, DbInv, AtRest, Below, After, Database
<1>4. CASE OtherWrites
  <2>1. /\ other' = After[other] /\ disk' = Written(other) /\ UNCHANGED <<last, mutation>>
        /\ other \in DOMAIN After /\ mutation.step = "idle"
    BY <1>4 DEF OtherWrites, reader, After
  <2>2. CASE other = "vec"
    <3>1. /\ other' = "bind" /\ disk'.vec = Torn(last)
          /\ UNCHANGED <<disk.meta, disk.words, disk.db>>
      BY <2>1, <2>2 DEF After, Written
    <3> HIDE DEF Typed
    <3>2. last \in Nat /\ (disk.vec # Absent => disk.vec \in Version) /\ (disk.meta # Absent => disk.meta \in Version)
      BY DEF Typed
    <3> QED
      BY <2>1, <2>2, <3>1, <3>2 DEF FilesInv, VecInv, MetaInv, WordsInv, DbInv, AtRest, Below, After, Database, Version, Torn, Whole
  <2>3. CASE other = "bind"
    <3>1. /\ other' = "meta" /\ disk'.vec = Whole(last)
          /\ UNCHANGED <<disk.meta, disk.words, disk.db>>
      BY <2>1, <2>3 DEF After, Written
    <3> HIDE DEF Typed
    <3>2. last \in Nat /\ (disk.vec # Absent => disk.vec \in Version) /\ (disk.meta # Absent => disk.meta \in Version)
      BY DEF Typed
    <3> QED
      BY <2>1, <2>3, <3>1, <3>2 DEF FilesInv, VecInv, MetaInv, WordsInv, DbInv, AtRest, Below, After, Database, Version, Torn, Whole
  <2>4. CASE other = "meta"
    <3>1. /\ other' = "seal" /\ disk'.meta = Torn(last)
          /\ UNCHANGED <<disk.vec, disk.words, disk.db>>
      BY <2>1, <2>4 DEF After, Written
    <3> HIDE DEF Typed
    <3>2. last \in Nat /\ (disk.vec # Absent => disk.vec \in Version) /\ (disk.meta # Absent => disk.meta \in Version)
      BY DEF Typed
    <3> QED
      BY <2>1, <2>4, <3>1, <3>2 DEF FilesInv, VecInv, MetaInv, WordsInv, DbInv, AtRest, Below, After, Database, Version, Torn, Whole
  <2>5. CASE other = "seal"
    <3>1. /\ other' = "words" /\ disk'.meta = Whole(last)
          /\ UNCHANGED <<disk.vec, disk.words, disk.db>>
      BY <2>1, <2>5 DEF After, Written
    <3> HIDE DEF Typed
    <3>2. last \in Nat /\ (disk.vec # Absent => disk.vec \in Version) /\ (disk.meta # Absent => disk.meta \in Version)
      BY DEF Typed
    <3> QED
      BY <2>1, <2>5, <3>1, <3>2 DEF FilesInv, VecInv, MetaInv, WordsInv, DbInv, AtRest, Below, After, Database, Version, Torn, Whole
  <2>6. CASE other = "words"
    <3>1. /\ other' = "commit" /\ disk'.words = last
          /\ UNCHANGED <<disk.vec, disk.meta, disk.db>>
      BY <2>1, <2>6 DEF After, Written
    <3> HIDE DEF Typed
    <3>2. last \in Nat /\ (disk.vec # Absent => disk.vec \in Version) /\ (disk.meta # Absent => disk.meta \in Version)
      BY DEF Typed
    <3> QED
      BY <2>1, <2>6, <3>1, <3>2 DEF FilesInv, VecInv, MetaInv, WordsInv, DbInv, AtRest, Below, After, Database, Version, Torn, Whole
  <2>7. CASE other = "commit"
    <3>1. /\ other' = "idle" /\ disk'.db = [disk.db EXCEPT !.n = last]
          /\ UNCHANGED <<disk.vec, disk.meta, disk.words>>
      BY <2>1, <2>7 DEF After, Written
    <3> HIDE DEF Typed
    <3>2. last \in Nat /\ (disk.vec # Absent => disk.vec \in Version) /\ (disk.meta # Absent => disk.meta \in Version)
      BY DEF Typed
    <3>3. disk.db \in Database /\ disk.db.id <= last
      BY <2>1 DEF FilesInv, DbInv
    <3>4. disk'.db.id = disk.db.id
      BY <3>1, <3>3 DEF Database
    <3>5. DbInv'
      BY <2>1, <2>7, <3>1, <3>2, <3>3, <3>4 DEF FilesInv, DbInv, After, Database
    <3> QED
      BY <2>1, <2>7, <3>1, <3>2, <3>5 DEF FilesInv, VecInv, MetaInv, WordsInv, AtRest, Below, After, Torn, Whole
  <2> QED
    BY <2>1, <2>2, <2>3, <2>4, <2>5, <2>6, <2>7 DEF After
<1>5. CASE OtherKilled
  BY <1>5 DEF OtherKilled, reader, FilesInv, VecInv, MetaInv, WordsInv, DbInv, AtRest, Below, After
<1>6. CASE QueryStep
  <2>1. UNCHANGED <<writer, mutation>>
    BY <1>6 DEF QueryStep, QueryBegins, QueryInitializes, QueryRefreshes, QueryReopens,
       QueryContinues, QueryAgain, QueryEnds
  <2> QED
    BY <2>1, FilesKept
<1>7. CASE LoadStep
  <2>1. UNCHANGED writer /\ mutation' \in {mutation, NoMutation}
    BY <1>7 DEF LoadStep, LoadBegins, LoadFails, LoadMetadata, LoadHash, LoadIndex, LoadCheck,
       LoadKeyword, LoadDatabase
  <2> QED
    BY <2>1, FilesKept DEF NoMutation
<1>8. CASE MutationBegins
  <2>1. /\ last' = last + 1 /\ UNCHANGED <<disk, other, killed>> /\ other = "idle"
        /\ mutation'.step = "enters"
    BY <1>8 DEF MutationBegins, NoMutation, Leased
  <2> QED
    BY <2>1 DEF FilesInv, VecInv, MetaInv, WordsInv, DbInv, AtRest, Below, Version, Database, After
<1>9. CASE MutationResets \/ MutationReloads \/ MutationWorks
  BY <1>9, FilesKept DEF MutationResets, MutationReloads, MutationWorks, writer
<1>10. CASE MutationOpens
  <2>1. /\ UNCHANGED <<last, other, killed>> /\ mutation.step = "opens" /\ other = "idle"
        /\ mutation'.step = "works"
    BY <1>10 DEF MutationOpens
  <2>2. \/ disk' = disk
        \/ ~mutation.repairs /\ disk' = [disk EXCEPT !.db = [id |-> last, n |-> 0]]
        \/ mutation.repairs /\ disk' = Empty
    BY <1>10 DEF MutationOpens
  <2>3. CASE disk' = disk
    BY <2>1, <2>3 DEF FilesInv, VecInv, MetaInv, WordsInv, DbInv, AtRest, Below, After
  <2>4. CASE disk' = [disk EXCEPT !.db = [id |-> last, n |-> 0]]
    BY <2>1, <2>4 DEF FilesInv, VecInv, MetaInv, WordsInv, DbInv, AtRest, Below, After, Database
  <2>5. CASE disk' = Empty
    BY <2>1, <2>5 DEF FilesInv, VecInv, MetaInv, WordsInv, DbInv, AtRest, Below, After, Database, Empty
  <2> QED
    BY <2>2, <2>3, <2>4, <2>5
<1>11. CASE MutationPublishes
  <2>1. /\ UNCHANGED <<last, other>> /\ other = "idle" /\ mutation'.step = "idle"
    BY <1>11 DEF MutationPublishes, Ended, NoMutation
  <2>2. /\ disk'.vec = Whole(last) /\ disk'.meta = Whole(last) /\ disk'.words = last
        /\ disk'.db = disk.db \/ (disk.db # Absent /\ disk'.db = [disk.db EXCEPT !.n = last])
    BY <1>11 DEF MutationPublishes, Published, Live
  <2> QED
    BY <2>1, <2>2 DEF FilesInv, VecInv, MetaInv, WordsInv, DbInv, AtRest, Below, After, Database, Whole
<1>12. CASE MutationFails
  <2>1. /\ UNCHANGED <<last, other, killed>> /\ other = "idle" /\ mutation'.step = "idle"
        /\ mutation.step = "publishes"
    BY <1>12 DEF MutationFails, Ended, NoMutation
  <2>2. \/ disk' = disk
        \/ disk' = [disk EXCEPT !.vec = Whole(last), !.meta = Whole(last)]
    BY <1>12 DEF MutationFails
  <2>3. CASE disk' = disk
    BY <2>1, <2>3 DEF FilesInv, VecInv, MetaInv, WordsInv, DbInv, AtRest, Below, After
  <2>4. CASE disk' = [disk EXCEPT !.vec = Whole(last), !.meta = Whole(last)]
    <3>1. disk'.vec = Whole(last) /\ disk'.meta = Whole(last) /\ UNCHANGED <<disk.words, disk.db>>
      BY <2>4
    <3> QED
      BY <2>1, <3>1 DEF FilesInv, VecInv, MetaInv, WordsInv, DbInv, AtRest, Below, After, Whole
  <2> QED
    BY <2>2, <2>3, <2>4
<1>13. CASE PrImpact
  <2>1. UNCHANGED writer /\ mutation'.step = mutation.step
    BY <1>13 DEF PrImpact
  <2> QED
    BY <2>1, FilesKept
<1>14. CASE Replaced
  BY <1>14, FilesKept DEF Replaced
<1> QED
  BY <1>1, <1>2, <1>3, <1>4, <1>5, <1>6, <1>7, <1>8, <1>9, <1>10, <1>11, <1>12, <1>13, <1>14
     DEF ReadersNext, OtherStep, MutationStep

-----------------------------------------------------------------------------
(* How a file may change in a step.                                        *)

\* How the files move in a step: to nothing, or to what was not there before.
VersionMoves(v, w) ==
  \/ w = v
  \/ Below(v) /\ w \in {Absent, Torn(last), Whole(last)}
  \/ v = Torn(last) /\ w = Whole(last)

WordsMove(v, w) == w = v \/ ((v # Absent => v < last) /\ w \in {Absent, last})

DbMoves ==
  \/ disk'.db = disk.db
  \/ disk.db \in Database /\ disk'.db \in Database /\ disk'.db.id = disk.db.id
  \/ (disk.db # Absent => disk.db.id < last') /\ (disk'.db = Absent \/ disk'.db = [id |-> last', n |-> 0])

Moves ==
  /\ VersionMoves(disk.vec, disk'.vec) /\ VersionMoves(disk.meta, disk'.meta)
  /\ WordsMove(disk.words, disk'.words)
  /\ DbMoves
  /\ last' = last \/ (last' = last + 1 /\ UNCHANGED <<disk.vec, disk.meta, disk.words>>)

\* A file changes to what the run in progress writes, and not twice to the same.
LEMMA FilesMove ==
  ASSUME ReadersInv, ReadersNext
  PROVE  Moves
<1> USE ReadersBounds DEF ReadersInv, Typed, OneWriter, FilesInv
<1>1. CASE UNCHANGED writer
  BY <1>1 DEF writer, Moves, VersionMoves, WordsMove, DbMoves
<1>2. CASE OtherBegins
  <2>1. last' = last + 1 /\ UNCHANGED <<disk.vec, disk.meta, disk.words>>
    BY <1>2 DEF OtherBegins
  <2>2. disk' = disk \/ (disk.db = Absent /\ disk'.db = [id |-> last', n |-> 0])
    BY <1>2 DEF OtherBegins
  <2> QED
    BY <2>1, <2>2 DEF Moves, VersionMoves, WordsMove, DbMoves
<1>3. ASSUME NEW f \in File, OtherRemoves(f) PROVE Moves
  <2>1. other = "reset" /\ UNCHANGED last
    BY <1>3 DEF OtherRemoves
  <2>2. /\ disk'.vec \in {disk.vec, Absent} /\ disk'.meta \in {disk.meta, Absent}
        /\ disk'.words \in {disk.words, Absent} /\ disk'.db \in {disk.db, Absent}
    BY <1>3 DEF OtherRemoves, File
  <2> QED
    BY <2>1, <2>2 DEF Moves, VersionMoves, WordsMove, DbMoves, VecInv, MetaInv, WordsInv, DbInv, Below
<1>4. CASE OtherCreates
  <2>1. other = "reset" /\ UNCHANGED last
    BY <1>4 DEF OtherCreates
  <2>2. /\ UNCHANGED <<disk.vec, disk.meta, disk.words>> /\ disk.db = Absent
        /\ disk'.db = [id |-> last, n |-> 0]
    BY <1>4 DEF OtherCreates, File
  <2> QED
    BY <2>1, <2>2 DEF Moves, VersionMoves, WordsMove, DbMoves
<1>5. CASE OtherWrites
  <2>1. /\ disk' = Written(other) /\ UNCHANGED last /\ other \in DOMAIN After
    BY <1>5 DEF OtherWrites
  <2>2. VersionMoves(disk.vec, disk'.vec)
    BY <2>1 DEF After, Written, VersionMoves, VecInv
  <2>3. VersionMoves(disk.meta, disk'.meta)
    BY <2>1 DEF After, Written, VersionMoves, MetaInv
  <2>4. WordsMove(disk.words, disk'.words)
    BY <2>1 DEF After, Written, WordsMove, WordsInv
  <2>5. DbMoves
    <3>1. disk'.db = disk.db \/ disk'.db = [disk.db EXCEPT !.n = last]
      BY <2>1 DEF After, Written
    <3>2. disk.db \in Database
      BY <2>1 DEF DbInv
    <3> QED
      BY <3>1, <3>2 DEF DbMoves, Database
  <2> QED
    BY <2>1, <2>2, <2>3, <2>4, <2>5 DEF Moves
<1>6. CASE OtherKilled
  BY <1>6 DEF OtherKilled, Moves, VersionMoves, WordsMove, DbMoves
<1>7. CASE MutationBegins
  BY <1>7 DEF MutationBegins, Moves, VersionMoves, WordsMove, DbMoves
<1>8. CASE MutationOpens
  <2>1. UNCHANGED last /\ mutation.step = "opens"
    BY <1>8 DEF MutationOpens
  <2>2. \/ disk' = disk
        \/ disk.db = Absent /\ disk' = [disk EXCEPT !.db = [id |-> last, n |-> 0]]
        \/ disk' = Empty
    BY <1>8 DEF MutationOpens
  <2>3. CASE disk' = disk
    BY <2>1, <2>3 DEF Moves, VersionMoves, WordsMove, DbMoves
  <2>4. CASE disk.db = Absent /\ disk' = [disk EXCEPT !.db = [id |-> last, n |-> 0]]
    BY <2>1, <2>4 DEF Moves, VersionMoves, WordsMove, DbMoves
  <2>5. CASE disk' = Empty
    BY <2>1, <2>5 DEF Moves, VersionMoves, WordsMove, DbMoves, VecInv, MetaInv, WordsInv, DbInv, Below, Empty
  <2> QED
    BY <2>2, <2>3, <2>4, <2>5
<1>9. CASE MutationPublishes
  <2>1. UNCHANGED last /\ mutation.step = "publishes"
    BY <1>9 DEF MutationPublishes
  <2>2. disk'.vec = Whole(last) /\ disk'.meta = Whole(last) /\ disk'.words = last
    BY <1>9 DEF MutationPublishes, Published
  <2>3. disk'.db = disk.db \/ (disk.db # Absent /\ disk'.db = [disk.db EXCEPT !.n = last])
    BY <1>9 DEF MutationPublishes, Published, Live
  <2>4. DbMoves
    BY <2>3 DEF DbMoves, Database
  <2> QED
    BY <2>1, <2>2, <2>4 DEF Moves, VersionMoves, WordsMove, VecInv, MetaInv, WordsInv
<1>10. CASE MutationFails
  <2>1. UNCHANGED last /\ mutation.step = "publishes"
    BY <1>10 DEF MutationFails
  <2>2. disk' = disk \/ disk' = [disk EXCEPT !.vec = Whole(last), !.meta = Whole(last)]
    BY <1>10 DEF MutationFails
  <2> QED
    BY <2>1, <2>2 DEF Moves, VersionMoves, WordsMove, DbMoves, VecInv, MetaInv, WordsInv
<1>11. CASE QueryStep \/ LoadStep \/ MutationResets \/ MutationReloads \/ MutationWorks \/ PrImpact \/ Replaced
  <2>1. UNCHANGED writer
    BY <1>11 DEF QueryStep, QueryBegins, QueryInitializes, QueryRefreshes, QueryReopens,
       QueryContinues, QueryAgain, QueryEnds, LoadStep, LoadBegins, LoadFails, LoadMetadata, LoadHash,
       LoadIndex, LoadCheck, LoadKeyword, LoadDatabase, MutationResets, MutationReloads,
       MutationWorks, PrImpact, Replaced
  <2> QED
    BY <2>1, <1>1
<1> QED
  BY <1>2, <1>3, <1>4, <1>5, <1>6, <1>7, <1>8, <1>9, <1>10, <1>11 DEF ReadersNext, OtherStep, MutationStep

-----------------------------------------------------------------------------
(* What a fingerprint remembers does not come back once it is gone.         *)

\* One file: a version that was there is there, or will never be again.
LEMMA VersionSticks ==
  ASSUME NEW v, NEW w \in Version \cup {Absent}, NEW x, last \in Nat,
         KnownVersion(v, w), VersionMoves(w, x)
  PROVE  /\ KnownVersion(v, x)
         /\ x # Absent /\ v = x => x = w
<1>1. /\ Torn(last) # Whole(last) /\ Torn(last).n = last /\ Whole(last).n = last
      /\ Torn(last) \in Version /\ Whole(last) \in Version
  BY DEF Torn, Whole, Version
<1>2. Torn(last) # Absent /\ Whole(last) # Absent
  BY <1>1, ReadersBounds DEF Version
<1> HIDE DEF Torn, Whole
<1>3. CASE x = w
  BY <1>3
<1>4. CASE Below(w) /\ x \in {Absent, Torn(last), Whole(last)}
  <2>1. KnownVersion(v, x)
    BY <1>1, <1>2, <1>4 DEF KnownVersion, Below
  <2>2. ASSUME x # Absent, v = x PROVE FALSE
    BY <1>1, <1>2, <1>4, <2>2 DEF KnownVersion, Below
  <2> QED
    BY <2>1, <2>2
<1>5. CASE w = Torn(last) /\ x = Whole(last)
  BY <1>1, <1>2, <1>5 DEF KnownVersion
<1> QED
  BY <1>3, <1>4, <1>5 DEF VersionMoves

\* A later run does not make a version unknown.
LEMMA VersionAges ==
  ASSUME NEW v, NEW w, last \in Nat, last' = last + 1, KnownVersion(v, w)
  PROVE  v = Absent \/ v = w \/ (v \in Version /\ v.n < last')
<1>1. Torn(last) \in Version /\ Torn(last).n = last
  BY DEF Torn, Version
<1> QED
  BY <1>1 DEF KnownVersion, Version

\* Versions and steps.
LEMMA VersionKept ==
  ASSUME NEW v, NEW w \in Version \cup {Absent}, NEW x, last \in Nat, KnownVersion(v, w), VersionMoves(w, x),
         last' = last \/ (last' = last + 1 /\ x = w)
  PROVE  /\ v = Absent \/ v = x \/ (v \in Version /\ v.n < last') \/ (v = Torn(last') /\ x = Whole(last'))
         /\ x # Absent /\ v = x => x = w
<1>1. CASE last' = last
  BY <1>1, VersionSticks DEF KnownVersion
<1>2. CASE last' = last + 1 /\ x = w
  BY <1>2, VersionAges
<1> QED
  BY <1>1, <1>2

\* A fingerprint that was taken stays one that was taken.
LEMMA KnownKept ==
  ASSUME Typed, Moves, NEW CONSTANT fp, Known(fp)
  PROVE  Known(fp)'
<1> USE ReadersBounds DEF Typed, Moves, Known
<1>1. KnownVersion(fp.vectors[1], disk.vec)'
  BY VersionKept DEF KnownVersion
<1>2. KnownVersion(fp.vectors[2], disk.meta)'
  <2>1. /\ disk.meta \in Version \cup {Absent} /\ VersionMoves(disk.meta, disk'.meta)
        /\ last \in Nat /\ KnownVersion(fp.vectors[2], disk.meta)
        /\ last' = last \/ (last' = last + 1 /\ disk'.meta = disk.meta)
    OBVIOUS
  <2> QED
    BY ONLY <2>1, VersionKept DEF KnownVersion
<1>3. fp.keyword = Absent \/ fp.keyword = disk'.words \/ (fp.keyword \in Nat /\ fp.keyword < last')
  BY DEF WordsMove
<1>4. \/ fp.identity = Absent
      \/ disk'.db # Absent /\ fp.identity = disk'.db.id
      \/ fp.identity \in Nat /\ fp.identity < last'
  BY DEF DbMoves, Database
<1> QED
  BY <1>1, <1>2, <1>3, <1>4

\* The vectors that were there when the fingerprint was taken have not been written since.
LEMMA VectorsReturn ==
  ASSUME Typed, Moves, NEW CONSTANT fp, Known(fp),
         fp.vectors = <<disk'.vec, disk'.meta>>, disk'.vec # Absent, disk'.meta # Absent
  PROVE  disk'.vec = disk.vec /\ disk'.meta = disk.meta
<1> USE DEF Typed, Moves, Known
<1>1. disk'.vec = disk.vec
  BY VersionKept
<1>2. disk'.meta = disk.meta
  BY VersionKept
<1> QED
  BY <1>1, <1>2

\* Nor has the keyword index.
LEMMA WordsReturn ==
  ASSUME Typed, Moves, NEW CONSTANT fp, Known(fp), fp.keyword = disk'.words, disk'.words # Absent
  PROVE  disk'.words = disk.words
BY ReadersBounds DEF Typed, Moves, Known, WordsMove

\* Nor has the database been replaced.
LEMMA DatabaseReturns ==
  ASSUME Typed, Moves, NEW CONSTANT fp, Known(fp), disk'.db # Absent, fp.identity = disk'.db.id, Typed'
  PROVE  disk.db # Absent /\ disk.db.id = disk'.db.id
BY ReadersBounds DEF Typed, Moves, Known, DbMoves, Database

\* A fingerprint of now is known.
LEMMA FingerprintKnown ==
  ASSUME Typed
  PROVE  Known(Fingerprint)
BY DEF Typed, Known, KnownVersion, Fingerprint

-----------------------------------------------------------------------------
(* The optimistic read.                                                    *)

\* The actions that leave the loaded state or drop it.
LEMMA LoadedKept ==
  ASSUME ReadersNext,
         ~LoadCheck, ~LoadKeyword, ~LoadDatabase, ~MutationOpens, ~MutationReloads, ~MutationWorks,
         ~MutationPublishes, ~MutationFails
  PROVE  loaded' \in {loaded, NotLoaded}
BY Actions DEF OtherBegins, OtherRemoves, OtherCreates, OtherWrites, OtherKilled, QueryBegins,
   QueryInitializes, QueryRefreshes, QueryReopens, QueryContinues, QueryAgain, QueryEnds, LoadBegins,
   LoadFails, LoadMetadata, LoadHash, LoadIndex, MutationBegins, MutationResets, PrImpact, Replaced,
   Reset, reader

\* What is loaded is one publication, after every step.
LEMMA WholeStep ==
  ASSUME ReadersInv, ReadersNext
  PROVE  LoadedWhole'
<1> USE ReadersBounds DEF ReadersInv, Typed
<1>1. CASE loaded' \in {loaded, NotLoaded}
  BY <1>1 DEF LoadedWhole, NotLoaded
<1>2. CASE LoadCheck
  <2>1. CASE Same
    <3>1. load.vec = Whole(load.meta)
      BY <1>2, <2>1 DEF LoadCheck, Same, OptimisticInv
    <3>2. loaded'.store = [vec |-> load.vec, meta |-> Whole(load.meta)]
      BY <1>2, <2>1 DEF LoadCheck
    <3> QED
      BY <3>1, <3>2 DEF LoadedWhole, Whole
  <2>2. CASE ~Same
    BY <1>2, <2>2 DEF LoadCheck, LoadedWhole
  <2> QED
    BY <2>1, <2>2
<1>3. CASE LoadKeyword
  <2>1. loaded'.store = loaded.store
    BY <1>3 DEF LoadKeyword
  <2> QED
    BY <2>1 DEF LoadedWhole
<1>4. CASE LoadDatabase
  <2>1. loaded'.store = loaded.store
    BY <1>4 DEF LoadDatabase, Opened
  <2> QED
    BY <2>1 DEF LoadedWhole
<1>5. ASSUME loaded'.store = Stored, other = "idle", ~killed
      PROVE  LoadedWhole'
  BY <1>5 DEF Stored, LoadedWhole, FilesInv, AtRest, Nothing
<1>6. CASE MutationOpens
  <2>1. loaded'.store = IF mutation.repairs THEN Nothing ELSE Stored
    BY <1>6 DEF MutationOpens
  <2>2. other = "idle" /\ (mutation.repairs <=> killed)
    BY <1>6 DEF MutationOpens, OneWriter
  <2> QED
    BY <2>1, <2>2, <1>5 DEF LoadedWhole
<1>7. CASE MutationReloads
  <2>1. loaded'.store = Stored
    BY <1>7 DEF MutationReloads
  <2>2. other = "idle" /\ ~killed
    BY <1>7 DEF MutationReloads, OneWriter
  <2> QED
    BY <2>1, <2>2, <1>5
<1>11. ASSUME loaded'.store = loaded.store PROVE LoadedWhole'
  BY <1>11 DEF LoadedWhole
<1>12. ASSUME loaded'.store \in {Unsaved, Both(last)} PROVE LoadedWhole'
  <2>2. \A n : Both(n).vec = Both(n).meta /\ Both(n).vec.whole
    BY DEF Both, Whole
  <2>1. loaded'.store.vec = loaded'.store.meta /\ loaded'.store.vec.whole
    <3>1. loaded'.store = Both(0) \/ loaded'.store = Both(last)
      BY <1>12 DEF Unsaved
    <3> QED
      BY <2>2, <3>1
  <2> QED
    BY <2>1 DEF LoadedWhole
<1>8. CASE MutationWorks
  <2>1. loaded'.store = loaded.store \/ loaded'.store = Unsaved
    BY <1>8 DEF MutationWorks
  <2> QED
    BY <2>1, <1>11, <1>12
<1>9. CASE MutationPublishes
  <2>1. loaded'.store = loaded.store \/ loaded'.store = Both(last)
    BY <1>9 DEF MutationPublishes
  <2> QED
    BY <2>1, <1>11, <1>12
<1>10. CASE MutationFails
  <2>1. loaded'.store = loaded.store \/ loaded'.store = Both(last)
    BY <1>10 DEF MutationFails
  <2> QED
    BY <2>1, <1>11, <1>12
<1> QED
  BY LoadedKept, <1>1, <1>2, <1>3, <1>4, <1>6, <1>7, <1>8, <1>9, <1>10

\* The vectors that were hashed are there, or will never be there again.
LEMMA OptimisticKept ==
  ASSUME ReadersInv, Moves,
         load'.step \in {"hash", "index", "check"} =>
           /\ load'.step = load.step /\ load'.meta = load.meta /\ load'.vec = load.vec
  PROVE  OptimisticInv'
<1> SUFFICES ASSUME load'.step \in {"hash", "index", "check"}
             PROVE  OptimisticInv'
  BY DEF OptimisticInv
<1> USE DEF ReadersInv
<1>1. /\ load.step \in {"hash", "index", "check"} /\ load'.step = load.step
      /\ load'.meta = load.meta /\ load'.vec = load.vec
  OBVIOUS
<1>2. /\ last \in Nat /\ load.meta \in Nat
      /\ last' = last \/ (last' = last + 1 /\ disk'.vec = disk.vec)
      /\ disk'.vec = disk.vec \/ disk'.vec \in {Absent, Torn(last), Whole(last)}
      /\ VersionMoves(disk.vec, disk'.vec)
  BY <1>1 DEF OptimisticInv, Typed, Moves, VersionMoves
<1>8. /\ Whole(load.meta) # Absent /\ Whole(load.meta).n = load.meta /\ Whole(last).n = last
      /\ Whole(load.meta) # Torn(last)
  <2>1. Whole(load.meta) \in [n : Nat, whole : BOOLEAN]
    BY <1>2 DEF Whole
  <2> QED
    BY <2>1, ReadersBounds DEF Whole, Torn
<1>3. ASSUME disk.vec = Whole(load.meta), disk'.vec # disk.vec
      PROVE  load.meta < last
  <2>1. Whole(load.meta) # Absent /\ Whole(load.meta).n = load.meta /\ Whole(load.meta) # Torn(last)
    BY <1>8
  <2> QED
    BY <1>3, <1>2, <2>1 DEF VersionMoves, Below
<1>4. ASSUME disk.vec # Whole(load.meta), load.meta < last
      PROVE  disk'.vec # Whole(load.meta)
  BY <1>4, <1>2, <1>8
<1>5. load.meta < last => load.meta < last'
  BY <1>2
<1>6. load.step = "index" => disk'.vec = Whole(load.meta) \/ load.meta < last'
  BY <1>2, <1>3, <1>5 DEF OptimisticInv
<1>7. load.step = "check" =>
        load.vec = Whole(load.meta) \/ (disk'.vec # Whole(load.meta) /\ load.meta < last')
  BY <1>4, <1>5 DEF OptimisticInv
<1> QED
  BY <1>1, <1>2, <1>6, <1>7 DEF OptimisticInv

\* So after every step.
LEMMA OptimisticStep ==
  ASSUME ReadersInv, ReadersNext
  PROVE  OptimisticInv'
<1> USE DEF ReadersInv, Typed
<1>1. Moves
  BY FilesMove
<1>2. CASE load' = load
  BY <1>1, <1>2, OptimisticKept
<1>3. CASE load'.step \in {"none", "detect", "vectors", "keyword", "database"}
  BY <1>3 DEF OptimisticInv
<1>4. CASE LoadMetadata
  <2>1. \/ To("keyword")
        \/ load' = [load EXCEPT !.step = "hash", !.meta = disk.meta.n] /\ disk.meta # Absent
    BY <1>4 DEF LoadMetadata
  <2>2. disk.meta # Absent => disk.meta.n \in Nat
    BY DEF Version
  <2> QED
    BY <2>1, <2>2, <1>3, LoadMoves DEF OptimisticInv
<1>5. CASE LoadHash
  <2>1. \/ To("keyword")
        \/ /\ load' = [load EXCEPT !.step = "index"] /\ disk.vec = Whole(load.meta)
           /\ load.step = "hash" /\ UNCHANGED disk
    BY <1>5 DEF LoadHash, writer
  <2> QED
    BY <2>1, <1>3, LoadMoves DEF OptimisticInv
<1>6. CASE LoadIndex
  <2>1. /\ load' = [load EXCEPT !.step = "check", !.vec = disk.vec]
        /\ load.step = "index" /\ UNCHANGED <<disk, last>>
    BY <1>6 DEF LoadIndex, writer
  <2> QED
    BY <2>1 DEF OptimisticInv
<1>7. CASE LoadCheck \/ LoadKeyword
  BY <1>7, <1>3, LoadMoves DEF LoadCheck, LoadKeyword
<1>8. CASE \/ QueryInitializes \/ QueryRefreshes \/ QueryReopens \/ LoadBegins \/ LoadFails
           \/ LoadDatabase \/ MutationResets \/ MutationOpens
  <2>1. CASE QueryInitializes \/ QueryReopens \/ MutationResets
    BY <1>3, <2>1 DEF QueryInitializes, QueryReopens, MutationResets, NoLoad
  <2>2. CASE QueryRefreshes
    BY <1>3, <2>2 DEF QueryRefreshes, NoLoad
  <2>3. CASE LoadBegins
    BY <1>3, <2>3 DEF LoadBegins, NoLoad
  <2>4. CASE LoadFails \/ LoadDatabase \/ MutationOpens
    <3>1. load' = NoLoad
      BY <2>4 DEF LoadFails, LoadDatabase, MutationOpens
    <3>2. load'.step = "none"
      BY <3>1 DEF NoLoad
    <3> QED
      BY <1>3, <3>2
  <2> QED
    BY <1>8, <2>1, <2>2, <2>3, <2>4
<1> QED
  BY Actions, <1>2, <1>4, <1>5, <1>6, <1>7, <1>8 DEF OtherBegins, OtherRemoves, OtherCreates,
     OtherWrites, OtherKilled, reader, QueryBegins, QueryContinues, QueryAgain, QueryEnds,
     MutationBegins, MutationReloads, MutationWorks, MutationPublishes, MutationFails, PrImpact, Replaced

-----------------------------------------------------------------------------
(* The fingerprints.                                                       *)

\* What each step does with the fingerprints that are kept.
LEMMA FingerprintsMove ==
  ASSUME ReadersInv, ReadersNext, ~MutationPublishes
  PROVE  /\ noticed' \in {noticed, Absent} \/ (load.step \in Reading /\ noticed' = load.current)
         /\ written' \in {written, Absent} \/ (load.step \in Reading /\ written' = load.current)
         /\ load'.step \in Reading =>
              \/ load.step \in Reading /\ load'.current = load.current
              \/ load'.current = Fingerprint /\ UNCHANGED writer
<1> USE DEF ReadersInv, Typed
<1>1. CASE OtherBegins \/ (\E f \in File : OtherRemoves(f)) \/ OtherCreates \/ OtherWrites \/ OtherKilled
  BY <1>1 DEF OtherBegins, OtherRemoves, OtherCreates, OtherWrites, OtherKilled, reader
<1>2. CASE QueryBegins \/ QueryContinues \/ QueryAgain \/ QueryEnds
  BY <1>2 DEF QueryBegins, QueryContinues, QueryAgain, QueryEnds
<1>3. CASE QueryInitializes
  BY <1>3 DEF QueryInitializes, NoLoad
<1>4. CASE QueryRefreshes
  BY <1>4 DEF QueryRefreshes, NoLoad
<1>5. CASE QueryReopens
  BY <1>5 DEF QueryReopens, Reset, NoLoad
<1>6. CASE LoadBegins
  BY <1>6 DEF LoadBegins, NoLoad
<1>7. CASE LoadFails
  BY <1>7 DEF LoadFails, Reset, NoLoad
<1>8. CASE LoadMetadata \/ LoadHash \/ LoadIndex \/ LoadCheck \/ LoadKeyword
  <2>1. load'.current = load.current /\ load.step \in Reading
    <3>1. CASE LoadMetadata
      <4>1. load' = [load EXCEPT !.step = "hash", !.meta = disk.meta.n] \/ To("keyword")
        BY <3>1 DEF LoadMetadata
      <4> QED
        BY <3>1, <4>1, LoadMoves DEF LoadMetadata
    <3>2. CASE LoadHash
      BY <3>2, LoadMoves DEF LoadHash
    <3>3. CASE LoadIndex
      BY <3>3 DEF LoadIndex
    <3>4. CASE LoadCheck
      BY <3>4, LoadMoves DEF LoadCheck
    <3>5. CASE LoadKeyword
      BY <3>5, LoadMoves DEF LoadKeyword
    <3> QED
      BY <1>8, <3>1, <3>2, <3>3, <3>4, <3>5
  <2>2. UNCHANGED <<noticed, written>>
    BY <1>8 DEF LoadMetadata, LoadHash, LoadIndex, LoadCheck, LoadKeyword
  <2> QED
    BY <2>1, <2>2
<1>9. CASE LoadDatabase
  BY <1>9 DEF LoadDatabase, NoLoad, Keeps
<1>10. CASE MutationBegins \/ MutationReloads \/ MutationWorks \/ MutationFails
  BY <1>10 DEF MutationBegins, MutationReloads, MutationWorks, MutationFails
<1>11. CASE MutationResets
  BY <1>11 DEF MutationResets, Reset, NoLoad
<1>12. CASE MutationOpens
  BY <1>12 DEF MutationOpens, NoLoad
<1>13. CASE PrImpact \/ Replaced
  BY <1>13 DEF PrImpact, Replaced, Reset
<1> QED
  BY Actions, <1>1, <1>2, <1>3, <1>4, <1>5, <1>6, <1>7, <1>8, <1>9, <1>10, <1>11, <1>12, <1>13

\* Every fingerprint that is kept was taken.
LEMMA KnownStep ==
  ASSUME ReadersInv, ReadersNext, Typed'
  PROVE  KnownInv'
<1> USE DEF ReadersInv
<1>1. Moves
  BY FilesMove
<1>2. \A fp : Known(fp) => Known(fp)'
  BY <1>1, KnownKept
<1>3. ASSUME NEW CONSTANT fp, fp = Absent \/ Known(fp)'
      PROVE  /\ noticed' = fp => (noticed # Absent => Known(noticed))'
             /\ written' = fp => (written # Absent => Known(written))'
             /\ load'.current = fp /\ fp # Absent => Known(load.current)'
  BY <1>3 DEF Known, KnownVersion
<1>4. CASE MutationPublishes
  <2>1. UNCHANGED <<noticed, load>>
    BY <1>4 DEF MutationPublishes
  <2>2. PICK fp : fp = written'
    OBVIOUS
  <2>3. /\ fp.vectors = <<disk'.vec, disk'.meta>> /\ fp.keyword = disk'.words
        /\ fp.identity = IF disk.db = Absent THEN Absent ELSE disk.db.id
        /\ disk'.db = disk.db \/ (disk.db # Absent /\ disk'.db = [disk.db EXCEPT !.n = last])
    BY <1>4, <2>2 DEF MutationPublishes, Published, Fingerprint, Live
  <2>4. disk.db # Absent => disk'.db # Absent /\ disk'.db.id = disk.db.id
    BY <2>3, ReadersBounds DEF Typed, Database
  <2>5. Known(fp)'
    BY <2>3, <2>4 DEF Known, KnownVersion
  <2>6. (written # Absent => Known(written))'
    BY <2>2, <2>5, <1>3
  <2> QED
    BY <2>1, <2>6, <1>2 DEF KnownInv, Known, KnownVersion
<1>5. CASE ~MutationPublishes
  <2>1. (noticed # Absent => Known(noticed))'
    <3>1. PICK fp : fp = noticed'
      OBVIOUS
    <3>2. fp = Absent \/ Known(fp)
      BY <1>5, <3>1, FingerprintsMove DEF KnownInv
    <3> QED
      BY <3>1, <3>2, <1>2, <1>3
  <2>2. (written # Absent => Known(written))'
    <3>1. PICK fp : fp = written'
      OBVIOUS
    <3>2. fp = Absent \/ Known(fp)
      BY <1>5, <3>1, FingerprintsMove DEF KnownInv
    <3> QED
      BY <3>1, <3>2, <1>2, <1>3
  <2>3. ASSUME load'.step \in Reading PROVE Known(load.current)'
    <3>1. PICK fp : fp = load'.current
      OBVIOUS
    <3>2. Known(fp)
      BY <1>5, <2>3, <3>1, FingerprintsMove, FingerprintKnown DEF KnownInv
    <3> QED
      BY <3>1, <3>2, <1>2 DEF Known, KnownVersion
  <2> QED
    BY <2>1, <2>2, <2>3 DEF KnownInv
<1> QED
  BY <1>4, <1>5

-----------------------------------------------------------------------------
(* What is loaded and what the fingerprints say of it.                     *)

\* Vectors that stay loaded stay those of the fingerprint, unless the fingerprint is over.
LEMMA VectorsKept ==
  ASSUME Typed, Moves, NEW CONSTANT fp, Known(fp), FreshVectors(fp),
         loaded'.store = loaded.store, "vectors" \in issues => "vectors" \in issues'
  PROVE  FreshVectors(fp)'
BY VectorsReturn DEF FreshVectors

\* So for the keyword index.
LEMMA WordsKept ==
  ASSUME Typed, Moves, NEW CONSTANT fp, Known(fp), FreshWords(fp),
         loaded'.words = loaded.words, "keyword" \in issues => "keyword" \in issues'
  PROVE  FreshWords(fp)'
BY WordsReturn DEF FreshWords

\* So for the database, whether its issues count or not.
LEMMA DatabaseKept ==
  ASSUME Typed, Typed', Moves, NEW CONSTANT fp, Known(fp),
         loaded'.id = loaded.id, loaded'.astray = loaded.astray
  PROVE  /\ FreshDatabase(fp, {}) => FreshDatabase(fp, {})'
         /\ FreshDatabase(fp, issues) /\ ("database" \in issues => "database" \in issues')
              => FreshDatabase(fp, issues)'
BY DatabaseReturns DEF FreshDatabase

\* What a step does with each part of the loaded state, so that no fingerprint is wrong.
VectorsFollow ==
  \/ loaded'.store = loaded.store /\ ("vectors" \in issues => "vectors" \in issues')
  \/ "vectors" \in issues' \/ disk'.vec = Absent
  \/ loaded'.store \in {Unsaved, [vec |-> disk'.vec, meta |-> disk'.meta]}
WordsFollow ==
  \/ loaded'.words = loaded.words /\ ("keyword" \in issues => "keyword" \in issues')
  \/ "keyword" \in issues' \/ disk'.words = Absent
  \/ loaded'.words = disk'.words
DatabaseFollows ==
  /\ loaded'.id = loaded.id /\ loaded'.astray = loaded.astray
  /\ mode = "reader" => ("database" \in issues => "database" \in issues')

\* A step that follows these keeps a fingerprint right.
LEMMA FreshKept ==
  ASSUME ReadersInv, Typed', Moves, NEW CONSTANT fp, Known(fp), VectorsFollow, WordsFollow
  PROVE  /\ FreshVectors(fp) => FreshVectors(fp)'
         /\ FreshWords(fp) => FreshWords(fp)'
<1>1. FreshVectors(fp) => FreshVectors(fp)'
  BY VectorsKept DEF ReadersInv, VectorsFollow, FreshVectors
<1>2. FreshWords(fp) => FreshWords(fp)'
  BY WordsKept DEF ReadersInv, WordsFollow, FreshWords
<1> QED
  BY <1>1, <1>2

\* And the fingerprints that are kept.
LEMMA FreshFollows ==
  ASSUME ReadersInv, Typed', Moves, UNCHANGED <<mode, noticed, written>>,
         VectorsFollow, WordsFollow, DatabaseFollows
  PROVE  FreshInv'
<1> USE DEF ReadersInv
<1>1. ASSUME mode' = "reader", noticed' # Absent
      PROVE  (FreshVectors(noticed) /\ FreshWords(noticed) /\ FreshDatabase(noticed, issues))'
  <2>1. PICK fp : fp = noticed
    OBVIOUS
  <2>2. Known(fp) /\ FreshVectors(fp) /\ FreshWords(fp) /\ FreshDatabase(fp, issues)
    BY <1>1, <2>1 DEF KnownInv, FreshInv
  <2>3. FreshVectors(fp)' /\ FreshWords(fp)' /\ FreshDatabase(fp, issues)'
    BY <1>1, <2>2, FreshKept, DatabaseKept DEF DatabaseFollows
  <2>4. noticed' = fp
    BY <2>1
  <2> QED
    BY <2>3, <2>4 DEF FreshVectors, FreshWords, FreshDatabase
<1>2. ASSUME mode' = "writer", written' # Absent
      PROVE  (FreshVectors(written) /\ FreshWords(written) /\ FreshDatabase(written, {}))'
  <2>1. PICK fp : fp = written
    OBVIOUS
  <2>2. Known(fp) /\ FreshVectors(fp) /\ FreshWords(fp) /\ FreshDatabase(fp, {})
    BY <1>2, <2>1 DEF KnownInv, FreshInv
  <2>3. FreshVectors(fp)' /\ FreshWords(fp)' /\ FreshDatabase(fp, {})'
    BY <2>2, FreshKept, DatabaseKept DEF DatabaseFollows
  <2>4. written' = fp
    BY <2>1
  <2> QED
    BY <2>3, <2>4 DEF FreshVectors, FreshWords, FreshDatabase
<1> QED
  BY <1>1, <1>2 DEF FreshInv

\* What is loaded is what is trusted of it, after every step but the last of a load and a
\* publication.
LEMMA FreshStep ==
  ASSUME ReadersInv, ReadersNext, Typed', ~LoadDatabase, ~MutationPublishes
  PROVE  FreshInv'
<1> USE DEF ReadersInv
<1>1. Moves
  BY FilesMove
<1>2. CASE UNCHANGED <<mode, loaded, issues, noticed, written>>
  BY <1>1, <1>2, FreshFollows DEF VectorsFollow, WordsFollow, DatabaseFollows
<1>3. CASE mode' = "none"
  BY <1>3 DEF FreshInv
<1>4. CASE LoadMetadata \/ LoadHash
  <2>1. UNCHANGED <<mode, loaded, noticed, written>> /\ (issues' = issues \/ issues' = issues \cup {"vectors"})
    BY <1>4 DEF LoadMetadata, LoadHash, Failed
  <2> QED
    BY <1>1, <2>1, FreshFollows DEF VectorsFollow, WordsFollow, DatabaseFollows
<1>5. CASE LoadCheck
  <2>1. UNCHANGED <<mode, noticed, written, disk>>
    BY <1>5 DEF LoadCheck, writer
  <2>2. CASE Same
    <3>1. /\ disk.vec = Whole(load.meta) /\ disk.meta = Whole(load.meta) /\ load.vec = disk.vec
      BY <1>5, <2>2 DEF LoadCheck, Same, OptimisticInv
    <3>2. /\ loaded' = [loaded EXCEPT !.store = [vec |-> load.vec, meta |-> Whole(load.meta)]]
          /\ issues' = issues \ {"vectors"}
      BY <1>5, <2>2 DEF LoadCheck, Solved
    <3>3. /\ loaded'.store = [vec |-> disk'.vec, meta |-> disk'.meta]
          /\ loaded'.words = loaded.words /\ loaded'.id = loaded.id /\ loaded'.astray = loaded.astray
      BY <2>1, <3>1, <3>2 DEF Typed
    <3> QED
      BY <1>1, <2>1, <3>2, <3>3, FreshFollows DEF VectorsFollow, WordsFollow, DatabaseFollows
  <2>3. CASE ~Same
    <3>1. loaded' = loaded /\ issues' = issues \cup {"vectors"}
      BY <1>5, <2>3 DEF LoadCheck, Failed
    <3> QED
      BY <1>1, <2>1, <3>1, FreshFollows DEF VectorsFollow, WordsFollow, DatabaseFollows
  <2> QED
    BY <2>2, <2>3
<1>6. CASE LoadKeyword
  <2>1. UNCHANGED <<mode, noticed, written, disk>>
    BY <1>6 DEF LoadKeyword, writer
  <2>2. \/ loaded' = [loaded EXCEPT !.words = disk.words] /\ issues' = issues \ {"keyword"}
        \/ loaded' = loaded /\ issues' = issues \cup {"keyword"}
        \/ loaded' = loaded /\ issues' = issues
    BY <1>6 DEF LoadKeyword, Solved, Failed
  <2>3. /\ loaded'.store = loaded.store /\ loaded'.id = loaded.id /\ loaded'.astray = loaded.astray
        /\ \/ loaded'.words = disk.words /\ issues' = issues \ {"keyword"}
           \/ loaded'.words = loaded.words /\ issues' = issues \cup {"keyword"}
           \/ loaded'.words = loaded.words /\ issues' = issues
    BY <2>2 DEF Typed
  <2> QED
    BY <1>1, <2>1, <2>3, FreshFollows DEF VectorsFollow, WordsFollow, DatabaseFollows
<1>7. CASE MutationOpens
  <2>1. written' = Absent /\ mode' = "writer"
    BY <1>7 DEF MutationOpens, OneWriter, LoadInv
  <2> QED
    BY <2>1 DEF FreshInv
<1>8. CASE MutationReloads
  <2>1. UNCHANGED <<mode, noticed, written, disk>> /\ other = "idle" /\ ~killed /\ mode = "writer"
    BY <1>8 DEF MutationReloads, writer, OneWriter
  <2>2. /\ loaded'.store = Stored /\ loaded'.id = loaded.id /\ loaded'.astray = loaded.astray
        /\ loaded'.words = IF disk.words = Absent THEN loaded.words ELSE disk.words
    BY <1>8 DEF MutationReloads, Typed
  <2>3. VectorsFollow
    BY <2>1, <2>2 DEF VectorsFollow, Stored
  <2>4. WordsFollow /\ DatabaseFollows
    BY <2>1, <2>2 DEF WordsFollow, DatabaseFollows
  <2> QED
    BY <1>1, <2>1, <2>3, <2>4, FreshFollows
<1>9. CASE MutationWorks
  <2>1. UNCHANGED <<mode, noticed, written, issues>>
    BY <1>9 DEF MutationWorks
  <2>2. /\ loaded'.store = loaded.store \/ loaded'.store = Unsaved
        /\ loaded'.id = loaded.id /\ loaded'.astray = loaded.astray /\ loaded'.words = loaded.words
    BY <1>9 DEF MutationWorks, Typed
  <2> QED
    BY <1>1, <2>1, <2>2, FreshFollows DEF VectorsFollow, WordsFollow, DatabaseFollows
<1>10. CASE MutationFails
  <2>1. UNCHANGED <<mode, noticed, written, issues>>
    BY <1>10 DEF MutationFails
  <2>2. \/ loaded' = loaded
        \/ /\ loaded' = [loaded EXCEPT !.store = Both(last)]
           /\ disk' = [disk EXCEPT !.vec = Whole(last), !.meta = Whole(last)]
    BY <1>10 DEF MutationFails
  <2>3. /\ \/ loaded'.store = loaded.store
           \/ loaded'.store = [vec |-> disk'.vec, meta |-> disk'.meta]
        /\ loaded'.id = loaded.id /\ loaded'.astray = loaded.astray /\ loaded'.words = loaded.words
    <3>1. CASE loaded' = loaded
      BY <3>1
    <3>2. CASE /\ loaded' = [loaded EXCEPT !.store = Both(last)]
               /\ disk' = [disk EXCEPT !.vec = Whole(last), !.meta = Whole(last)]
      <4>1. disk'.vec = Whole(last) /\ disk'.meta = Whole(last)
        BY <3>2 DEF Typed
      <4>2. /\ loaded'.store = Both(last)
            /\ loaded'.id = loaded.id /\ loaded'.astray = loaded.astray /\ loaded'.words = loaded.words
        BY <3>2 DEF Typed
      <4> QED
        BY <4>1, <4>2 DEF Both
    <3> QED
      BY <2>2, <3>1, <3>2
  <2> QED
    BY <1>1, <2>1, <2>3, FreshFollows DEF VectorsFollow, WordsFollow, DatabaseFollows
<1>11. CASE QueryReopens \/ LoadFails \/ MutationResets \/ PrImpact \/ Replaced
  BY <1>11, <1>3 DEF QueryReopens, LoadFails, MutationResets, PrImpact, Replaced, Reset
<1>12. CASE LoadBegins
  BY <1>12, <1>3 DEF LoadBegins, LoadInv
<1> QED
  BY Actions, <1>2, <1>4, <1>5, <1>6, <1>7, <1>8, <1>9, <1>10, <1>11, <1>12 DEF OtherBegins,
     OtherRemoves, OtherCreates, OtherWrites, OtherKilled, reader, QueryBegins, QueryInitializes,
     QueryRefreshes, QueryContinues, QueryAgain, QueryEnds, LoadIndex, MutationBegins

\* The last step of a load: its fingerprint is kept with what it loaded.
LEMMA FreshAfterLoad ==
  ASSUME ReadersInv, LoadDatabase, Typed'
  PROVE  FreshInv'
<1> USE DEF ReadersInv
<1>1. /\ load.step = "database" /\ UNCHANGED disk
      /\ mode' = IF load.mode = "initialize" THEN "reader" ELSE mode
      /\ noticed' = IF mode' = "reader" THEN load.current ELSE noticed
      /\ written' = IF mode' = "writer" THEN load.current ELSE written
  BY DEF LoadDatabase, Keeps, writer
<1>11. PICK h :
         IF WantedDatabase /\ disk.db # Absent
         THEN \/ Opened(h)
              \/ "database" \in issues' /\ loaded' \in {loaded, [loaded EXCEPT !.handle = h]}
         ELSE /\ loaded' \in {loaded, [loaded EXCEPT !.handle = h]}
              /\ issues \subseteq issues'
  BY Zenon DEF LoadDatabase, Failed
<1>12. /\ loaded'.store = loaded.store /\ loaded'.words = loaded.words
       /\ IF WantedDatabase /\ disk.db # Absent
          THEN \/ loaded'.id = disk.db.id
               \/ "database" \in issues' /\ loaded'.id = loaded.id /\ loaded'.astray = loaded.astray
          ELSE /\ loaded'.id = loaded.id /\ loaded'.astray = loaded.astray
               /\ issues \subseteq issues'
  <2>1. Opened(h) => loaded'.store = loaded.store /\ loaded'.words = loaded.words /\ loaded'.id = disk.db.id
    BY DEF Opened, Typed
  <2>2. loaded' \in {loaded, [loaded EXCEPT !.handle = h]} =>
          /\ loaded'.store = loaded.store /\ loaded'.words = loaded.words
          /\ loaded'.id = loaded.id /\ loaded'.astray = loaded.astray
    BY DEF Typed
  <2> QED
    BY <1>11, <2>1, <2>2
<1>2. loaded'.store = loaded.store /\ loaded'.words = loaded.words
  BY <1>12
<1>3. \/ issues' = issues \cup {"database"} \/ issues' = issues \ {"database"} \/ issues' = issues
  BY DEF LoadDatabase, Solved, Failed
<1>4. PICK fp : fp = load.current
  OBVIOUS
<1>5. FreshVectors(fp) /\ FreshWords(fp)
  BY <1>1, <1>4 DEF LoadInv
<1>6. FreshVectors(fp)' /\ FreshWords(fp)'
  BY <1>1, <1>2, <1>3, <1>5 DEF FreshVectors, FreshWords
<1>7. \/ WantedDatabase /\ disk.db # Absent /\ loaded'.id = disk.db.id
      \/ WantedDatabase /\ disk.db # Absent /\ "database" \in issues' /\ loaded'.id = loaded.id /\ loaded'.astray = loaded.astray
      \/ /\ ~(WantedDatabase /\ disk.db # Absent) /\ loaded'.id = loaded.id /\ loaded'.astray = loaded.astray
         /\ "database" \in issues => "database" \in issues'
  BY <1>12
<1>8. ASSUME ~WantedDatabase
      PROVE  load.previous # Absent /\ load.previous.identity = load.current.identity
  BY <1>8 DEF WantedDatabase, Differs
<1>9. CASE mode' = "reader"
  <2>1. FreshDatabase(fp, issues)'
    <3>1. CASE WantedDatabase \/ disk.db = Absent
      BY <1>1, <1>7, <3>1 DEF FreshDatabase
    <3>2. CASE ~WantedDatabase /\ disk.db # Absent
      <4>1. mode = "reader" /\ load.previous = noticed /\ noticed # Absent /\ noticed.identity = fp.identity
        BY <1>1, <1>4, <1>8, <1>9, <3>2 DEF LoadInv
      <4>2. FreshDatabase(noticed, issues)
        BY <4>1 DEF FreshInv
      <4> QED
        BY <1>1, <1>7, <3>2, <4>1, <4>2 DEF FreshDatabase
    <3> QED
      BY <3>1, <3>2
  <2>2. noticed' = fp
    BY <1>1, <1>4, <1>9
  <2> QED
    BY <1>6, <1>9, <2>1, <2>2 DEF FreshInv, FreshVectors, FreshWords, FreshDatabase
<1>10. CASE mode' = "writer"
  <2>1. /\ mode = "writer" /\ load.previous = written /\ written # Absent
        /\ fp.identity = written.identity
    BY <1>1, <1>4, <1>10 DEF LoadInv
  <2>2. FreshDatabase(written, {})
    BY <2>1 DEF FreshInv
  <2>3. FreshDatabase(fp, {})'
    BY <1>1, <1>7, <2>1, <2>2 DEF FreshDatabase
  <2>4. written' = fp
    BY <1>1, <1>4, <1>10
  <2> QED
    BY <1>6, <1>10, <2>3, <2>4 DEF FreshInv, FreshVectors, FreshWords, FreshDatabase
<1> QED
  BY <1>9, <1>10 DEF FreshInv

\* A publication is what its Indexer has in memory, or its database is astray.
LEMMA FreshAfterPublication ==
  ASSUME ReadersInv, ReadersNext, MutationPublishes, Typed'
  PROVE  FreshInv'
<1> USE DEF ReadersInv
<1>1. Moves
  BY FilesMove
<1>2. /\ UNCHANGED <<mode, noticed, issues>> /\ mutation.step = "publishes"
      /\ disk' = Published(disk)
      /\ loaded' = IF mutation.mine
                   THEN [loaded EXCEPT !.store = Both(last), !.words = last, !.astray = ~Live]
                   ELSE loaded
  BY DEF MutationPublishes
<1>3. /\ disk'.vec = Whole(last) /\ disk'.meta = Whole(last) /\ disk'.words = last
      /\ disk'.db = IF Live THEN [disk.db EXCEPT !.n = last] ELSE disk.db
  BY <1>2 DEF Published
<1>4. mutation.mine => /\ loaded'.store = [vec |-> disk'.vec, meta |-> disk'.meta]
                       /\ loaded'.words = disk'.words /\ loaded'.id = loaded.id
                       /\ loaded'.astray = ~Live
  BY <1>2, <1>3 DEF Typed, Both
<1>5. ~mutation.mine => loaded' = loaded
  BY <1>2
<1>6. ASSUME mutation.mine
      PROVE  \A fp : FreshVectors(fp)' /\ FreshWords(fp)'
  BY <1>4, <1>6 DEF FreshVectors, FreshWords
<1>7. CASE mode = "writer"
  <2>1. mutation.mine /\ mutation.id = loaded.id
    BY <1>2, <1>7 DEF OneWriter
  <2>2. \A fp : FreshDatabase(fp, {})'
    <3>1. CASE Live
      <4>1. disk.db # Absent /\ disk.db.id = loaded.id
        BY <2>1, <3>1 DEF Live
      <4>2. disk'.db.id = disk.db.id
        BY <1>3, <3>1, <4>1 DEF Typed, Database
      <4> QED
        BY <1>4, <2>1, <4>1, <4>2 DEF FreshDatabase
    <3>2. CASE ~Live
      BY <1>4, <2>1, <3>2 DEF FreshDatabase
    <3> QED
      BY <3>1, <3>2
  <2> QED
    BY <1>2, <1>6, <1>7, <2>1, <2>2 DEF FreshInv, FreshVectors, FreshWords, FreshDatabase
<1>8. CASE mode = "reader"
  <2>1. SUFFICES ASSUME noticed # Absent
                 PROVE  (FreshVectors(noticed) /\ FreshWords(noticed) /\ FreshDatabase(noticed, issues))'
    BY <1>2, <1>8 DEF FreshInv
  <2>2. PICK fp : fp = noticed
    OBVIOUS
  <2>3. Known(fp) /\ FreshVectors(fp) /\ FreshWords(fp) /\ FreshDatabase(fp, issues)
    BY <1>8, <2>1, <2>2 DEF KnownInv, FreshInv
  <2>4. FreshVectors(fp)' /\ FreshWords(fp)'
    BY <1>1, <1>2, <1>5, <1>6, <2>3, FreshKept DEF VectorsFollow, WordsFollow
  <2>5. FreshDatabase(fp, issues)'
    <3>1. disk'.db # Absent => disk.db # Absent /\ disk'.db.id = disk.db.id
      BY <1>3 DEF Live, Typed, Database
    <3>2. loaded' = loaded
      BY <1>2, <1>5, <1>8 DEF OneWriter
    <3> QED
      BY <1>2, <2>3, <3>1, <3>2 DEF FreshDatabase
  <2>6. noticed' = fp
    BY <1>2, <2>2
  <2> QED
    BY <2>4, <2>5, <2>6 DEF FreshVectors, FreshWords, FreshDatabase
<1> QED
  BY <1>2, <1>7, <1>8 DEF FreshInv, Typed

\* A load in progress has the mode and the fingerprints it began with, and what it has read
\* is what its fingerprint says.
LEMMA LoadStepKeeps ==
  ASSUME ReadersInv, ReadersNext, Typed', OneWriter'
  PROVE  LoadInv'
<1> USE DEF ReadersInv, Typed
<1>1. Moves
  BY FilesMove
<1>2. CASE load' = NoLoad
  BY <1>2 DEF LoadInv, NoLoad
<1>3. CASE load.step \in {"none", "detect"} /\ UNCHANGED <<mode, written, load>>
  BY <1>3 DEF LoadInv
<1>4. CASE OtherBegins \/ (\E f \in File : OtherRemoves(f)) \/ OtherCreates \/ OtherWrites \/ OtherKilled
  <2>2. UNCHANGED <<mode, loaded, noticed, written, issues, mutation, load>>
    BY <1>4 DEF OtherBegins, OtherRemoves, OtherCreates, OtherWrites, OtherKilled, reader
  <2>1. CASE load.step \in {"none", "detect"}
    BY <2>1, <2>2, <1>3
  <2>3. CASE load.step \in Reading
    <3>1. PICK fp : fp = load.current
      OBVIOUS
    <3>2. Known(fp)
      BY <2>3, <3>1 DEF KnownInv
    <3>3. /\ FreshVectors(fp) => FreshVectors(fp)'
          /\ FreshWords(fp) => FreshWords(fp)'
      BY <1>1, <2>2, <3>2, FreshKept DEF VectorsFollow, WordsFollow
    <3> QED
      BY <2>2, <2>3, <3>1, <3>3 DEF LoadInv, FreshVectors, FreshWords
  <2> QED
    BY <2>1, <2>3
<1>9. CASE QueryBegins \/ QueryContinues \/ QueryAgain \/ QueryEnds
  <2>1. load.step \in {"none", "detect"} /\ UNCHANGED <<mode, written, load>>
    BY <1>9 DEF QueryBegins, QueryContinues, QueryAgain, QueryEnds, Busy
  <2> QED
    BY <2>1, <1>3
<1>10. CASE MutationBegins \/ MutationReloads \/ MutationWorks \/ MutationFails
  <2>1. load.step \in {"none", "detect"} /\ UNCHANGED <<mode, written, load>>
    BY <1>10 DEF MutationBegins, MutationReloads, MutationWorks, MutationFails, Busy
  <2> QED
    BY <2>1, <1>3
<1>11. CASE MutationPublishes
  <2>1. load.step \in {"none", "detect"} /\ UNCHANGED <<mode, load>> /\ mutation.step = "publishes"
    BY <1>11 DEF MutationPublishes, Busy
  <2>2. ~(load.step = "detect" /\ load.mode = "writer")
    BY <2>1 DEF OneWriter
  <2> QED
    BY <2>1, <2>2 DEF LoadInv
<1>12. CASE PrImpact \/ Replaced
  BY <1>12 DEF PrImpact, Replaced, LoadInv
<1>13. CASE QueryInitializes
  <2>1. load'.step = "detect" /\ load'.mode = "reader" /\ UNCHANGED mode /\ mode = "none"
    BY <1>13 DEF QueryInitializes, NoLoad
  <2> QED
    BY <2>1 DEF LoadInv
<1>14. CASE QueryReopens \/ MutationResets
  <2>1. load'.step = "detect" /\ mode' = "none" /\ written' = Absent
    <3>1. CASE QueryReopens
      BY <3>1 DEF QueryReopens, NoLoad, Reset
    <3>2. CASE MutationResets
      BY <3>2 DEF MutationResets, NoLoad, Reset
    <3> QED
      BY <1>14, <3>1, <3>2
  <2> QED
    BY <2>1 DEF LoadInv
<1>15. CASE LoadFails \/ MutationOpens \/ LoadDatabase
  BY <1>2, <1>15 DEF LoadFails, MutationOpens, LoadDatabase
<1>5. CASE QueryRefreshes
  <2> DEFINE previous == IF mode = "reader" THEN noticed ELSE written
  <2>1. /\ mode = "writer" => SameDatabase(previous)
        /\ \E due \in SUBSET issues :
             load' = [NoLoad EXCEPT !.step = "vectors", !.mode = "refresh", !.previous = previous,
                                    !.current = Fingerprint, !.due = due]
    <3>1. PICK fp \in {IF mode = "reader" THEN noticed ELSE written} :
            /\ mode = "writer" => SameDatabase(fp)
            /\ \E due \in SUBSET issues :
                 /\ due # {} \/ ~UpToDate(fp, Fingerprint)
                 /\ load' = [NoLoad EXCEPT !.step = "vectors", !.mode = "refresh", !.previous = fp,
                                           !.current = Fingerprint, !.due = due]
      BY <1>5, Zenon DEF QueryRefreshes
    <3>2. fp = previous
      OBVIOUS
    <3> QED
      BY <3>1, <3>2, Zenon
  <2>2. /\ load'.step = "vectors" /\ load'.mode = "refresh" /\ load'.previous = previous
        /\ load'.current = Fingerprint
    BY <2>1 DEF NoLoad
  <2>3. /\ UNCHANGED <<mode, noticed, written, mutation>>
        /\ mode = "reader" \/ (mode = "writer" /\ mutation.step = "idle")
    BY <1>5 DEF QueryRefreshes, Active
  <2> QED
    BY <2>1, <2>2, <2>3 DEF LoadInv, SameDatabase
<1>6. CASE LoadBegins
  <2>1. /\ load'.step = "vectors" /\ load'.mode = "initialize" /\ load'.previous = Absent
        /\ UNCHANGED mode /\ load.step = "detect"
    BY <1>6 DEF LoadBegins, NoLoad
  <2> QED
    BY <2>1 DEF LoadInv
<1>7. ASSUME load.step \in Reading, UNCHANGED <<mode, noticed, written, mutation, disk>>,
             load'.step \in Reading,
             load'.mode = load.mode, load'.previous = load.previous, load'.current = load.current,
             load'.step \in {"keyword", "database"} => FreshVectors(load.current)',
             load'.step = "database" => FreshWords(load.current)'
      PROVE  LoadInv'
  BY <1>7 DEF LoadInv
<1>8. CASE LoadMetadata
  <2>1. UNCHANGED <<mode, noticed, written, mutation, disk, loaded>> /\ load.step = "vectors"
    BY <1>8 DEF LoadMetadata, writer
  <2>2. CASE load' = [load EXCEPT !.step = "hash", !.meta = disk.meta.n]
    <3>1. /\ load'.step = "hash"
          /\ load'.mode = load.mode /\ load'.previous = load.previous /\ load'.current = load.current
      BY <2>2
    <3> QED
      BY <1>7, <2>1, <3>1
  <2>3. CASE To("keyword")
    <3>1. /\ load'.step = "keyword"
          /\ load'.mode = load.mode /\ load'.previous = load.previous /\ load'.current = load.current
      BY <2>3, LoadMoves
    <3>2. \/ "vectors" \in issues'
          \/ disk.vec = Absent
          \/ ~Wanted("vectors") /\ UNCHANGED issues
      <4>1. ~(Wanted("vectors") /\ disk.vec # Absent /\ disk.meta # Absent /\ disk.meta.whole)
        BY <1>8, <3>1 DEF LoadMetadata
      <4>2. IF Wanted("vectors") /\ (disk.vec # Absent \/ disk.meta # Absent \/ "vectors" \in issues)
            THEN issues' = issues \cup {"vectors"} ELSE UNCHANGED issues
        BY <1>8, <4>1 DEF LoadMetadata, Failed
      <4> QED
        BY <4>2
    <3>3. ASSUME ~Wanted("vectors")
          PROVE  load.previous # Absent /\ load.previous.vectors = load.current.vectors
      BY <3>3 DEF Wanted, Differs
    <3>4. FreshVectors(load.current)'
      <4>1. CASE ~Wanted("vectors") /\ UNCHANGED issues
        <5>1. \/ mode = "reader" /\ load.previous = noticed
              \/ mode = "writer" /\ load.previous = written
          BY <2>1, <3>3, <4>1 DEF LoadInv
        <5>2. FreshVectors(load.previous)
          BY <3>3, <4>1, <5>1 DEF FreshInv
        <5> QED
          BY <2>1, <3>1, <3>3, <4>1, <5>2 DEF FreshVectors
      <4>2. CASE "vectors" \in issues' \/ disk.vec = Absent
        BY <2>1, <4>2 DEF FreshVectors
      <4> QED
        BY <3>2, <4>1, <4>2
    <3> QED
      BY <1>7, <2>1, <3>1, <3>4
  <2> QED
    BY <1>8, <2>2, <2>3 DEF LoadMetadata
<1>16. CASE LoadHash
  <2>1. /\ UNCHANGED <<mode, noticed, written, mutation, disk>> /\ load.step = "hash"
        /\ load' = [load EXCEPT !.step = "index"] \/ (To("keyword") /\ "vectors" \in issues')
    BY <1>16 DEF LoadHash, writer, Failed
  <2>2. /\ load'.step \in {"index", "keyword"}
        /\ load'.mode = load.mode /\ load'.previous = load.previous /\ load'.current = load.current
        /\ load'.step = "keyword" => "vectors" \in issues'
    BY <2>1, LoadMoves
  <2>3. load'.step = "keyword" => FreshVectors(load.current)'
    BY <2>2 DEF FreshVectors
  <2> QED
    BY <1>7, <2>1, <2>2, <2>3
<1>17. CASE LoadIndex
  <2>1. /\ UNCHANGED <<mode, noticed, written, mutation, disk>> /\ load.step = "index"
        /\ load'.step = "check"
        /\ load'.mode = load.mode /\ load'.previous = load.previous /\ load'.current = load.current
    BY <1>17 DEF LoadIndex, writer
  <2> QED
    BY <1>7, <2>1
<1>18. CASE LoadCheck
  <2>1. /\ UNCHANGED <<mode, noticed, written, mutation, disk>> /\ load.step = "check" /\ To("keyword")
    BY <1>18 DEF LoadCheck, writer
  <2>2. /\ load'.step = "keyword"
        /\ load'.mode = load.mode /\ load'.previous = load.previous /\ load'.current = load.current
    BY <2>1, LoadMoves
  <2>3. FreshVectors(load.current)'
    <3>1. CASE Same
      <4>1. /\ disk.vec = Whole(load.meta) /\ disk.meta = Whole(load.meta) /\ load.vec = disk.vec
        BY <2>1, <3>1 DEF Same, OptimisticInv
      <4>2. loaded'.store = [vec |-> disk.vec, meta |-> disk.meta]
        BY <1>18, <3>1, <4>1 DEF LoadCheck
      <4> QED
        BY <2>1, <4>2 DEF FreshVectors
    <3>2. CASE ~Same
      BY <1>18, <3>2 DEF LoadCheck, Failed, FreshVectors
    <3> QED
      BY <3>1, <3>2
  <2> QED
    BY <1>7, <2>1, <2>2, <2>3
<1>19. CASE LoadKeyword
  <2>1. /\ UNCHANGED <<mode, noticed, written, mutation, disk>> /\ load.step = "keyword" /\ To("database")
    BY <1>19 DEF LoadKeyword, writer
  <2>2. /\ load'.step = "database"
        /\ load'.mode = load.mode /\ load'.previous = load.previous /\ load'.current = load.current
    BY <2>1, LoadMoves
  <2>3. /\ loaded'.store = loaded.store
        /\ issues' = issues \/ issues' = issues \cup {"keyword"} \/ issues' = issues \ {"keyword"}
    BY <1>19 DEF LoadKeyword, Solved, Failed
  <2>4. FreshVectors(load.current)'
    BY <2>1, <2>2, <2>3 DEF LoadInv, FreshVectors
  <2>5. \/ loaded'.words = disk.words
        \/ "keyword" \in issues'
        \/ disk.words = Absent
        \/ ~Wanted("keyword") /\ load.mode # "initialize" /\ UNCHANGED <<loaded, issues>>
    BY <1>19 DEF LoadKeyword, Failed
  <2>6. FreshWords(load.current)'
    <3>1. CASE ~Wanted("keyword") /\ load.mode # "initialize" /\ UNCHANGED <<loaded, issues>>
      <4>1. load.previous # Absent /\ load.previous.keyword = load.current.keyword
        BY <3>1 DEF Wanted, Differs
      <4>2. \/ mode = "reader" /\ load.previous = noticed
            \/ mode = "writer" /\ load.previous = written
        BY <2>1, <3>1 DEF LoadInv
      <4>3. FreshWords(load.previous)
        BY <4>1, <4>2 DEF FreshInv
      <4> QED
        BY <2>1, <2>2, <3>1, <4>1, <4>3 DEF FreshWords
    <3>2. CASE loaded'.words = disk.words \/ "keyword" \in issues' \/ disk.words = Absent
      BY <2>1, <3>2 DEF FreshWords
    <3> QED
      BY <2>5, <3>1, <3>2
  <2> QED
    BY <1>7, <2>1, <2>2, <2>4, <2>6
<1> QED
  BY Actions, <1>4, <1>5, <1>6, <1>8, <1>9, <1>10, <1>11, <1>12, <1>13, <1>14, <1>15, <1>16, <1>17,
     <1>18, <1>19
-----------------------------------------------------------------------------
(* The theorems.                                                           *)

\* The invariant is kept.
LEMMA Preserved == ReadersInv /\ [ReadersNext]_readersVars => ReadersInv'
<1> SUFFICES ASSUME ReadersInv, [ReadersNext]_readersVars PROVE ReadersInv'
  OBVIOUS
<1>1. CASE ReadersNext
  <2>1. Typed' /\ OneWriter' /\ FilesInv' /\ OptimisticInv' /\ LoadedWhole'
    BY <1>1, TypedStep, OneWriterStep, FilesStep, OptimisticStep, WholeStep
  <2>2. KnownInv' /\ LoadInv'
    BY <1>1, <2>1, KnownStep, LoadStepKeeps
  <2>3. FreshInv'
    BY <1>1, <2>1, FreshStep, FreshAfterLoad, FreshAfterPublication
  <2> QED
    BY <2>1, <2>2, <2>3 DEF ReadersInv
<1>2. CASE UNCHANGED readersVars
  BY <1>2 DEF readersVars, ReadersInv, Typed, OneWriter, FilesInv, VecInv, MetaInv, WordsInv, DbInv,
     AtRest, Below, OptimisticInv, LoadedWhole, KnownInv, Known, KnownVersion, FreshInv, FreshVectors,
     FreshWords, FreshDatabase, LoadInv
<1> QED
  BY <1>1, <1>2

\* It says what is trusted of the loaded state.
LEMMA TrustedFresh == ReadersInv => NoStaleLoad
BY DEF ReadersInv, Typed, NoStaleLoad, Trusted, FreshInv, FreshVectors, FreshWords, FreshDatabase,
   Fingerprint

\* The vectors and the metadata that are loaded are of one publication, whatever another
\* writer does to the two files while they are read.
THEOREM ReadsWhole == ReadersSpec => []LoadedWhole
<1>1. ReadersInv => LoadedWhole
  BY DEF ReadersInv
<1> QED
  BY <1>1, InitHolds, Preserved, PTL DEF ReadersSpec

\* A component that the next query would not load again is the one on disk.
THEOREM LoadsAreFresh == ReadersSpec => []NoStaleLoad
  BY InitHolds, Preserved, TrustedFresh, PTL DEF ReadersSpec
=============================================================================
