----------------------------- MODULE Selection -----------------------------
(***************************************************************************)
(* Which files are indexed (src/src/utils/files.ts, paths.ts), while they   *)
(* come and go, and which of their changes the file watcher admits          *)
(* (src/src/watcher/file-watcher.ts).                                       *)
(*                                                                         *)
(* A path is a node of a fixed tree; disk has those that exist.  What a     *)
(* name or a pattern says of a path is given: the matching of globs and of  *)
(* .gitignore is left out.  Directories and entries are taken in any order; *)
(* the order of the code is one of them.                                    *)
(***************************************************************************)
EXTENDS Integers, FiniteSets

CONSTANTS
  Folder, SourceFile,   \* the paths
  ParentOf,             \* the folder of a path
  PathTo,               \* the path and all that is above it
  Project, Bases,       \* the root of the project; the knowledge bases
  Hidden, Building,     \* names that begin with a dot; that contain "build"
  Matched,              \* what the ignore patterns of a root match
  Restricted,           \* folders of the operating system, by their name
  Excluded, Included,   \* files that the patterns of the configuration match
  SizeOf, MaxFileSize, MaxDepth, MaxFilesPerDirectory,
  Disks,                \* what may exist at first
  Comings               \* bound: paths that appear or vanish

Path == Folder \cup SourceFile
Roots == {Project} \cup Bases

\* A path below another is below, or is, one that the other one is the folder of; nothing is
\* below itself; what exists is in folders that exist.
ASSUME TreeAssumption ==
  /\ Folder \cap SourceFile = {} /\ Project \in Folder
  /\ \A p \in Path : p \in PathTo[p] /\ PathTo[p] \subseteq Path
  /\ \A p \in Path : \A d \in PathTo[p] : PathTo[d] \subseteq PathTo[p] /\ (p \in PathTo[d] => p = d)
  /\ \A p \in Path : \A d \in PathTo[p] \ {p} :
       d \in Folder /\ \E e \in PathTo[p] \ {d} : ParentOf[e] = d /\ d \in PathTo[e]
  /\ \A p, d \in Path : ParentOf[p] = d => PathTo[p] = {p} \cup PathTo[d]
ASSUME DisksAssumption ==
  \A there \in Disks : there \subseteq Path /\ \A p \in there : PathTo[p] \subseteq there
ASSUME LimitsAssumption == MaxFilesPerDirectory \in Nat /\ IsFiniteSet(SourceFile)

VARIABLES
  disk,      \* the paths that exist
  phase,     \* the step of collectFiles
  walked,    \* the root that is walked
  bases,     \* normalizedRoots that are not walked yet
  ahead,     \* the folders found below it and not read yet
  entries,   \* the files of the folder in hand that are not looked at yet
  found,     \* filesInDir
  files,     \* the files collected
  skipped,   \* what is reported as skipped of a root, or the root itself
  touched,   \* the paths that came or went since the walk began
  comings    \* what is left of Comings

selectionVars ==
  <<disk, phase, walked, bases, ahead, entries, found, files, skipped, touched, comings>>
walk == <<phase, walked, bases, ahead, entries, found, files, skipped>>

-----------------------------------------------------------------------------
(* What is said of a path below a root.                                      *)

Segments(r, p) == PathTo[p] \ PathTo[r]
Below(r, p) == r \in PathTo[p] /\ p # r

\* ignoreFilter.ignores: a pattern matches the path or a folder above it.
Ignores(r, p) == Segments(r, p) \cap Matched[r] # {}

\* shouldIncludeFile, of a file of the project.
ShouldIncludeFile(f) ==
  /\ Segments(Project, f) \cap (Hidden \cup Building) = {}
  /\ ~Ignores(Project, f)
  /\ f \notin Excluded
  /\ f \in Included

\* What the watcher admits: createWatcher's "ignored" on the way to the file, handleChange.
Watched(f) ==
  /\ Below(Project, f)
  /\ \A s \in Segments(Project, f) : ParentOf[s] = Project => s \notin Restricted
  /\ ShouldIncludeFile(f)

\* Whether a walk goes into the folders of a folder.
CanRecurse(r, d) == MaxDepth = -1 \/ Cardinality(Segments(r, d)) < MaxDepth

\* Entries of a folder that are passed over by their names.
Passed(p) == p \in Hidden \/ (p \in Folder /\ p \in Building)

\* Seeded fault: a file that the patterns leave out is taken for its size.
TakenBySize(f) == SizeOf[f] <= MaxFileSize

\* An exclude pattern only adds to skipped: its "continue" goes on with the next pattern.
Taken(f) == SizeOf[f] <= MaxFileSize /\ f \in Included

-----------------------------------------------------------------------------
SelectionInit ==
  /\ disk \in Disks
  /\ phase = "idle" /\ walked = Project /\ bases = {} /\ ahead = {}
  /\ entries = {} /\ found = {} /\ files = {} /\ skipped = {}
  /\ touched = {} /\ comings = Comings

\* collectFiles
CollectFiles ==
  /\ phase = "idle"
  /\ phase' = "folder" /\ bases' = Bases /\ ahead' = {Project} /\ touched' = {}
  /\ UNCHANGED <<disk, walked, entries, found, files, skipped, comings>>

\* The next knowledge base, or the end.
NextBase ==
  /\ ahead' = {} /\ entries' = {} /\ found' = {}
  /\ phase' = IF bases = {} THEN "done" ELSE "base"

\* What throws in a knowledge base ends its walk and is not reported to the caller; what
\* throws in the project is.
WalkThrows ==
  /\ IF walked = Project
     THEN phase' = "failed" /\ UNCHANGED <<ahead, entries, found, skipped>>
     ELSE NextBase /\ skipped' = skipped \cup {<<walked, walked>>}
  /\ UNCHANGED <<walked, bases, files>>

Listed(S) == {<<walked, p>> : p \in S}

\* readdir, and the entries that need no further look.
ReadFolder ==
  /\ phase = "folder"
  /\ \E d \in ahead :
       LET all     == {p \in disk \ {d} : ParentOf[p] = d}
           visible == {p \in all : ~Passed(p) /\ ~Ignores(walked, p)}
       IN IF d \notin disk THEN WalkThrows
          ELSE /\ entries' = visible \cap SourceFile /\ found' = {}
               /\ ahead' = (ahead \ {d}) \cup
                          (IF CanRecurse(walked, d) THEN visible \cap Folder ELSE {})
               /\ skipped' = skipped \cup
                    Listed({p \in all : Passed(p) /\ p \in Folder}
                             \cup {p \in all : ~Passed(p) /\ Ignores(walked, p) /\ p \in SourceFile})
               /\ phase' = "stat"
               /\ UNCHANGED <<walked, bases, files>>
  /\ UNCHANGED <<disk, touched, comings>>

\* stat of an entry, and the patterns.
StatEntry ==
  /\ phase = "stat"
  /\ \E f \in entries :
       IF f \notin disk THEN WalkThrows
       ELSE /\ entries' = entries \ {f}
            /\ found' = IF Taken(f) THEN found \cup {f} ELSE found
            /\ skipped' = IF SizeOf[f] > MaxFileSize \/ f \in Excluded
                          THEN skipped \cup Listed({f}) ELSE skipped
            /\ UNCHANGED <<phase, walked, bases, ahead, files>>
  /\ UNCHANGED <<disk, touched, comings>>

\* The smallest of a folder's files; between equal ones the order of readdir decides.
Limited(kept) ==
  /\ Cardinality(kept) <= MaxFilesPerDirectory
  /\ kept # found => Cardinality(kept) = MaxFilesPerDirectory
  /\ \A f \in kept, g \in found \ kept : SizeOf[f] <= SizeOf[g]

FolderEnds ==
  /\ phase = "stat" /\ entries = {}
  /\ \E kept \in SUBSET found :
       /\ Limited(kept)
       /\ files' = files \cup kept
       /\ skipped' = skipped \cup Listed(found \ kept)
  /\ IF ahead = {} THEN NextBase
     ELSE phase' = "folder" /\ found' = {} /\ UNCHANGED <<ahead, entries>>
  /\ UNCHANGED <<disk, walked, bases, touched, comings>>

\* stat of a knowledge base.
BeginBase ==
  /\ phase = "base"
  /\ \E b \in bases :
       /\ bases' = bases \ {b}
       /\ IF b \in disk \cap Folder
          THEN walked' = b /\ ahead' = {b} /\ phase' = "folder" /\ UNCHANGED skipped
          ELSE /\ skipped' = skipped \cup {<<b, b>>}
               /\ phase' = IF bases' = {} THEN "done" ELSE "base"
               /\ UNCHANGED <<walked, ahead>>
  /\ UNCHANGED <<disk, entries, found, files, touched, comings>>

\* Others make and remove files and folders.
Change(p) ==
  /\ comings > 0 /\ comings' = comings - 1
  /\ touched' = touched \cup {p}
  /\ UNCHANGED walk

Appears ==
  \E p \in Path \ disk : disk' = disk \cup {p} /\ ParentOf[p] \in disk /\ Change(p)

Vanishes ==
  \E p \in disk \ {Project} :
    disk' = disk \ {p} /\ (\A q \in disk : p \in PathTo[q] => q = p) /\ Change(p)

SelectionNext ==
  \/ CollectFiles \/ ReadFolder \/ StatEntry \/ FolderEnds \/ BeginBase
  \/ Appears \/ Vanishes
SelectionSpec == SelectionInit /\ [][SelectionNext]_selectionVars
-----------------------------------------------------------------------------
\* A file that a walk of a root takes, by its path alone.
Selects(r, f) ==
  /\ Below(r, f)
  /\ \A s \in Segments(r, f) : ~Passed(s) /\ (s \in Folder => CanRecurse(r, ParentOf[s]))
  /\ ~Ignores(r, f)
  /\ SizeOf[f] <= MaxFileSize /\ f \in Included

\* Files whose changes the watcher passes over although a walk takes them: by their name or
\* that of a folder, by a pattern that the walk does not heed, or as a knowledge base's.
BlindSpot ==
  {f \in SourceFile :
     \/ f \in Building \/ f \in Excluded \/ ~Selects(Project, f)
     \/ \E s \in Segments(Project, f) : ParentOf[s] = Project /\ s \in Restricted}

\* The files of the folder that took a file's place.
Crowded(f) ==
  Cardinality({g \in files : ParentOf[g] = ParentOf[f] /\ SizeOf[g] <= SizeOf[f]})
    >= MaxFilesPerDirectory

\* When a walk has ended and the watcher has noticed no change since it began, the files
\* collected are those of the tree as it is: every file that the rules of a root admit, or
\* enough smaller ones of its folder, unless the root is a knowledge base that is reported;
\* and no other file.  Only changes in a blind spot make an exception (walkDirectory,
\* collectFiles, FileWatcher).
SelectionHonest ==
  phase = "done" /\ (\A p \in touched : ~Watched(p)) =>
    /\ \A f \in files : /\ \E r \in Roots : Selects(r, f)
                        /\ f \in disk \/ f \in touched \cap BlindSpot
    /\ \A r \in Roots : \A f \in disk \cap SourceFile :
         Selects(r, f) =>
           \/ f \in files \/ Crowded(f) \/ <<r, r>> \in skipped
           \/ f \in touched \cap BlindSpot
=============================================================================
