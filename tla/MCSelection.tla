---------------------------- MODULE MCSelection ----------------------------
(* A small project for TLC.                                                *)
EXTENDS Selection

\* src is the folder of four files, three of which may be taken; out is ignored,
\* deep is below the depth, lib has the name of a folder of a system; the knowledge base is a
\* hidden folder of the project.
MCFolder == {"project", "src", "deep", "lib", "out", "notes"}
MCFile == {"a.c", "b.c", "build.c", "x.gen", "d.c", "l.c", "o.c", "n.c", "r.md"}
MCParent == [p \in MCFolder \cup MCFile |->
  CASE p = "project" -> "root"
    [] p \in {"src", "lib", "out", "notes", "r.md"} -> "project"
    [] p \in {"a.c", "b.c", "build.c", "x.gen", "deep"} -> "src"
    [] p = "d.c" -> "deep" [] p = "l.c" -> "lib" [] p = "o.c" -> "out" [] p = "n.c" -> "notes"]
Above[p \in MCFolder \cup MCFile \cup {"root"}] ==
  IF p = "root" THEN {} ELSE {p} \cup Above[MCParent[p]]
MCPathTo == [p \in MCFolder \cup MCFile |-> Above[p]]
MCIncluded == MCFile \ {"r.md"}
MCSizeOf == [f \in MCFile |-> IF f \in {"b.c", "n.c"} THEN 2 ELSE 1]
MCMatched == [f \in {"project", "notes"} |-> IF f = "project" THEN {"out"} ELSE {}]
MCDisks ==
  {MCFolder \cup MCFile, (MCFolder \cup MCFile) \ {"a.c", "x.gen"}, {"project", "src", "r.md"}}
=============================================================================
