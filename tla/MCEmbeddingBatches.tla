------------------------- MODULE MCEmbeddingBatches -------------------------
(***************************************************************************)
(* An instance of EmbeddingBatches for TLC: four chunks of this project,   *)
(* two of them long, with the same text under file names of different      *)
(* length, and one chunk of another project.                               *)
(***************************************************************************)
EXTENDS EmbeddingBatches

CONSTANTS a, b, c, d, o

MCOwn == {a, b, c, d}
\* The texts of b and c are too long for one request.  The header with the file
\* name takes its share of each part: the longer name of c leaves room for less.
MCLength == [k \in {a, b, c, d, o} |-> IF k \in {a, d, o} THEN 3 ELSE 6]
MCRoom == [k \in {a, b, c, d, o} |-> IF k = c THEN 3 ELSE 4]
MCParts == [k \in {a, b, c, d, o} |-> Len(Segments(MCLength[k], MCRoom[k], 1))]
MCText == [k \in {a, b, c, d, o} |-> CASE k \in {a, d} -> "x" [] k = o -> "z" [] OTHER -> "y"]
\* Two calls: c, a and d, whose parts take three requests, and b, which has
\* something to ask for if c has failed.  If that fails too while a is stored and
\* the file cannot be written, the next run asks for a with its vector in place.
MCFresh == {<<>>, <<c, a, d, b>>}

\* No file; one with two records of a chunk around a bad line, beside another
\* project's record.
MCFiles == {<<>>, <<Record(a, 1), Malformed, Record(a, 2), Record(o, 1)>>}
=============================================================================
