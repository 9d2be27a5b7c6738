---------------------------- MODULE ChunkOutcomes ----------------------------
(***************************************************************************)
(* What a run of the Indexer promises about the chunks it embeds: a call   *)
(* either stores a chunk or records it as failed, one of the two, and ends *)
(* when none is pending.  EmbeddingBatches, with its requests, parts and   *)
(* retries, implements it.                                                 *)
(***************************************************************************)
EXTENDS FiniteSets

CONSTANT Chunk

VARIABLES
  pending,   \* chunks of the call in progress whose outcome is open
  stored,    \* chunks with a vector
  recorded   \* chunks the run has recorded as failed

vars == <<pending, stored, recorded>>

Init == pending = {} /\ stored = {} /\ recorded = {}

\* A call begins: what has an embedding is stored at once.  A chunk that a run
\* stored before it failed is still in the old file, and is asked again.
Ask ==
  /\ pending = {}
  /\ pending' \in SUBSET (Chunk \ (stored' \ stored))
  /\ stored \subseteq stored' /\ stored' \subseteq Chunk
  /\ recorded' = recorded

Record ==
  /\ \E failed \in (SUBSET pending) \ {{}} :
       /\ pending' = pending \ failed
       /\ recorded' = recorded \cup failed
  /\ stored' = stored

\* The rest of the call is stored; if that fails it is recorded, and what was
\* stored of it before is gone too.
Close ==
  /\ pending # {} /\ pending' = {}
  /\ \/ stored' = stored \cup pending /\ recorded' = recorded
     \/ stored' = stored \ pending /\ recorded' = recorded \cup pending

\* A run ends, well or not, and the next begins with no record of its own.
EndRun ==
  /\ recorded' = {} /\ pending' = {}
  /\ stored' = stored

Next == Ask \/ Record \/ Close \/ EndRun
Spec == Init /\ [][Next]_vars
=============================================================================
