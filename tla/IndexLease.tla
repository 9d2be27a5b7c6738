----------------------------- MODULE IndexLease -----------------------------
(***************************************************************************)
(* What the interprocess lease promises the code that mutates an index:    *)
(* one writer at a time; the work of a writer that was killed is handed to *)
(* the next writers until one of them has repaired it.                     *)
(***************************************************************************)
CONSTANT Token

VARIABLES
  holders,      \* the owners that may mutate the index: at most one
  unrecovered   \* the killed owners whose work is not repaired yet

lvars == <<holders, unrecovered>>

Init == holders = {} /\ unrecovered = {}

Acquire ==
  /\ holders = {}
  /\ \E t \in Token \ unrecovered : holders' = {t}
  /\ UNCHANGED unrecovered

\* A successful mutation has repaired the work of every killed owner.
Repair ==
  /\ holders # {}
  /\ unrecovered' = {}
  /\ UNCHANGED holders

Yield == holders' = {} /\ UNCHANGED unrecovered

Crash ==
  /\ holders # {}
  /\ holders' = {}
  /\ unrecovered' = unrecovered \cup holders

Next == Acquire \/ Repair \/ Yield \/ Crash

Spec == Init /\ [][Next]_lvars
=============================================================================
