---------------------------- MODULE MCIndexLock ----------------------------
(***************************************************************************)
(* Instances of IndexLock for TLC.                                         *)
(***************************************************************************)
EXTENDS IndexLock, TLC

CONSTANTS
  TokensPerProc,   \* UUIDs of one pid that exist at the same time
  Foreign          \* a process on another host that shares the directory

MCToken  == Proc \X (1 .. TokensPerProc)
MCPidOf  == [t \in MCToken |-> t[1]]
OneHost  == [p \in Proc |-> "host"]
LastApart == [p \in Proc |-> IF p = Foreign THEN "other" ELSE "host"]

\* Fault models.
AnyStep     == Steps \ {"down"}
NotClaiming == Steps \ (ReclaimSteps \cup {"down"})
Nobody      == {}
=============================================================================
