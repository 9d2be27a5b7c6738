------------------------------ MODULE Retrieval ------------------------------
(***************************************************************************)
(* How an index is read while it is written, and what is made of what has  *)
(* been read: communities and the impact of a change, context search and   *)
(* the edit context.  The parts share no variable: in a behaviour one part *)
(* acts and the others stay where they began.                              *)
(***************************************************************************)
EXTENDS Readers, Communities, ContextSearch, EditContext

VARIABLE part   \* the part that acts

Parts == {"readers", "impact", "context", "edit"}

RetrievalInit ==
  /\ part \in Parts
  /\ ReadersInit /\ ImpactInit /\ ContextInit
  /\ index \in (IF part = "edit" THEN Indexes ELSE {CHOOSE i \in Indexes : TRUE})
  /\ EditInit

Still(p) ==
  /\ p # "readers" => UNCHANGED readersVars
  /\ p # "impact" => UNCHANGED impactVars
  /\ p # "context" => UNCHANGED contextVars
  /\ p # "edit" => UNCHANGED editVars
  /\ UNCHANGED part

RetrievalNext ==
  \/ part = "readers" /\ ReadersNext /\ Still("readers")
  \/ part = "impact" /\ ImpactNext /\ Still("impact")
  \/ part = "context" /\ ContextNext /\ Still("context")
  \/ part = "edit" /\ EditNext /\ Still("edit")

RetrievalSpec ==
  RetrievalInit
  /\ [][RetrievalNext]_<<part, readersVars, impactVars, contextVars, editVars>>
=============================================================================
