---------------------------- MODULE MCAutoIndex ----------------------------
(***************************************************************************)
(* Instances of AutoIndex for TLC.                                         *)
(***************************************************************************)
EXTENDS AutoIndex

AllRequests == {Startup, Retrieval, Manual, Rebuild}

\* Automatic indexing is switched and the coordinator replaced; the battery
\* policy is switched; it is on throughout.
Plain   == [autos |-> BOOLEAN, policies |-> {FALSE}, coordinators |-> 3]
Battery == [autos |-> {TRUE}, policies |-> BOOLEAN, coordinators |-> 1]
Saving  == [autos |-> {TRUE}, policies |-> {TRUE}, coordinators |-> 1]

PlainOrBattery == {Plain, Battery}
OnlySaving == {Saving}
=============================================================================
