----------------------------- MODULE MCRigWatch ------------------------------
(* One rig on a short clock: a report with nothing wrong and one with       *)
(* everything wrong.                                                         *)
EXTENDS RigWatch

MCReports ==
  {[sim |-> "featured", fault |-> FALSE, parked |-> 0, unsaved |-> FALSE, missing |-> FALSE,
    cpu |-> FALSE, memory |-> FALSE, version |-> "current", failed |-> FALSE],
   [sim |-> "off", fault |-> TRUE, parked |-> 1, unsaved |-> TRUE, missing |-> TRUE,
    cpu |-> TRUE, memory |-> TRUE, version |-> "old", failed |-> TRUE]}
=============================================================================
