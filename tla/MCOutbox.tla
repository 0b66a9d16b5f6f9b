------------------------------ MODULE MCOutbox -------------------------------
(* Outbox on small sets.  The laps the schema accepts are interchangeable,  *)
(* and so are the owners and the requests.                                  *)
EXTENDS Outbox, TLC

Symmetry == Permutations(Laps \ Refused) \cup Permutations(Owners) \cup Permutations(Handlers)
=============================================================================
