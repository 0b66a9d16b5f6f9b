------------------------------ MODULE MCRigSeat ------------------------------
(* RigSeat on small sets.  Drivers, stints and laps are interchangeable.   *)
EXTENDS RigSeat, TLC

Symmetry == Permutations(Drivers) \cup Permutations(Stints) \cup Permutations(Laps)
=============================================================================
