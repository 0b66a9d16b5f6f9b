---------------------------- MODULE MCRaceNight ------------------------------
(* The race on small sets.                                                   *)
EXTENDS RaceNight

Symmetry == Permutations(Rigs) \cup Permutations(Drivers)
=============================================================================
