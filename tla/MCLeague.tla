------------------------------ MODULE MCLeague -------------------------------
(* League night on small sets.                                               *)
EXTENDS League, TLC

Symmetry == Permutations(Staff) \cup Permutations(Combos)
=============================================================================
