------------------------------- MODULE MCIssues -------------------------------
EXTENDS Issues, TLC

(* Runs are alike.                                                         *)
Symmetry == Permutations(Runs)
=============================================================================
