------------------------------ MODULE MCAlerts -------------------------------
(* Alerts on small sets.  The runs are interchangeable.                     *)
EXTENDS Alerts, TLC

Symmetry == Permutations(Runs)
=============================================================================
