---------------------------- MODULE MCRaceScreen -----------------------------
(* The live race's screen on small sets.                                     *)
EXTENDS RaceScreen
=============================================================================
