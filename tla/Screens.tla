------------------------------- MODULE Screens -------------------------------
(***************************************************************************)
(* What the public screens stand on: the venue's rigs, which TvWall knows  *)
(* by the tracks they are on and RaceScreen, on the wall's league board or *)
(* on the /league page, by their reports of a race.                        *)
(***************************************************************************)

CONSTANTS
  Rigs, \* the rigs; RaceScreen orders them by their numbers
  None  \* null
=============================================================================
