------------------------------ MODULE MCTvWall ------------------------------
(* Model-checking instance of TvWall. A unit of time stands for 5 s.        *)
EXTENDS TvWall
CONSTANTS a, b, d1, d2
MCTrackOrder == <<a, b>>
MCEarlierLaps == {[driver |-> d1, track |-> a, day |-> 0, time |-> 2],
                  [driver |-> d2, track |-> b, day |-> -1, time |-> 1]}
MCMaxHappenings == [rotation |-> 2, event |-> 1]
=============================================================================
