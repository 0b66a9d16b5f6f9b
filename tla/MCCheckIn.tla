------------------------------ MODULE MCCheckIn ------------------------------
(* TLC's instances of CheckIn.                                             *)
EXTENDS CheckIn, TLC

AllOrNothing == {{}, {"move", "takeover"}}
EverythingConfirmed == {{"move", "takeover"}}

(* Requests, drivers and rigs are interchangeable; stints are not, their   *)
(* order is the order of the lock pass.                                    *)
Alike == Permutations(Requests) \cup Permutations(Drivers) \cup Permutations(Rigs)
=============================================================================
