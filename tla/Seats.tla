-------------------------------- MODULE Seats --------------------------------
(***************************************************************************)
(* What the rig assignments promise: who sits at which rig, at most one    *)
(* driver to a rig and one rig to a driver, changed by whole check-ins and *)
(* whole sign-outs only.  CheckIn implements this.                         *)
(***************************************************************************)
CONSTANTS Drivers, Rigs, Nobody

VARIABLE seat  \* seat[r]: the driver checked in at rig r, or Nobody

Init == seat = [r \in Rigs |-> Nobody]

(* d leaves the rig it was at, if any, and takes r from whoever was there. *)
Arrive(d, r) ==
  /\ seat[r] # d /\ seat'[r] = d
  /\ seat' = [q \in Rigs |-> IF q = r THEN d
                             ELSE IF seat[q] = d THEN Nobody ELSE seat[q]]

Leave(r) ==
  /\ seat[r] # Nobody /\ seat'[r] = Nobody
  /\ seat' = [seat EXCEPT ![r] = Nobody]

Next == \E r \in Rigs : Leave(r) \/ \E d \in Drivers : Arrive(d, r)

Spec == Init /\ [][Next]_seat
=============================================================================
