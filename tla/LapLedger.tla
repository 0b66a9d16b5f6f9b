------------------------------ MODULE LapLedger ------------------------------
(***************************************************************************)
(* What the rig and the backend together promise of a lap (docs/plan.md,   *)
(* "every lap is attributed to the correct driver, exactly once, and never *)
(* reassigned"): a lap is taken once, its owner is decided once, and it is *)
(* then recorded once - under that owner, or under nobody when the backend *)
(* cannot confirm that the owner was in the seat - or turned away for good *)
(* because the backend's schema refuses it.  Outbox implements this.       *)
(***************************************************************************)
CONSTANTS Laps, Owners, Refused, None, Undriven, Undecided

VARIABLES
  owner,    \* owner[l]: who the rig says drove l
  recorded, \* recorded[l]: the owners l was recorded under, in order
  away      \* the laps turned away

vars == <<owner, recorded, away>>

Init ==
  /\ owner = [l \in Laps |-> Undriven]
  /\ recorded = [l \in Laps |-> <<>>]
  /\ away = {}

Take(l) ==
  /\ owner[l] = Undriven
  /\ \E o \in Owners \cup {None, Undecided} : owner' = [owner EXCEPT ![l] = o]
  /\ UNCHANGED <<recorded, away>>

(* Every lap whose owner is still open is decided at once, by one answer.  *)
Decide ==
  /\ owner' \in [Laps -> Owners \cup {None, Undriven}]
  /\ \A l \in Laps : owner[l] # Undecided => owner'[l] = owner[l]
  /\ \E o \in Owners \cup {None} :
       \A l \in Laps : owner[l] = Undecided => owner'[l] \in {o, None}
  /\ UNCHANGED <<recorded, away>>

Record(l) ==
  /\ owner[l] \in Owners \cup {None}
  /\ recorded[l] = <<>>
  /\ l \notin Refused
  /\ \E o \in {owner[l], None} : recorded' = [recorded EXCEPT ![l] = <<o>>]
  /\ UNCHANGED <<owner, away>>

TurnAway ==
  /\ away' \in SUBSET Refused
  /\ away \subseteq away'
  /\ UNCHANGED <<owner, recorded>>

Next == Decide \/ TurnAway \/ \E l \in Laps : Take(l) \/ Record(l)

Spec == Init /\ [][Next]_vars
=============================================================================
