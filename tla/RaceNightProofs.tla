--------------------------- MODULE RaceNightProofs ---------------------------
(***************************************************************************)
(* Proofs about RaceNight for any rigs, drivers, races, reports, saves and *)
(* incidents: staff's result is the last word on the round and loses no    *)
(* place they were not shown, a rig's place in a race stays with whoever   *)
(* it was captured for, a settled place is the finish, and the round's     *)
(* race is the one a place was first captured in.                          *)
(*                                                                         *)
(* The argument: between two saves a driver's row stays, or follows its    *)
(* own rig's car while it is a captured one, or appears for a rig whose    *)
(* place nobody holds while staff have saved nothing (RowEvolves, RowSteps *)
(* for whose).  So staff's rows are all of the rows or none of them; what  *)
(* a report says of a car that finished stays true (FinishSound); every    *)
(* captured place is of one race, heard from two rigs (RaceSound); and a   *)
(* row stamped no later than a review's newest is in it (ReviewSound).     *)
(***************************************************************************)
EXTENDS RaceNight, FiniteSetTheorems, WellFoundedInduction, TLAPS

Request ==
  [rig : Rigs, session : Races, state : {"green", "flag", "cool"}, place : Nat, laps : Nat,
   sampled : Nat, at : {"site", "start", "finish"}, driver : Drivers \cup {None}, prompt : BOOLEAN]

Report ==
  [session : Races, place : Nat, laps : Nat, driver : Drivers \cup {None}]

VenueTyped ==
  /\ phase \in [Races -> {"green", "flag", "cool"}]
  /\ cars \in [Rigs -> [Races -> Car \cup {None}]]
  /\ session \in [Rigs -> Races \cup {0}]
  /\ seat \in [Rigs -> Drivers \cup {None}]
  /\ sent \in [Rigs -> Nat]
  /\ counts \in [saves : Nat, incidents : Nat]

ReportsTyped ==
  /\ requests \subseteq Request
  /\ status \in [Rigs -> Report \cup {None}]

RowsTyped ==
  /\ stamps \in Nat
  /\ results \in [Drivers -> ResultRow \cup {None}]

(* Once staff have saved, every row of the round is theirs.                *)
AllOrNoneOfStaff ==
  \A d, e \in Drivers :
    results[d] # None /\ results[e] # None /\ results[d].source = "staff" => results[e].source = "staff"

RaceTyped == VenueTyped /\ ReportsTyped /\ RowsTyped

(* What becomes of one driver's row in a step that saves nothing.          *)
RowEvolves(d) ==
  \/ results'[d] = results[d]
  \/ /\ results[d] # None /\ results'[d] # None
     /\ results[d].source = "flag" /\ results'[d].source = "flag"
     /\ results'[d].rig = results[d].rig
     /\ results'[d].session = results[d].session
  \/ /\ results[d] = None /\ results'[d] # None
     /\ ~StaffSaved
     /\ results'[d].source \in {"flag", "close"}
     /\ ~PlaceHeld(results'[d].rig, results'[d].session)

ResultsEvolve ==
  /\ results' \in [Drivers -> ResultRow \cup {None}]
  /\ \A d \in Drivers : RowEvolves(d)

-----------------------------------------------------------------------------
LEMMA RigsAreFinite == IsFiniteSet(Rigs)
BY RaceNightAssumption DEF RaceNightAssumption

LEMMA NoneIsNoRow == None \notin ResultRow /\ None \notin Car /\ None \notin Nat
BY RaceNightAssumption DEF RaceNightAssumption

LEMMA RacesAreNumbers == Races \subseteq Nat
BY RaceNightAssumption DEF RaceNightAssumption

LEMMA FinishedOrRunning ==
  ASSUME NEW S \in SUBSET Rigs
  PROVE  1 + Cardinality(S) \in Nat
<1>1. IsFiniteSet(S) /\ Cardinality(S) \in Nat
  BY RigsAreFinite, FS_Subset, FS_CardinalityType
<1> QED
  BY <1>1

LEMMA TypedInit == Init => RaceTyped
<1> SUFFICES ASSUME Init PROVE RaceTyped
  OBVIOUS
<1>1. VenueTyped
  BY DEF Init, VenueTyped
<1>2. ReportsTyped /\ RowsTyped
  BY DEF Init, ReportsTyped, RowsTyped
<1> QED
  BY <1>1, <1>2 DEF RaceTyped

LEMMA CarInTyped ==
  ASSUME VenueTyped, NEW r \in Rigs, NEW s \in Races
  PROVE  CarIn(r, s) \in Car
<1> DEFINE running == {q \in Rigs : cars[q][s] # None /\ cars[q][s].laps = 0}
<1>1. 1 + Cardinality(running) \in Nat
  BY FinishedOrRunning
<1> HIDE DEF running
<1>2. [place |-> 1 + Cardinality(running), laps |-> 0] \in Car
  BY <1>1 DEF Car
<1>3. cars[r][s] # None => cars[r][s] \in Car
  BY DEF VenueTyped
<1> QED
  BY <1>2, <1>3 DEF CarIn, running

(* The venue's own steps and what a request leaves alone.                  *)
LEMMA VenueTypedStep ==
  ASSUME RaceTyped, [Next]_vars
  PROVE  VenueTyped'
<1> USE DEF RaceTyped
<1>1. ASSUME NEW r \in Rigs, Cross(r) PROVE VenueTyped'
  <2> DEFINE s == session[r]
             over == {q \in Rigs : cars[q][s] # None /\ cars[q][s].laps = 1}
             car == [place |-> 1 + Cardinality(over), laps |-> 1]
  <2>1. s \in Races
    BY <1>1 DEF Cross, VenueTyped
  <2>2. 1 + Cardinality(over) \in Nat
    BY FinishedOrRunning
  <2>3. car \in Car
    BY <2>2 DEF Car
  <2>4. /\ phase' = [phase EXCEPT ![s] = "flag"]
        /\ cars' = [cars EXCEPT ![r][s] = car]
        /\ UNCHANGED <<session, seat, sent, counts>>
    BY <1>1 DEF Cross, feed
  <2> HIDE DEF s, over, car
  <2> QED
    BY <2>1, <2>3, <2>4 DEF VenueTyped
<1>2. ASSUME NEW s \in Races, CoolDown(s) PROVE VenueTyped'
  BY <1>2 DEF CoolDown, feed, VenueTyped
<1>3. ASSUME NEW d \in Drivers \cup {None}, NEW r \in Rigs, Seat(d, r) PROVE VenueTyped'
  BY <1>3 DEF Seat, Incident, feed, VenueTyped
<1>4. ASSUME NEW r \in Rigs, NEW s \in Races, NEW prompt \in BOOLEAN, Send(r, s, prompt) PROVE VenueTyped'
  <2>1. PICK car \in Car : car = CarIn(r, s)
    BY CarInTyped
  <2>2. /\ session' = [session EXCEPT ![r] = s]
        /\ sent' = [sent EXCEPT ![r] = @ + 1]
        /\ cars' = [cars EXCEPT ![r][s] = car]
        /\ UNCHANGED <<phase, seat>>
        /\ UNCHANGED counts \/ Incident
    BY <1>4, <2>1 DEF Send
  <2> QED
    BY <2>1, <2>2 DEF VenueTyped, Incident
<1>5. ASSUME NEW finishers, NEW dnf, Save(finishers, dnf) PROVE VenueTyped'
  BY <1>5 DEF Save, world, feed, VenueTyped
<1>6. ASSUME NEW q \in requests, Serve(q) PROVE VenueTyped'
  BY <1>6 DEF Serve, Store, HearStart, Drop, Capture, world, VenueTyped
<1>7. ASSUME Review \/ CloseRound \/ UNCHANGED vars PROVE VenueTyped'
  BY <1>7 DEF Review, CloseRound, vars, world, feed, VenueTyped
<1> QED
  BY <1>1, <1>2, <1>3, <1>4, <1>5, <1>6, <1>7 DEF Next

LEMMA ReportsTypedStep ==
  ASSUME RaceTyped, [Next]_vars
  PROVE  ReportsTyped'
<1> USE DEF RaceTyped
<1>1. ASSUME NEW r \in Rigs, NEW s \in Races, NEW prompt \in BOOLEAN, Send(r, s, prompt) PROVE ReportsTyped'
  <2>1. PICK car \in Car : car = CarIn(r, s)
    BY CarInTyped
  <2> DEFINE q == [rig |-> r, session |-> s, state |-> phase[s], place |-> car.place, laps |-> car.laps,
                   sampled |-> sent[r] + 1, at |-> "site", driver |-> None, prompt |-> prompt]
  <2>2. q \in Request
    BY <2>1 DEF Request, Car, VenueTyped
  <2>3. requests' = requests \cup {q} /\ status' = status
    BY <1>1, <2>1 DEF Send
  <2> HIDE DEF q
  <2> QED
    BY <2>2, <2>3 DEF ReportsTyped
<1>2. ASSUME NEW q \in requests, Store(q) \/ HearStart(q) PROVE ReportsTyped'
  <2>1. q \in Request /\ q.rig \in Rigs /\ seat[q.rig] \in Drivers \cup {None}
    BY DEF ReportsTyped, VenueTyped, Request
  <2>2. Stored(q) \in Report
    BY <2>1 DEF Stored, Report, Request
  <2> DEFINE stored == [q EXCEPT !.at = "start", !.driver = seat[q.rig]]
  <2>3. \A p \in {stored, [stored EXCEPT !.at = "finish"], [q EXCEPT !.at = "finish"]} : p \in Request
    BY <2>1 DEF Request
  <2>4. requests' \subseteq requests \cup {stored, [stored EXCEPT !.at = "finish"], [q EXCEPT !.at = "finish"]}
    BY <1>2 DEF Store, HearStart, Onward
  <2>5. status' \in {status, [status EXCEPT ![q.rig] = Stored(q)]}
    BY <1>2 DEF Store, HearStart
  <2> QED
    BY <2>1, <2>2, <2>3, <2>4, <2>5 DEF ReportsTyped
<1>3. ASSUME NEW q \in requests, Drop(q) \/ Capture(q) PROVE ReportsTyped'
  BY <1>3 DEF Drop, Capture, ReportsTyped
<1>4. ASSUME NEW finishers, NEW dnf, Save(finishers, dnf) PROVE ReportsTyped'
  BY <1>4 DEF Save, feed, ReportsTyped
<1>5. ASSUME NEW r \in Rigs, Cross(r) PROVE ReportsTyped'
  BY <1>5 DEF Cross, feed, ReportsTyped
<1>6. ASSUME NEW s, CoolDown(s) PROVE ReportsTyped'
  BY <1>6 DEF CoolDown, feed, ReportsTyped
<1>7. ASSUME NEW d, NEW r, Seat(d, r) PROVE ReportsTyped'
  BY <1>7 DEF Seat, feed, ReportsTyped
<1>8. ASSUME Review \/ CloseRound \/ UNCHANGED vars PROVE ReportsTyped'
  BY <1>8 DEF Review, CloseRound, vars, feed, ReportsTyped
<1> QED
  BY <1>1, <1>2, <1>3, <1>4, <1>5, <1>6, <1>7, <1>8 DEF Next, Serve

-----------------------------------------------------------------------------
LEMMA NothingRecorded ==
  ASSUME RowsTyped, results' = results
  PROVE  ResultsEvolve
BY DEF RowsTyped, ResultsEvolve, RowEvolves

LEMMA PlaceCaptured ==
  ASSUME RaceTyped, NEW q \in requests, q.driver # None, CapturePlace(q)
  PROVE  ResultsEvolve /\ stamps' \in Nat
<1> USE DEF RaceTyped
<1>1. /\ q.driver \in Drivers /\ q.rig \in Rigs /\ q.session \in Races /\ q.place \in Nat /\ q.laps \in Nat
      /\ Settles(q) \in BOOLEAN
  BY DEF ReportsTyped, Request, Settles
<1>2. stamps \in Nat /\ stamps + 1 \in Nat /\ results[q.driver] \in ResultRow \cup {None}
  BY <1>1 DEF RowsTyped
<1>3. CASE /\ q.session = RaceSession
           /\ ~StaffSaved
           /\ ~PlaceHeld(q.rig, q.session)
           /\ results[q.driver] = None
  <2> DEFINE row == [place |-> q.place, source |-> "flag", rig |-> q.rig, session |-> q.session,
                     laps |-> q.laps, at |-> stamps + 1, final |-> Settles(q)]
  <2>1. row \in ResultRow /\ row.source = "flag" /\ row.rig = q.rig /\ row.session = q.session
    BY <1>1, <1>2 DEF ResultRow
  <2>2. results' = [results EXCEPT ![q.driver] = row] /\ stamps' = stamps + 1
    BY <1>3 DEF CapturePlace
  <2> HIDE DEF row
  <2>3. row # None
    BY <2>1, NoneIsNoRow
  <2>4. \A d \in Drivers : RowEvolves(d)
    BY <1>1, <1>3, <2>1, <2>2, <2>3 DEF RowEvolves, RowsTyped
  <2> QED
    BY <1>1, <1>2, <2>1, <2>2, <2>4 DEF ResultsEvolve, RowsTyped
<1>4. CASE /\ results[q.driver] # None
           /\ results[q.driver].rig = q.rig /\ results[q.driver].session = q.session
           /\ results[q.driver].source = "flag" /\ ~results[q.driver].final
  <2>1. PICK held \in ResultRow : held = results[q.driver]
    BY <1>2, <1>4
  <2> DEFINE row == Follows(held, q)
  <2>2. row \in ResultRow /\ row.source = held.source /\ row.rig = held.rig /\ row.session = held.session
    BY <1>1, <1>2 DEF Follows, ResultRow
  <2>3. /\ results' = [results EXCEPT ![q.driver] = row]
        /\ stamps' \in {stamps, stamps + 1}
    BY <1>4, <2>1 DEF CapturePlace
  <2> HIDE DEF row
  <2>4. row # None
    BY <2>2, NoneIsNoRow
  <2>5. \A d \in Drivers : RowEvolves(d)
    BY <1>1, <1>4, <2>1, <2>2, <2>3, <2>4 DEF RowEvolves, RowsTyped
  <2> QED
    BY <1>1, <1>2, <2>2, <2>3, <2>5 DEF ResultsEvolve, RowsTyped
<1>5. CASE CaptureNothing
  BY <1>2, <1>5, NothingRecorded DEF CaptureNothing
<1> QED
  BY <1>3, <1>4, <1>5 DEF CapturePlace

LEMMA RoundSwept ==
  ASSUME RaceTyped, CloseRound
  PROVE  ResultsEvolve /\ stamps' \in Nat
<1> USE DEF RaceTyped
<1> DEFINE Rig(d) == CHOOSE r \in LatestOf(d) : TRUE
           row(d) == [place |-> status[Rig(d)].place, source |-> "close", rig |-> Rig(d),
                      session |-> status[Rig(d)].session, laps |-> status[Rig(d)].laps,
                      at |-> stamps + 1, final |-> TRUE]
<1>1. stamps' \in Nat /\ stamps + 1 \in Nat
  BY DEF CloseRound, RowsTyped
<1>2. results' = [d \in Drivers |-> IF results[d] # None \/ LatestOf(d) = {} THEN results[d] ELSE row(d)]
  BY DEF CloseRound
<1>3. ASSUME NEW d \in Drivers, LatestOf(d) # {}
      PROVE  /\ row(d) \in ResultRow
             /\ row(d).source = "close" /\ row(d).rig = Rig(d) /\ row(d).session = status[Rig(d)].session
             /\ ~StaffSaved /\ ~PlaceHeld(Rig(d), status[Rig(d)].session)
  <2>1. Rig(d) \in LatestOf(d)
    BY <1>3
  <2>2. PICK r \in Rigs : r = Rig(d) /\ r \in Swept
    BY <2>1 DEF LatestOf, Swept
  <2>3. status[r] \in Report
    BY <2>2 DEF Swept, ReportsTyped
  <2>4. status[r].place \in Nat /\ status[r].laps \in Nat /\ status[r].session \in Races
    BY <2>3 DEF Report
  <2> HIDE DEF Rig
  <2>5. row(d) \in ResultRow
    BY <1>1, <2>2, <2>4 DEF ResultRow
  <2> QED
    BY <2>2, <2>5 DEF Swept
<1> HIDE DEF row, Rig
<1>4. ASSUME NEW d \in Drivers PROVE RowEvolves(d) /\ results'[d] \in ResultRow \cup {None}
  <2>1. CASE results[d] # None \/ LatestOf(d) = {}
    BY <1>2, <2>1 DEF RowEvolves, RowsTyped
  <2>2. CASE results[d] = None /\ LatestOf(d) # {}
    <3>1. results'[d] = row(d)
      BY <1>2, <2>2
    <3> QED
      BY <1>3, <2>2, <3>1, NoneIsNoRow DEF RowEvolves
  <2> QED
    BY <2>1, <2>2
<1> QED
  BY <1>1, <1>2, <1>4 DEF ResultsEvolve

(* A save counts itself, so a step that is not counted is none.            *)
LEMMA SavesAreCounted ==
  ASSUME VenueTyped, NEW finishers, NEW dnf, Save(finishers, dnf)
  PROVE  Saving
<1>1. counts.saves \in Nat /\ counts'.saves = counts.saves + 1
  BY DEF VenueTyped, Save
<1> QED
  BY <1>1 DEF Saving

LEMMA BetweenSaves ==
  ASSUME RaceTyped, [Next]_vars, ~Saving
  PROVE  ResultsEvolve /\ stamps' \in Nat
<1> USE DEF RaceTyped
<1>0. stamps \in Nat /\ stamps + 1 \in Nat
  BY DEF RowsTyped
<1>1. ASSUME NEW q \in requests, Capture(q) PROVE ResultsEvolve /\ stamps' \in Nat
  <2>1. CASE round # "open"
    BY <1>0, <1>1, <2>1, NothingRecorded DEF Capture, CaptureNothing
  <2>2. CASE round = "open" /\ q.driver = None
    BY <1>0, <1>1, <2>2, NothingRecorded DEF Capture, CaptureEmptySeat
  <2>3. CASE round = "open" /\ q.driver # None
    BY <1>1, <2>3, PlaceCaptured DEF Capture
  <2> QED
    BY <2>1, <2>2, <2>3
<1>2. ASSUME NEW q \in requests, Store(q) \/ HearStart(q) \/ Drop(q) PROVE ResultsEvolve /\ stamps' \in Nat
  BY <1>0, <1>2, NothingRecorded DEF Store, HearStart, Drop, night
<1>3. ASSUME NEW r, Cross(r) PROVE ResultsEvolve /\ stamps' \in Nat
  BY <1>0, <1>3, NothingRecorded DEF Cross, night
<1>4. ASSUME NEW r, NEW s, NEW prompt, Send(r, s, prompt) PROVE ResultsEvolve /\ stamps' \in Nat
  BY <1>0, <1>4, NothingRecorded DEF Send, night
<1>5. ASSUME NEW s, CoolDown(s) PROVE ResultsEvolve /\ stamps' \in Nat
  BY <1>0, <1>5, NothingRecorded DEF CoolDown, night
<1>6. ASSUME NEW d, NEW r, Seat(d, r) PROVE ResultsEvolve /\ stamps' \in Nat
  BY <1>0, <1>6, NothingRecorded DEF Seat, night
<1>7. ASSUME Review \/ UNCHANGED vars PROVE ResultsEvolve /\ stamps' \in Nat
  BY <1>0, <1>7, NothingRecorded DEF Review, vars, night
<1>8. ASSUME NEW finishers, NEW dnf, Save(finishers, dnf) PROVE FALSE
  BY <1>8, SavesAreCounted
<1> QED
  BY <1>1, <1>2, <1>3, <1>4, <1>5, <1>6, <1>7, <1>8, RoundSwept DEF Next, Serve

-----------------------------------------------------------------------------
(* The rows staff save.                                                    *)
LEMMA StaffRowIsStaffs ==
  ASSUME RowsTyped, NEW d \in Drivers, NEW place \in Nat \cup {None}
  PROVE  StaffRow(d, place) \in ResultRow /\ StaffRow(d, place).source = "staff"
<1>1. stamps + 1 \in Nat
  BY DEF RowsTyped
<1>2. CASE results[d] = None
  BY <1>1, <1>2 DEF StaffRow, ResultRow
<1>3. CASE results[d] # None
  <2>1. PICK row \in ResultRow : row = results[d]
    BY <1>3 DEF RowsTyped
  <2>2. StaffRow(d, place) = [row EXCEPT !.place = place, !.source = "staff", !.at = stamps + 1]
    BY <1>3, <2>1 DEF StaffRow
  <2> QED
    BY <1>1, <2>2 DEF ResultRow
<1> QED
  BY <1>2, <1>3

LEMMA RowsSaved ==
  ASSUME RaceTyped, NEW S, NEW finishers \in Orders(S), NEW dnf, Save(finishers, dnf)
  PROVE  /\ stamps' \in Nat
         /\ results' \in [Drivers -> ResultRow \cup {None}]
         /\ \A d \in Drivers : results'[d] = None \/ results'[d].source = "staff"
<1> USE DEF RaceTyped
<1> DEFINE placed == {finishers[i] : i \in DOMAIN finishers}
           PlaceOf(d) == IF d \in dnf THEN None ELSE CHOOSE i \in DOMAIN finishers : finishers[i] = d
<1>1. stamps' \in Nat
  BY DEF Save, RowsTyped
<1>2. results' = [d \in Drivers |-> IF d \in placed \cup dnf THEN StaffRow(d, PlaceOf(d)) ELSE None]
  BY DEF Save
<1>3. DOMAIN finishers \subseteq Nat
  BY DEF Orders
<1>4. \A d \in placed \cup dnf : PlaceOf(d) \in Nat \cup {None}
  BY <1>3
<1> HIDE DEF placed, PlaceOf
<1>5. \A d \in Drivers \cap (placed \cup dnf) :
        StaffRow(d, PlaceOf(d)) \in ResultRow /\ StaffRow(d, PlaceOf(d)).source = "staff"
  BY <1>4, StaffRowIsStaffs
<1> QED
  BY <1>1, <1>2, <1>5

(* Nothing else is counted as a save.                                      *)
LEMMA OnlySavesAreCounted ==
  ASSUME VenueTyped, [Next]_vars, Saving
  PROVE  \E finishers \in Orders(InRound) : \E dnf : Save(finishers, dnf)
<1>1. ASSUME Incident PROVE counts'.saves = counts.saves
  BY <1>1 DEF Incident, VenueTyped
<1>2. ASSUME NEW q \in requests, Serve(q) PROVE counts' = counts
  BY <1>2 DEF Serve, Store, HearStart, Drop, Capture
<1>3. ASSUME NEW r, Cross(r) PROVE counts' = counts
  BY <1>3 DEF Cross
<1>4. ASSUME NEW r, NEW s, NEW prompt, Send(r, s, prompt) PROVE counts' = counts \/ Incident
  BY <1>4 DEF Send
<1>5. ASSUME NEW s, CoolDown(s) PROVE counts' = counts
  BY <1>5 DEF CoolDown
<1>6. ASSUME NEW d, NEW r, Seat(d, r) PROVE Incident
  BY <1>6 DEF Seat
<1>7. ASSUME Review \/ CloseRound \/ UNCHANGED vars PROVE counts' = counts
  BY <1>7 DEF Review, CloseRound, vars
<1> QED
  BY <1>1, <1>2, <1>3, <1>4, <1>5, <1>6, <1>7 DEF Next, Saving

LEMMA RowsTypedStep ==
  ASSUME RaceTyped, [Next]_vars
  PROVE  RowsTyped'
<1>1. CASE ~Saving
  BY <1>1, BetweenSaves DEF ResultsEvolve, RowsTyped
<1>2. ASSUME NEW finishers \in Orders(InRound), NEW dnf, Save(finishers, dnf) PROVE RowsTyped'
  BY <1>2, RowsSaved DEF RowsTyped
<1>3. CASE Saving
  BY <1>2, <1>3, OnlySavesAreCounted DEF RaceTyped
<1> QED
  BY <1>1, <1>3

LEMMA TypedStep ==
  ASSUME RaceTyped, [Next]_vars
  PROVE  RaceTyped'
BY VenueTypedStep, ReportsTypedStep, RowsTypedStep DEF RaceTyped

LEMMA StaffSavedMeans ==
  ASSUME RowsTyped
  PROVE  StaffSaved <=> \E d \in Drivers : results[d] # None /\ results[d].source = "staff"
BY DEF StaffSaved, Rows

LEMMA AllOrNoneStep ==
  ASSUME RaceTyped, AllOrNoneOfStaff, [Next]_vars
  PROVE  AllOrNoneOfStaff'
<1>1. CASE ~Saving
  <2>1. \A d \in Drivers : RowEvolves(d)
    BY <1>1, BetweenSaves DEF ResultsEvolve
  <2> SUFFICES ASSUME NEW d \in Drivers, NEW e \in Drivers, results'[d] # None, results'[e] # None,
                      results'[d].source = "staff"
               PROVE  results'[e].source = "staff"
    BY DEF AllOrNoneOfStaff
  <2>2. results'[d] = results[d] /\ StaffSaved
    BY <2>1, StaffSavedMeans DEF RowEvolves, RaceTyped
  <2>3. results[e] # None => results[e].source = "staff"
    BY <2>2 DEF AllOrNoneOfStaff
  <2> QED
    BY <2>1, <2>2, <2>3 DEF RowEvolves
<1>2. CASE Saving
  <2>1. PICK finishers \in Orders(InRound) : \E dnf : Save(finishers, dnf)
    BY <1>2, OnlySavesAreCounted DEF RaceTyped
  <2>2. \A d \in Drivers : results'[d] = None \/ results'[d].source = "staff"
    BY <2>1, RowsSaved
  <2> QED
    BY <2>2 DEF AllOrNoneOfStaff
<1> QED
  BY <1>1, <1>2

(* What HolderStands says of one step.                                     *)
LEMMA HoldersStay ==
  ASSUME RaceTyped, [Next]_vars, ~Saving, NEW r \in Rigs, NEW s \in Races,
         HoldersOf(r, s) # {} \/ [rig |-> r, session |-> s] \in unsigned
  PROVE  HoldersOf(r, s)' = HoldersOf(r, s)
<1>1. \A d \in Drivers : RowEvolves(d)
  BY BetweenSaves DEF ResultsEvolve
<1>2. PlaceHeld(r, s)
  BY DEF HoldersOf, PlaceHeld, Rows
<1>3. ASSUME NEW d \in Drivers PROVE d \in HoldersOf(r, s)' <=> d \in HoldersOf(r, s)
  BY <1>1, <1>2 DEF RowEvolves, HoldersOf
<1> QED
  BY <1>3 DEF HoldersOf

-----------------------------------------------------------------------------
(* The venue, the reports and the rows of the round keep their types.      *)
THEOREM RaceIsTyped == Spec => []RaceTyped
BY TypedInit, TypedStep, PTL DEF Spec

(* Once staff have saved a result, every row of the round is staff's: no   *)
(* captured row is left for a report to move (saveRaceResult deletes the   *)
(* rest, and no capture inserts beside it).                                *)
THEOREM StaffRowsAreAllOrNone == Spec => []AllOrNoneOfStaff
<1>1. Init => AllOrNoneOfStaff
  BY DEF Init, AllOrNoneOfStaff
<1>2. RaceTyped /\ AllOrNoneOfStaff /\ [Next]_vars => AllOrNoneOfStaff'
  BY AllOrNoneStep
<1> QED
  BY <1>1, <1>2, RaceIsTyped, PTL DEF Spec

(* Once staff have saved a result, no capture that was on its way and no   *)
(* sweep at the close changes it.                                          *)
THEOREM StaffsResultIsLast == Spec => StaffHaveTheLastWord
<1> DEFINE Step == ~Saving /\ StaffSaved => results' = results
<1>1. ASSUME RaceTyped, AllOrNoneOfStaff, [Next]_vars, ~Saving, StaffSaved PROVE results' = results
  <2>1. results' \in [Drivers -> ResultRow \cup {None}] /\ \A d \in Drivers : RowEvolves(d)
    BY <1>1, BetweenSaves DEF ResultsEvolve
  <2>2. \A d \in Drivers : results[d] # None => results[d].source = "staff"
    BY <1>1, StaffSavedMeans DEF AllOrNoneOfStaff, RaceTyped
  <2>3. \A d \in Drivers : results'[d] = results[d]
    BY <1>1, <2>1, <2>2 DEF RowEvolves
  <2> QED
    BY <1>1, <2>1, <2>3 DEF RaceTyped, RowsTyped
<1>2. RaceTyped /\ AllOrNoneOfStaff /\ [Next]_vars => [Step]_vars
  BY <1>1
<1> QED
  BY <1>2, RaceIsTyped, StaffRowsAreAllOrNone, PTL DEF Spec, StaffHaveTheLastWord

(* Whose place of a rig in a race was captured, or nobody's, stays so      *)
(* whoever signs in on that rig later, until staff correct the result.     *)
THEOREM PlacesAreNotInherited == Spec => HolderStands
<1> DEFINE Step == ~Saving => \A r \in Rigs, s \in Races :
                     HoldersOf(r, s) # {} \/ [rig |-> r, session |-> s] \in unsigned
                     => HoldersOf(r, s)' = HoldersOf(r, s)
<1>1. RaceTyped /\ [Next]_vars => [Step]_vars
  BY HoldersStay
<1> QED
  BY <1>1, RaceIsTyped, PTL DEF Spec, HolderStands

-----------------------------------------------------------------------------
(* A settled place is the finish.  A car crosses the line once and not in  *)
(* cool-down, so what a report says of a car that has crossed, or that     *)
(* cools down, stays true, however late it is served.                      *)

CarsCrossOnce == \A r \in Rigs, s \in Races : cars[r][s] # None => cars[r][s].laps \in {0, 1}

ReportSound(q) ==
  /\ cars[q.rig][q.session] # None
  /\ q.laps \in {0, 1}
  /\ q.laps = 1 => cars[q.rig][q.session].laps = 1
  /\ q.state = "cool" => phase[q.session] = "cool"
  /\ q.laps = 1 \/ q.state = "cool" => q.place = cars[q.rig][q.session].place

RowSound(row) ==
  /\ row.rig \in Rigs /\ row.session \in Races /\ row.laps \in Nat
  /\ cars[row.rig][row.session] # None
  /\ row.final => /\ row.place = cars[row.rig][row.session].place
                  /\ cars[row.rig][row.session].laps = 1 \/ phase[row.session] = "cool"

FinishSound ==
  /\ CarsCrossOnce
  /\ \A q \in requests : ReportSound(q)
  /\ \A d \in Drivers : results[d] # None /\ results[d].source = "flag" => RowSound(results[d])

(* What the venue's steps leave of a car and its race.                     *)
CarStays(r, s) ==
  /\ cars[r][s] # None
  /\ cars'[r][s] # None
  /\ phase[s] = "cool" => phase'[s] = "cool"
  /\ cars[r][s].laps = 1 \/ phase[s] = "cool" => cars'[r][s] = cars[r][s]

LEMMA CarsStep ==
  ASSUME RaceTyped, CarsCrossOnce, [Next]_vars
  PROVE  /\ CarsCrossOnce'
         /\ \A r \in Rigs, s \in Races : cars[r][s] # None => CarStays(r, s)
<1> USE DEF RaceTyped
<1>1. ASSUME UNCHANGED <<phase, cars>>
      PROVE  /\ CarsCrossOnce'
             /\ \A r \in Rigs, s \in Races : cars[r][s] # None => CarStays(r, s)
  BY <1>1 DEF CarsCrossOnce, CarStays
<1>2. ASSUME NEW r \in Rigs, Cross(r)
      PROVE  /\ CarsCrossOnce'
             /\ \A q \in Rigs, s \in Races : cars[q][s] # None => CarStays(q, s)
  <2> DEFINE s == session[r]
             over == {q \in Rigs : cars[q][s] # None /\ cars[q][s].laps = 1}
             car == [place |-> 1 + Cardinality(over), laps |-> 1]
  <2>1. s \in Races
    BY <1>2 DEF Cross, VenueTyped
  <2>2. 1 + Cardinality(over) \in Nat
    BY FinishedOrRunning
  <2>3. car \in Car /\ car.laps = 1
    BY <2>2 DEF Car
  <2>4. /\ phase' = [phase EXCEPT ![s] = "flag"]
        /\ cars' = [cars EXCEPT ![r][s] = car]
        /\ cars[r][s].laps = 0 /\ phase[s] # "cool"
    BY <1>2 DEF Cross
  <2> HIDE DEF s, over, car
  <2>5. car # None
    BY <2>3, NoneIsNoRow
  <2>6. \A q \in Rigs, t \in Races : cars'[q][t] = IF q = r /\ t = s THEN car ELSE cars[q][t]
    BY <2>1, <2>4 DEF VenueTyped
  <2>7. \A t \in Races : phase'[t] = IF t = s THEN "flag" ELSE phase[t]
    BY <2>1, <2>4 DEF VenueTyped
  <2> QED
    BY <2>3, <2>4, <2>5, <2>6, <2>7 DEF CarsCrossOnce, CarStays
<1>3. ASSUME NEW s \in Races, CoolDown(s)
      PROVE  /\ CarsCrossOnce'
             /\ \A r \in Rigs, t \in Races : cars[r][t] # None => CarStays(r, t)
  BY <1>3 DEF CoolDown, CarsCrossOnce, CarStays, VenueTyped
<1>4. ASSUME NEW r \in Rigs, NEW s \in Races, NEW prompt \in BOOLEAN, Send(r, s, prompt)
      PROVE  /\ CarsCrossOnce'
             /\ \A q \in Rigs, t \in Races : cars[q][t] # None => CarStays(q, t)
  <2>1. PICK car \in Car : car = CarIn(r, s)
    BY CarInTyped
  <2>2. cars[r][s] # None => car = cars[r][s]
    BY <2>1 DEF CarIn
  <2>3. cars[r][s] = None => car.laps = 0
    BY <2>1 DEF CarIn
  <2>4. cars' = [cars EXCEPT ![r][s] = car] /\ phase' = phase
    BY <1>4, <2>1 DEF Send
  <2>5. \A q \in Rigs, t \in Races : cars'[q][t] = IF q = r /\ t = s THEN car ELSE cars[q][t]
    BY <2>4 DEF VenueTyped
  <2> QED
    BY <2>2, <2>3, <2>4, <2>5 DEF CarsCrossOnce, CarStays
<1>5. ASSUME NEW q \in requests, Serve(q) PROVE UNCHANGED <<phase, cars>>
  BY <1>5 DEF Serve, Store, HearStart, Drop, Capture, world
<1>6. ASSUME NEW d, NEW r, Seat(d, r) PROVE UNCHANGED <<phase, cars>>
  BY <1>6 DEF Seat
<1>7. ASSUME NEW finishers, NEW dnf, Save(finishers, dnf) PROVE UNCHANGED <<phase, cars>>
  BY <1>7 DEF Save, world
<1>8. ASSUME Review \/ CloseRound \/ UNCHANGED vars PROVE UNCHANGED <<phase, cars>>
  BY <1>8 DEF Review, CloseRound, vars, world
<1> QED
  BY <1>1, <1>2, <1>3, <1>4, <1>5, <1>6, <1>7, <1>8 DEF Next

(* What is true of a report stays true until it is served.                 *)
LEMMA ReportsStaySound ==
  ASSUME RaceTyped, FinishSound, [Next]_vars
  PROVE  \A q \in requests : ReportSound(q)'
<1> SUFFICES ASSUME NEW q \in requests PROVE ReportSound(q)'
  OBVIOUS
<1>1. q.rig \in Rigs /\ q.session \in Races
  BY DEF RaceTyped, ReportsTyped, Request
<1>2. ReportSound(q) /\ CarStays(q.rig, q.session)
  BY <1>1, CarsStep DEF FinishSound, ReportSound
<1> QED
  BY <1>2 DEF ReportSound, CarStays

LEMMA RowsStaySound ==
  ASSUME RaceTyped, FinishSound, [Next]_vars, NEW row, RowSound(row)
  PROVE  RowSound(row)'
<1>1. CarStays(row.rig, row.session)
  BY CarsStep DEF FinishSound, RowSound
<1> QED
  BY <1>1 DEF RowSound, CarStays
LEMMA NewReportsAreSound ==
  ASSUME RaceTyped, FinishSound, [Next]_vars
  PROVE  \A q \in requests' : ReportSound(q)'
<1> USE DEF RaceTyped
<1>1. CASE requests' \subseteq requests
  BY <1>1, ReportsStaySound
<1>2. ASSUME NEW r \in Rigs, NEW s \in Races, NEW prompt \in BOOLEAN, Send(r, s, prompt)
      PROVE  \A q \in requests' : ReportSound(q)'
  <2>1. PICK car \in Car : car = CarIn(r, s)
    BY CarInTyped
  <2> DEFINE q == [rig |-> r, session |-> s, state |-> phase[s], place |-> car.place, laps |-> car.laps,
                   sampled |-> sent[r] + 1, at |-> "site", driver |-> None, prompt |-> prompt]
  <2>2. cars' = [cars EXCEPT ![r][s] = car] /\ phase' = phase
    BY <1>2, <2>1 DEF Send
  <2>3. cars'[r][s] = car
    BY <2>2 DEF VenueTyped
  <2>4. car # None /\ car.laps \in {0, 1}
    BY <2>1, NoneIsNoRow DEF CarIn, FinishSound, CarsCrossOnce
  <2>5. q.rig = r /\ q.session = s /\ q.state = phase[s] /\ q.place = car.place /\ q.laps = car.laps
    OBVIOUS
  <2>6. requests' = requests \cup {q}
    BY <1>2, <2>1 DEF Send
  <2> HIDE DEF q
  <2>7. ASSUME NEW p \in requests', p = q PROVE ReportSound(p)'
    BY <2>2, <2>3, <2>4, <2>5, <2>7 DEF ReportSound
  <2> QED
    BY <2>6, <2>7, ReportsStaySound
<1>3. ASSUME NEW q \in requests, Store(q) \/ HearStart(q) PROVE \A p \in requests' : ReportSound(p)'
  <2> DEFINE stored == [q EXCEPT !.at = "start", !.driver = seat[q.rig]]
             later == {stored, [stored EXCEPT !.at = "finish"], [q EXCEPT !.at = "finish"]}
  <2>1. q \in Request
    BY DEF ReportsTyped
  <2>2. \A p \in later : p.rig = q.rig /\ p.session = q.session /\ p.state = q.state /\ p.place = q.place /\ p.laps = q.laps
    BY <2>1 DEF Request
  <2>3. requests' \subseteq requests \cup later
    BY <1>3 DEF Store, HearStart, Onward
  <2> HIDE DEF later
  <2>4. ReportSound(q)'
    BY ReportsStaySound
  <2>5. ASSUME NEW o \in requests', o \in later PROVE ReportSound(o)'
    BY <2>2, <2>4, <2>5 DEF ReportSound
  <2> QED
    BY <2>3, <2>5, ReportsStaySound
<1>4. ASSUME NEW q \in requests, Drop(q) \/ Capture(q) PROVE requests' \subseteq requests
  BY <1>4 DEF Drop, Capture
<1>5. ASSUME NEW r, Cross(r) PROVE requests' = requests
  BY <1>5 DEF Cross, feed
<1>6. ASSUME NEW s, CoolDown(s) PROVE requests' = requests
  BY <1>6 DEF CoolDown, feed
<1>7. ASSUME NEW d, NEW r, Seat(d, r) PROVE requests' = requests
  BY <1>7 DEF Seat, feed
<1>8. ASSUME NEW finishers, NEW dnf, Save(finishers, dnf) PROVE requests' = requests
  BY <1>8 DEF Save, feed
<1>9. ASSUME Review \/ CloseRound \/ UNCHANGED vars PROVE requests' = requests
  BY <1>9 DEF Review, CloseRound, vars, feed
<1> QED
  BY <1>1, <1>2, <1>3, <1>4, <1>5, <1>6, <1>7, <1>8, <1>9 DEF Next, Serve

(* What one step does to a driver's row, but for a save.                   *)
Captures(q, d) ==
  /\ d = q.driver /\ results[d] = None
  /\ q.session = RaceSession
  /\ ~StaffSaved
  /\ stamps' = stamps + 1
  /\ results'[d] = [place |-> q.place, source |-> "flag", rig |-> q.rig, session |-> q.session,
                    laps |-> q.laps, at |-> stamps + 1, final |-> Settles(q)]

FollowsCar(q, d) ==
  /\ results[d] # None
  /\ results[d].rig = q.rig /\ results[d].session = q.session
  /\ results[d].source = "flag" /\ ~results[d].final
  /\ results'[d] = Follows(results[d], q)
  /\ stamps' = IF results[d].place = q.place THEN stamps ELSE stamps + 1

SweptUp(d) ==
  /\ CloseRound
  /\ results[d] = None /\ results'[d] # None
  /\ results'[d].source = "close"
  /\ results'[d].session \in Races /\ results'[d].session = RaceSession
  /\ results'[d].at = stamps + 1 /\ stamps' = stamps + 1

LEMMA RowSteps ==
  ASSUME RaceTyped, [Next]_vars, ~Saving, NEW d \in Drivers
  PROVE  \/ results'[d] = results[d]
         \/ \E q \in requests : Capture(q) /\ (Captures(q, d) \/ FollowsCar(q, d))
         \/ SweptUp(d)
<1> USE DEF RaceTyped
<1>1. ASSUME NEW q \in requests, Capture(q)
      PROVE  results'[d] = results[d] \/ Captures(q, d) \/ FollowsCar(q, d)
  <2>1. CASE UNCHANGED results
    BY <2>1
  <2>2. CASE CapturePlace(q) /\ q.driver # None
    <3>1. q.driver \in Drivers
      BY <2>2 DEF ReportsTyped, Request
    <3>2. CASE d # q.driver
      BY <2>2, <3>1, <3>2 DEF CapturePlace, CaptureNothing, RowsTyped
    <3>3. CASE d = q.driver
      BY <2>2, <3>1, <3>3 DEF CapturePlace, CaptureNothing, RowsTyped, Captures, FollowsCar
    <3> QED BY <3>2, <3>3
  <2> QED BY <1>1, <2>1, <2>2 DEF Capture, CaptureNothing, CaptureEmptySeat
<1>2. CASE CloseRound
  <2> DEFINE r == CHOOSE r \in LatestOf(d) : TRUE
             row == [place |-> status[r].place, source |-> "close", rig |-> r, session |-> status[r].session,
                     laps |-> status[r].laps, at |-> stamps + 1, final |-> TRUE]
  <2>1. results'[d] = IF results[d] # None \/ LatestOf(d) = {} THEN results[d] ELSE row
    BY <1>2 DEF CloseRound
  <2>2. row.source = "close" /\ row.session = status[r].session /\ row.at = stamps + 1
    OBVIOUS
  <2>3. LatestOf(d) # {} => r \in LatestOf(d)
    OBVIOUS
  <2> HIDE DEF row, r
  <2>4. CASE results[d] = None /\ LatestOf(d) # {}
    <3>1. r \in Rigs /\ status[r] # None /\ status[r].session = RaceSession
      BY <2>3, <2>4 DEF LatestOf, Swept
    <3>2. status[r].session \in Races
      BY <3>1 DEF ReportsTyped, Report
    <3>3. results'[d] = row
      BY <2>1, <2>4
    <3>4. results'[d] \in ResultRow \cup {None}
      BY <1>2, RoundSwept DEF ResultsEvolve
    <3> QED BY <1>2, <2>2, <2>4, <3>1, <3>2, <3>3, <3>4 DEF SweptUp, CloseRound
  <2> QED BY <2>1, <2>4
<1>3. ASSUME NEW q \in requests, Store(q) \/ HearStart(q) \/ Drop(q) PROVE results' = results
  BY <1>3 DEF Store, HearStart, Drop, night
<1>4. ASSUME NEW r, Cross(r) PROVE results' = results
  BY <1>4 DEF Cross, night
<1>5. ASSUME NEW r, NEW s, NEW prompt, Send(r, s, prompt) PROVE results' = results
  BY <1>5 DEF Send, night
<1>6. ASSUME NEW s, CoolDown(s) PROVE results' = results
  BY <1>6 DEF CoolDown, night
<1>7. ASSUME NEW e, NEW r, Seat(e, r) PROVE results' = results
  BY <1>7 DEF Seat, night
<1>8. ASSUME Review \/ UNCHANGED vars PROVE results' = results
  BY <1>8 DEF Review, vars, night
<1>9. ASSUME NEW finishers, NEW dnf, Save(finishers, dnf) PROVE FALSE
  BY <1>9, SavesAreCounted
<1> QED
  BY <1>1, <1>2, <1>3, <1>4, <1>5, <1>6, <1>7, <1>8, <1>9 DEF Next, Serve

LEMMA FlagRowsAreSound ==
  ASSUME RaceTyped, FinishSound, [Next]_vars, NEW d \in Drivers, NEW row, row = results'[d], row # None, row.source = "flag"
  PROVE  RowSound(row)'
<1> USE DEF RaceTyped
<1>1. CASE ~Saving
  <2>1. CASE results'[d] = results[d]
    BY <2>1, RowsStaySound DEF FinishSound
  <2>2. ASSUME NEW q \in requests, Captures(q, d) PROVE RowSound(row)'
    <3>1. ReportSound(q)' /\ q \in Request
      BY ReportsStaySound DEF ReportsTyped
    <3>2. /\ row.rig = q.rig /\ row.session = q.session /\ row.laps = q.laps /\ row.place = q.place
          /\ row.final = (q.state = "cool")
      BY <2>2 DEF Captures, Settles
    <3> QED
      BY <3>1, <3>2 DEF RowSound, ReportSound, Request
  <2>3. ASSUME NEW q \in requests, FollowsCar(q, d) PROVE RowSound(row)'
    <3>1. ReportSound(q)' /\ q \in Request
      BY ReportsStaySound DEF ReportsTyped
    <3>2. PICK old \in ResultRow : old = results[d]
      BY <2>3 DEF FollowsCar, RowsTyped
    <3>3. old.laps \in Nat
      BY <2>3, <3>2 DEF FollowsCar, FinishSound, RowSound
    <3>4. row = Follows(old, q) /\ old.rig = q.rig /\ old.session = q.session
      BY <2>3, <3>2 DEF FollowsCar
    <3>5. /\ row.rig = q.rig /\ row.session = q.session /\ row.laps = q.laps /\ row.place = q.place
          /\ row.final => q.laps > old.laps \/ q.state = "cool"
      BY <3>4 DEF Follows, ResultRow
    <3> QED
      BY <3>1, <3>3, <3>5 DEF RowSound, ReportSound, Request
  <2>4. CASE SweptUp(d)
    BY <2>4 DEF SweptUp
  <2> QED
    BY <1>1, <2>1, <2>2, <2>3, <2>4, RowSteps
<1>2. CASE Saving
  BY <1>2, OnlySavesAreCounted, RowsSaved
<1> QED
  BY <1>1, <1>2

LEMMA FinishStep ==
  ASSUME RaceTyped, FinishSound, [Next]_vars
  PROVE  FinishSound'
<1>1. CarsCrossOnce'
  BY CarsStep DEF FinishSound
<1>2. \A q \in requests' : ReportSound(q)'
  BY NewReportsAreSound
<1>3. ASSUME NEW d \in Drivers, results'[d] # None, results'[d].source = "flag" PROVE RowSound(results[d])'
  <2>1. PICK row : row = results'[d]
    OBVIOUS
  <2>2. RowSound(row)'
    BY <1>3, <2>1, FlagRowsAreSound
  <2> QED
    BY <2>1, <2>2 DEF RowSound
<1> QED
  BY <1>1, <1>2, <1>3 DEF FinishSound

(* A settled place is the one its car finished at, whatever order its      *)
(* reports reached the site in.                                            *)
THEOREM SettledPlaces == Spec => []SettledPlaceIsTheFinish
<1>1. Init => FinishSound
  BY DEF Init, FinishSound, CarsCrossOnce
<1>2. RaceTyped /\ FinishSound => SettledPlaceIsTheFinish
  BY DEF SettledPlaceIsTheFinish, Rows, FinishSound, RowSound
<1> QED
  BY <1>1, <1>2, FinishStep, RaceIsTyped, PTL DEF Spec

-----------------------------------------------------------------------------
(* The race of the round's result: the one some place was captured in.     *)
StartsSound ==
  /\ starts \subseteq [session : Races, rig : Rigs, at : Nat]
  /\ IsFiniteSet(starts)
  /\ \A h \in starts : h.at <= stamps
  /\ \A h, g \in starts : h.at = g.at => h = g

UnsignedTyped == unsigned \subseteq [rig : Rigs, session : Races]

OneRaceCaptured ==
  /\ \A s \in Races : Captured(s) => Cardinality(HeardIn(s)) >= 2
  /\ \A s, t \in Races : Captured(s) /\ Captured(t) => s = t

CapturedRowsHaveARace ==
  \A d \in Drivers : results[d] # None /\ results[d].source # "staff" => results[d].session \in Races

RaceSound == StartsSound /\ UnsignedTyped /\ OneRaceCaptured /\ CapturedRowsHaveARace

LEMMA LeastOfSome ==
  ASSUME NEW S \in SUBSET Nat, S # {}
  PROVE  MinOf(S) \in S /\ \A m \in S : MinOf(S) <= m
<1>1. PICK n \in S : \A m \in S : ~(<<m, n>> \in OpToRel(<, Nat))
  BY NatLessThanWellFounded, WFMin
<1>2. ASSUME NEW m \in S PROVE n <= m
  <2>1. SUFFICES ASSUME m < n PROVE FALSE
    OBVIOUS
  <2>2. <<m, n>> \in OpToRel(<, Nat)
    BY <2>1 DEF OpToRel
  <2> QED
    BY <1>1, <2>2
<1> QED
  BY <1>2 DEF MinOf

LEMMA GreatestOfSome ==
  ASSUME NEW S \in SUBSET Nat, S # {}, NEW n \in Nat, \A m \in S : m <= n
  PROVE  MaxOf(S) \in S /\ \A m \in S : m <= MaxOf(S)
<1> DEFINE T == {n - m : m \in S}
<1>1. T \in SUBSET Nat /\ T # {}
  <2>1. \A m \in S : n - m \in Nat
    OBVIOUS
  <2> QED
    BY <2>1
<1> HIDE DEF T
<1>2. MinOf(T) \in T /\ \A k \in T : MinOf(T) <= k
  BY <1>1, LeastOfSome
<1>3. PICK g \in S : MinOf(T) = n - g
  BY <1>2 DEF T
<1>4. \A m \in S : m <= g
  <2>1. ASSUME NEW m \in S PROVE m <= g
    <3>1. n - m \in T
      BY DEF T
    <3>2. n - g <= n - m
      BY <1>2, <1>3, <3>1
    <3> QED
      BY <3>2
  <2> QED
    BY <2>1
<1> QED
  BY <1>4 DEF MaxOf

LEMMA HeardIsFinite ==
  ASSUME StartsSound, NEW s
  PROVE  /\ Cardinality(starts) \in Nat
         /\ Cardinality(HeardIn(s)) \in Nat
         /\ Cardinality(HeardIn(s)) <= Cardinality(starts)
         /\ HeardIn(s) = {} => Cardinality(HeardIn(s)) = 0
<1>1. HeardIn(s) \in SUBSET starts /\ IsFiniteSet(starts)
  BY DEF HeardIn, StartsSound
<1> QED
  BY <1>1, FS_Subset, FS_CardinalityType, FS_EmptySet

LEMMA RaceStarted ==
  ASSUME StartsSound, stamps \in Nat, NEW s, Cardinality(HeardIn(s)) >= 2
  PROVE  /\ StartedAt(s) \in Nat /\ StartedAt(s) <= stamps
         /\ \E h \in HeardIn(s) : h.at = StartedAt(s)
<1> DEFINE S == {h.at : h \in HeardIn(s)}
<1>1. HeardIn(s) # {}
  BY HeardIsFinite
<1>2. \A h \in HeardIn(s) : h.at \in Nat /\ h.at <= stamps
  BY DEF HeardIn, StartsSound
<1>3. S \in SUBSET Nat /\ S # {}
  BY <1>1, <1>2
<1>4. MinOf(S) \in S
  BY <1>3, LeastOfSome
<1>5. PICK h \in HeardIn(s) : h.at = MinOf(S)
  BY <1>4
<1> QED
  BY <1>2, <1>5 DEF StartedAt

LEMMA RacesStartApart ==
  ASSUME StartsSound, stamps \in Nat, NEW s, NEW t,
         Cardinality(HeardIn(s)) >= 2, Cardinality(HeardIn(t)) >= 2, StartedAt(s) = StartedAt(t)
  PROVE  s = t
<1>1. PICK h \in HeardIn(s) : h.at = StartedAt(s)
  BY RaceStarted
<1>2. PICK g \in HeardIn(t) : g.at = StartedAt(t)
  BY RaceStarted
<1> QED
  BY <1>1, <1>2 DEF HeardIn, StartsSound

(* Two races that were heard are never level, so the tie break picks one.  *)
LEMMA MostHeardIsHeard ==
  ASSUME StartsSound, stamps \in Nat, NEW some \in Races, Cardinality(HeardIn(some)) >= 2
  PROVE  MostHeard \in Races /\ Cardinality(HeardIn(MostHeard)) >= 2
<1> DEFINE heard == {s \in Races : Cardinality(HeardIn(s)) >= 2}
           Before(s, t) == \/ Cardinality(HeardIn(s)) > Cardinality(HeardIn(t))
                           \/ /\ Cardinality(HeardIn(s)) = Cardinality(HeardIn(t))
                              /\ StartedAt(s) > StartedAt(t)
           Sizes == {Cardinality(HeardIn(s)) : s \in heard}
           Largest == {s \in heard : Cardinality(HeardIn(s)) = MaxOf(Sizes)}
           Times == {StartedAt(s) : s \in Largest}
<1>1. \A s \in heard : /\ Cardinality(HeardIn(s)) \in Nat
                       /\ Cardinality(HeardIn(s)) <= Cardinality(starts)
  BY HeardIsFinite
<1>2. Sizes \in SUBSET Nat /\ Sizes # {} /\ Cardinality(starts) \in Nat /\ \A m \in Sizes : m <= Cardinality(starts)
  BY <1>1, HeardIsFinite
<1> HIDE DEF Before, Sizes
<1>3. MaxOf(Sizes) \in Sizes /\ \A m \in Sizes : m <= MaxOf(Sizes)
  BY <1>2, GreatestOfSome
<1>4. Largest # {}
  BY <1>3 DEF Sizes
<1>5. \A s \in heard : StartedAt(s) \in Nat /\ StartedAt(s) <= stamps
  BY RaceStarted
<1>6. Times \in SUBSET Nat /\ Times # {} /\ \A m \in Times : m <= stamps
  BY <1>4, <1>5
<1> HIDE DEF Times
<1>7. MaxOf(Times) \in Times /\ \A m \in Times : m <= MaxOf(Times)
  BY <1>6, GreatestOfSome
<1>8. PICK s \in Largest : StartedAt(s) = MaxOf(Times)
  BY <1>7 DEF Times
<1>9. ASSUME NEW t \in heard \ {s} PROVE Before(s, t)
  <2>1. Cardinality(HeardIn(t)) \in Nat /\ Cardinality(HeardIn(s)) \in Nat
    BY <1>1, <1>9
  <2>2. Cardinality(HeardIn(t)) <= Cardinality(HeardIn(s))
    BY <1>3, <1>8, <1>9 DEF Sizes
  <2>3. CASE Cardinality(HeardIn(t)) = Cardinality(HeardIn(s))
    <3>1. t \in Largest
      BY <2>3, <1>8, <1>9
    <3>2. StartedAt(t) <= StartedAt(s)
      BY <1>7, <1>8, <3>1 DEF Times
    <3>3. StartedAt(t) # StartedAt(s)
      BY <1>8, <1>9, RacesStartApart
    <3> QED
      BY <2>3, <3>2, <3>3, <1>5, <1>8, <1>9 DEF Before
  <2> QED
    BY <2>1, <2>2, <2>3 DEF Before
<1>10. heard # {} /\ MostHeard = CHOOSE u \in heard : \A t \in heard \ {u} : Before(u, t)
  BY DEF MostHeard, Before
<1> QED
  BY <1>8, <1>9, <1>10

LEMMA RaceOfTheCapture ==
  ASSUME StartsSound, stamps \in Nat, OneRaceCaptured
  PROVE  \A s \in Races : Captured(s) => RaceSession = s
<1> SUFFICES ASSUME NEW s \in Races, Captured(s) PROVE RaceSession = s
  OBVIOUS
<1> DEFINE captured == {t \in Races : Cardinality(HeardIn(t)) >= 2 /\ Captured(t)}
<1>1. Cardinality(HeardIn(s)) >= 2 /\ captured = {s}
  BY DEF OneRaceCaptured
<1>2. StartedAt(s) <= StartedAt(s)
  BY <1>1, RaceStarted
<1>3. RaceSession = CHOOSE u \in captured : \A t \in captured : StartedAt(u) <= StartedAt(t)
  BY <1>1 DEF RaceSession
<1> HIDE DEF captured
<1> QED
  BY <1>1, <1>2, <1>3

LEMMA RaceIsHeard ==
  ASSUME StartsSound, stamps \in Nat, OneRaceCaptured, RaceSession \in Races
  PROVE  Cardinality(HeardIn(RaceSession)) >= 2
<1>1. CASE \E s \in Races : Captured(s)
  BY <1>1, RaceOfTheCapture DEF OneRaceCaptured
<1>2. CASE ~\E s \in Races : Captured(s)
  <2>1. RaceSession = MostHeard
    BY <1>2 DEF RaceSession
  <2>2. MostHeard # None
    BY <2>1, RacesAreNumbers, NoneIsNoRow
  <2>3. \E s \in Races : Cardinality(HeardIn(s)) >= 2
    BY <2>2 DEF MostHeard
  <2> QED
    BY <2>1, <2>3, MostHeardIsHeard
<1> QED
  BY <1>1, <1>2

(* The rigs heard only grow in number, each at a stamp of its own.         *)
HeardAnother(s, r) ==
  /\ stamps' = stamps + 1
  /\ starts' = starts \cup {[session |-> s, rig |-> r, at |-> stamps + 1]}

LEMMA StartsSteps ==
  ASSUME RaceTyped, [Next]_vars
  PROVE  /\ stamps' >= stamps
         /\ starts' = starts \/ \E s \in Races, r \in Rigs : HeardAnother(s, r)
<1> USE DEF RaceTyped
<1>0. stamps \in Nat
  BY DEF RowsTyped
<1>1. ASSUME NEW q \in requests, Store(q) \/ HearStart(q)
      PROVE  \/ UNCHANGED <<stamps, starts>>
             \/ HeardAnother(q.session, q.rig)
  BY <1>1 DEF Store, HearStart, HeardAnother, night
<1>2. ASSUME NEW q \in requests PROVE q.session \in Races /\ q.rig \in Rigs
  BY DEF ReportsTyped, Request
<1>3. ASSUME NEW q \in requests, Drop(q) \/ Capture(q) PROVE stamps' >= stamps /\ starts' = starts
  <2>1. stamps' = stamps \/ stamps' = stamps + 1
    BY <1>3 DEF Drop, Capture, CaptureNothing, CaptureEmptySeat, CapturePlace, night
  <2> QED
    BY <1>0, <1>3, <2>1 DEF Drop, Capture, night
<1>4. ASSUME NEW r, Cross(r) PROVE UNCHANGED <<stamps, starts>>
  BY <1>4 DEF Cross, night
<1>5. ASSUME NEW r, NEW s, NEW prompt, Send(r, s, prompt) PROVE UNCHANGED <<stamps, starts>>
  BY <1>5 DEF Send, night
<1>6. ASSUME NEW s, CoolDown(s) PROVE UNCHANGED <<stamps, starts>>
  BY <1>6 DEF CoolDown, night
<1>7. ASSUME NEW d, NEW r, Seat(d, r) PROVE UNCHANGED <<stamps, starts>>
  BY <1>7 DEF Seat, night
<1>8. ASSUME Review \/ UNCHANGED vars PROVE UNCHANGED <<stamps, starts>>
  BY <1>8 DEF Review, vars, night
<1>9. ASSUME CloseRound \/ \E finishers, dnf : Save(finishers, dnf) PROVE stamps' = stamps + 1 /\ starts' = starts
  BY <1>9 DEF CloseRound, Save
<1>10. ASSUME UNCHANGED <<stamps, starts>> PROVE stamps' >= stamps /\ starts' = starts
  BY <1>0, <1>10
<1>11. ASSUME NEW s, NEW r, HeardAnother(s, r) PROVE stamps' >= stamps
  BY <1>0, <1>11 DEF HeardAnother
<1>12. stamps + 1 >= stamps
  BY <1>0
<1> QED
  BY <1>1, <1>2, <1>3, <1>4, <1>5, <1>6, <1>7, <1>8, <1>9, <1>10, <1>11, <1>12 DEF Next, Serve

LEMMA StartsSoundStep ==
  ASSUME RaceTyped, StartsSound, [Next]_vars
  PROVE  StartsSound' /\ starts \subseteq starts'
<1>1. stamps \in Nat /\ stamps' \in Nat
  BY TypedStep DEF RaceTyped, RowsTyped
<1>2. CASE starts' = starts
  <2>1. stamps' >= stamps
    BY StartsSteps
  <2> QED
    BY <1>1, <1>2, <2>1 DEF StartsSound
<1>3. ASSUME NEW s \in Races, NEW r \in Rigs, HeardAnother(s, r) PROVE StartsSound' /\ starts \subseteq starts'
  <2>1. PICK g \in [session : Races, rig : Rigs, at : Nat] : g = [session |-> s, rig |-> r, at |-> stamps + 1]
    <3>1. [session |-> s, rig |-> r, at |-> stamps + 1] \in [session : Races, rig : Rigs, at : Nat]
      BY <1>1
    <3> QED
      BY <3>1
  <2>2. g.at = stamps + 1
    BY <2>1
  <2>3. starts' = starts \cup {g} /\ stamps' = stamps + 1
    BY <1>3, <2>1 DEF HeardAnother
  <2>4. IsFiniteSet(starts')
    BY <2>3, FS_AddElement DEF StartsSound
  <2>5. \A h \in starts : h.at \in Nat /\ h.at <= stamps /\ h.at # stamps + 1
    BY <1>1 DEF StartsSound
  <2>6. \A h \in starts' : h.at <= stamps'
    BY <1>1, <2>2, <2>3, <2>5
  <2>7. \A h, f \in starts' : h.at = f.at => h = f
    <3>1. \A h, f \in starts : h.at = f.at => h = f
      BY DEF StartsSound
    <3> QED
      BY <2>2, <2>3, <2>5, <3>1
  <2>8. starts' \subseteq [session : Races, rig : Rigs, at : Nat]
    BY <2>1, <2>3 DEF StartsSound
  <2> QED
    BY <2>3, <2>4, <2>6, <2>7, <2>8 DEF StartsSound
<1> QED
  BY <1>2, <1>3, StartsSteps

LEMMA HeardStays ==
  ASSUME StartsSound, StartsSound', starts \subseteq starts', NEW s, Cardinality(HeardIn(s)) >= 2
  PROVE  Cardinality(HeardIn(s))' >= 2
<1> DEFINE later == {h \in starts' : h.session = s}
<1>1. later \in SUBSET starts' /\ IsFiniteSet(starts') /\ HeardIn(s) \in SUBSET later
  BY DEF StartsSound, HeardIn
<1>2. IsFiniteSet(later)
  BY <1>1, FS_Subset
<1>3. Cardinality(HeardIn(s)) <= Cardinality(later) /\ Cardinality(later) \in Nat
  BY <1>1, <1>2, FS_Subset, FS_CardinalityType
<1>4. Cardinality(HeardIn(s)) \in Nat
  BY HeardIsFinite
<1>5. Cardinality(later) >= 2
  BY <1>3, <1>4
<1> QED
  BY <1>5 DEF HeardIn

(* A row staff save is of the race its place was captured in, or of none.  *)
LEMMA SavedRowsKeepTheirRace ==
  ASSUME RaceTyped, NEW S, NEW finishers \in Orders(S), NEW dnf, Save(finishers, dnf),
         NEW d \in Drivers, results'[d] # None, results'[d].session \in Races
  PROVE  results[d] # None /\ results[d].session = results'[d].session
<1> DEFINE placed == {finishers[i] : i \in DOMAIN finishers}
           PlaceOf(e) == IF e \in dnf THEN None ELSE CHOOSE i \in DOMAIN finishers : finishers[i] = e
<1>1. results' = [e \in Drivers |-> IF e \in placed \cup dnf THEN StaffRow(e, PlaceOf(e)) ELSE None]
  BY DEF Save
<1> HIDE DEF placed, PlaceOf
<1>2. PICK place : results'[d] = StaffRow(d, place)
  BY <1>1
<1>3. CASE results[d] = None
  BY <1>2, <1>3, RacesAreNumbers, NoneIsNoRow DEF StaffRow
<1>4. CASE results[d] # None
  <2>1. PICK row \in ResultRow : row = results[d]
    BY <1>4 DEF RaceTyped, RowsTyped
  <2>2. results'[d] = [row EXCEPT !.place = place, !.source = "staff", !.at = stamps + 1]
    BY <1>2, <1>4, <2>1 DEF StaffRow
  <2>3. results'[d].session = row.session
    BY <2>2 DEF ResultRow
  <2> QED
    BY <1>4, <2>1, <2>3
<1> QED
  BY <1>3, <1>4

(* Follows changes no row's rig and race.                                  *)
LEMMA FollowedRow ==
  ASSUME RaceTyped, NEW q \in requests, NEW d \in Drivers, FollowsCar(q, d)
  PROVE  /\ results'[d].session = results[d].session
         /\ results'[d].source = "flag"
         /\ results'[d] # None
<1>1. PICK row \in ResultRow : row = results[d]
  BY DEF FollowsCar, RaceTyped, RowsTyped
<1>2. results'[d] = Follows(row, q) /\ row.source = "flag"
  BY <1>1 DEF FollowsCar
<1>3. Follows(row, q).session = row.session /\ Follows(row, q).source = row.source
  BY DEF Follows, ResultRow
<1>4. stamps + 1 \in Nat
  BY DEF RaceTyped, RowsTyped
<1>5. q.place \in Nat /\ q.laps \in Nat /\ q.state \in {"green", "flag", "cool"}
  BY DEF RaceTyped, ReportsTyped, Request
<1>6. Follows(row, q) \in ResultRow
  BY <1>4, <1>5 DEF Follows, ResultRow
<1> QED
  BY <1>1, <1>2, <1>3, <1>6, NoneIsNoRow

(* Where the race of a row comes from.                                     *)
LEMMA RowsAreOfTheRace ==
  ASSUME RaceTyped, [Next]_vars, NEW d \in Drivers, results'[d] # None, results'[d].session \in Races
  PROVE  \/ results[d] # None /\ results[d].session = results'[d].session
         \/ results'[d].session = RaceSession
<1>1. CASE Saving
  BY <1>1, OnlySavesAreCounted, SavedRowsKeepTheirRace DEF RaceTyped
<1>2. CASE ~Saving
  <2>1. ASSUME NEW q \in requests, Captures(q, d) PROVE results'[d].session = RaceSession
    BY <2>1 DEF Captures
  <2>2. ASSUME NEW q \in requests, FollowsCar(q, d)
        PROVE results[d] # None /\ results[d].session = results'[d].session
    BY <2>2, FollowedRow DEF FollowsCar
  <2>3. CASE SweptUp(d)
    BY <2>3 DEF SweptUp
  <2> QED
    BY <1>2, <2>1, <2>2, <2>3, RowSteps
<1> QED
  BY <1>1, <1>2

LEMMA UnsignedSteps ==
  ASSUME RaceTyped, [Next]_vars
  PROVE  \/ unsigned' = unsigned
         \/ \E q \in requests : /\ q.session = RaceSession
                                /\ unsigned' = unsigned \cup {[rig |-> q.rig, session |-> q.session]}
<1>1. ASSUME NEW q \in requests, Capture(q)
      PROVE  \/ unsigned' = unsigned
             \/ /\ q.session = RaceSession
                /\ unsigned' = unsigned \cup {[rig |-> q.rig, session |-> q.session]}
  BY <1>1 DEF Capture, CaptureNothing, CaptureEmptySeat, CapturePlace
<1>2. ASSUME NEW q \in requests, Store(q) \/ HearStart(q) \/ Drop(q) PROVE unsigned' = unsigned
  BY <1>2 DEF Store, HearStart, Drop, night
<1>3. ASSUME NEW r, Cross(r) PROVE unsigned' = unsigned
  BY <1>3 DEF Cross, night
<1>4. ASSUME NEW r, NEW s, NEW prompt, Send(r, s, prompt) PROVE unsigned' = unsigned
  BY <1>4 DEF Send, night
<1>5. ASSUME NEW s, CoolDown(s) PROVE unsigned' = unsigned
  BY <1>5 DEF CoolDown, night
<1>6. ASSUME NEW e, NEW r, Seat(e, r) PROVE unsigned' = unsigned
  BY <1>6 DEF Seat, night
<1>7. ASSUME Review \/ CloseRound \/ UNCHANGED vars PROVE unsigned' = unsigned
  BY <1>7 DEF Review, CloseRound, vars, night
<1>8. ASSUME NEW finishers, NEW dnf, Save(finishers, dnf) PROVE unsigned' = unsigned
  BY <1>8 DEF Save
<1> QED
  BY <1>1, <1>2, <1>3, <1>4, <1>5, <1>6, <1>7, <1>8 DEF Next, Serve

LEMMA CapturedMeans ==
  ASSUME NEW s
  PROVE  Captured(s) <=> \/ \E d \in Drivers : results[d] # None /\ results[d].session = s
                         \/ \E u \in unsigned : u.session = s
BY DEF Captured, Rows

(* A place is captured in the round's race only.                           *)
LEMMA CapturesAreOfTheRace ==
  ASSUME RaceTyped, [Next]_vars, NEW s \in Races, Captured(s)'
  PROVE  Captured(s) \/ s = RaceSession
<1>1. CASE \E d \in Drivers : results'[d] # None /\ results'[d].session = s
  BY <1>1, RowsAreOfTheRace, CapturedMeans
<1>2. CASE \E u \in unsigned' : u.session = s
  BY <1>2, UnsignedSteps, CapturedMeans
<1>3. Captured(s)' => \/ \E d \in Drivers : results'[d] # None /\ results'[d].session = s
                      \/ \E u \in unsigned' : u.session = s
  BY DEF Captured, Rows
<1> QED
  BY <1>1, <1>2, <1>3

(* And a captured place is lost by no step but a save.                     *)
LEMMA CapturesStay ==
  ASSUME RaceTyped, [Next]_vars, ~Saving, NEW s \in Races, Captured(s)
  PROVE  Captured(s)'
<1>1. CASE \E u \in unsigned : u.session = s
  <2>1. \E u \in unsigned' : u.session = s
    BY <1>1, UnsignedSteps
  <2> QED
    BY <2>1 DEF Captured
<1>2. ASSUME NEW d \in Drivers, results[d] # None, results[d].session = s PROVE Captured(s)'
  <2>1. ASSUME NEW q \in requests, FollowsCar(q, d) PROVE results'[d] # None /\ results'[d].session = s
    BY <1>2, <2>1, FollowedRow
  <2>2. results'[d] # None /\ results'[d].session = s
    BY <1>2, <2>1, RowSteps DEF Captures, SweptUp
  <2> QED
    BY <2>2 DEF Captured, Rows
<1> QED
  BY <1>1, <1>2, CapturedMeans

LEMMA RowsHaveARaceStep ==
  ASSUME RaceTyped, CapturedRowsHaveARace, [Next]_vars
  PROVE  CapturedRowsHaveARace'
<1> SUFFICES ASSUME NEW d \in Drivers, results'[d] # None, results'[d].source # "staff"
             PROVE  results'[d].session \in Races
  BY DEF CapturedRowsHaveARace
<1>1. CASE Saving
  BY <1>1, OnlySavesAreCounted, RowsSaved DEF RaceTyped
<1>2. CASE ~Saving
  <2>1. ASSUME NEW q \in requests, Captures(q, d) PROVE results'[d].session \in Races
    <3>1. q.session \in Races
      BY DEF RaceTyped, ReportsTyped, Request
    <3> QED
      BY <2>1, <3>1 DEF Captures
  <2>2. ASSUME NEW q \in requests, FollowsCar(q, d) PROVE results'[d].session \in Races
    <3>1. results[d] # None /\ results[d].source = "flag"
      BY <2>2 DEF FollowsCar
    <3> QED
      BY <2>2, <3>1, FollowedRow DEF CapturedRowsHaveARace
  <2>3. CASE SweptUp(d)
    BY <2>3 DEF SweptUp
  <2>4. CASE results'[d] = results[d]
    BY <2>4 DEF CapturedRowsHaveARace
  <2> QED
    BY <1>2, <2>1, <2>2, <2>3, <2>4, RowSteps
<1> QED
  BY <1>1, <1>2

LEMMA UnsignedTypedStep ==
  ASSUME RaceTyped, UnsignedTyped, [Next]_vars
  PROVE  UnsignedTyped'
<1>1. ASSUME NEW q \in requests PROVE [rig |-> q.rig, session |-> q.session] \in [rig : Rigs, session : Races]
  BY DEF RaceTyped, ReportsTyped, Request
<1> QED
  BY <1>1, UnsignedSteps DEF UnsignedTyped

LEMMA RaceStep ==
  ASSUME RaceTyped, RaceSound, [Next]_vars
  PROVE  RaceSound'
<1> USE DEF RaceSound
<1>1. stamps \in Nat
  BY DEF RaceTyped, RowsTyped
<1>2. StartsSound' /\ starts \subseteq starts'
  BY StartsSoundStep
<1>3. ASSUME NEW s \in Races, Captured(s)' PROVE Cardinality(HeardIn(s))' >= 2
  <2>1. Cardinality(HeardIn(s)) >= 2
    BY <1>1, <1>3, CapturesAreOfTheRace, RaceIsHeard DEF OneRaceCaptured
  <2> QED
    BY <1>2, <2>1, HeardStays
<1>4. ASSUME NEW s \in Races, Captured(s)', NEW t \in Races, Captured(t)' PROVE s = t
  <2>1. (Captured(s) \/ s = RaceSession) /\ (Captured(t) \/ t = RaceSession)
    BY <1>4, CapturesAreOfTheRace
  <2> QED
    BY <1>1, <2>1, RaceOfTheCapture DEF OneRaceCaptured
<1>5. OneRaceCaptured'
  BY <1>3, <1>4 DEF OneRaceCaptured
<1> QED
  BY <1>2, <1>5, RowsHaveARaceStep, UnsignedTypedStep

LEMMA RaceInit == Init => RaceSound
<1> SUFFICES ASSUME Init PROVE RaceSound
  OBVIOUS
<1>1. StartsSound /\ UnsignedTyped
  BY FS_EmptySet DEF Init, StartsSound, UnsignedTyped
<1>2. \A s \in Races : ~Captured(s)
  BY DEF Init, Captured, Rows
<1>3. CapturedRowsHaveARace
  BY DEF Init, CapturedRowsHaveARace
<1> QED
  BY <1>1, <1>2, <1>3 DEF RaceSound, OneRaceCaptured

(* The round's race is heard from two rigs at least when a place is        *)
(* captured, and every place is of one race.                               *)
THEOREM PlacesAreOfOneRace == Spec => []RaceSound
BY RaceInit, RaceStep, RaceIsTyped, PTL DEF Spec

(* Once a place is captured the round's race is that race, and no other    *)
(* that more rigs join takes the result over.                              *)
THEOREM RaceStays == Spec => CapturedRaceStays
<1> DEFINE Step == ~Saving /\ (\E s \in Races : Captured(s)) => RaceSession' = RaceSession
           Inv == RaceTyped /\ RaceSound
           Kept == \A s \in Races : Captured(s) => RaceSession = s
<1>1. Inv => Kept
  BY RaceOfTheCapture DEF RaceSound, RaceTyped, RowsTyped
<1>2. ASSUME Kept, Kept', RaceTyped, [Next]_vars, ~Saving, NEW s \in Races, Captured(s)
      PROVE  RaceSession' = RaceSession
  <2>1. Captured(s)'
    BY <1>2, CapturesStay
  <2> QED
    BY <1>2, <2>1
<1>3. Kept /\ Kept' /\ RaceTyped /\ [Next]_vars => [Step]_vars
  BY <1>2
<1>4. Spec => []Kept
  BY <1>1, RaceIsTyped, PlacesAreOfOneRace, PTL
<1> HIDE DEF Kept, Step
<1>5. Spec => [][Step]_vars
  BY <1>3, <1>4, RaceIsTyped, PTL DEF Spec
<1> QED
  BY <1>5 DEF CapturedRaceStays, Step

(* What staff have read, and when each row was last stamped.               *)
RowsStamped == \A d \in Drivers : results[d] # None => results[d].at <= stamps

ReviewSound ==
  review # None =>
    /\ review.through \in Nat /\ review.through <= stamps
    /\ \A d \in Drivers :
         results[d] # None /\ results[d].source # "staff" /\ results[d].at <= review.through
         => d \in DOMAIN review.places /\ review.places[d] = results[d].place

LEMMA FollowedStamp ==
  ASSUME RaceTyped, NEW q \in requests, NEW d \in Drivers, FollowsCar(q, d)
  PROVE  /\ results[d].place = q.place => results'[d].at = results[d].at /\ results'[d].place = results[d].place
         /\ results[d].place # q.place => results'[d].at = stamps + 1
<1>1. PICK row \in ResultRow : row = results[d]
  BY DEF FollowsCar, RaceTyped, RowsTyped
<1>2. results'[d] = Follows(row, q)
  BY <1>1 DEF FollowsCar
<1> QED
  BY <1>1, <1>2 DEF Follows, ResultRow

LEMMA SavedRowsAreStamped ==
  ASSUME RaceTyped, NEW S, NEW finishers \in Orders(S), NEW dnf, Save(finishers, dnf),
         NEW d \in Drivers, results'[d] # None
  PROVE  results'[d].at = stamps' /\ stamps' = stamps + 1
<1> DEFINE placed == {finishers[i] : i \in DOMAIN finishers}
           PlaceOf(e) == IF e \in dnf THEN None ELSE CHOOSE i \in DOMAIN finishers : finishers[i] = e
<1>1. results' = [e \in Drivers |-> IF e \in placed \cup dnf THEN StaffRow(e, PlaceOf(e)) ELSE None]
  BY DEF Save
<1> HIDE DEF placed, PlaceOf
<1>2. PICK place : results'[d] = StaffRow(d, place)
  BY <1>1
<1>3. CASE results[d] = None
  BY <1>2, <1>3 DEF StaffRow, Save
<1>4. CASE results[d] # None
  <2>1. PICK row \in ResultRow : row = results[d]
    BY <1>4 DEF RaceTyped, RowsTyped
  <2>2. results'[d] = [row EXCEPT !.place = place, !.source = "staff", !.at = stamps + 1]
    BY <1>2, <1>4, <2>1 DEF StaffRow
  <2> QED
    BY <2>2 DEF ResultRow, Save
<1> QED
  BY <1>3, <1>4

LEMMA RowsStampedStep ==
  ASSUME RaceTyped, RowsStamped, [Next]_vars
  PROVE  RowsStamped'
<1> SUFFICES ASSUME NEW d \in Drivers, results'[d] # None PROVE results'[d].at <= stamps'
  BY DEF RowsStamped
<1>1. stamps \in Nat /\ stamps' \in Nat /\ stamps' >= stamps
  BY TypedStep, StartsSteps DEF RaceTyped, RowsTyped
<1>2. results[d] # None => results[d].at \in Nat /\ results[d].at <= stamps
  BY DEF RaceTyped, RowsTyped, ResultRow, RowsStamped
<1>3. CASE Saving
  <2>1. results'[d].at = stamps'
    BY <1>3, OnlySavesAreCounted, SavedRowsAreStamped DEF RaceTyped
  <2> QED
    BY <1>1, <2>1
<1>4. CASE ~Saving
  <2>1. ASSUME NEW q \in requests, Captures(q, d) PROVE results'[d].at = stamps + 1 /\ stamps' = stamps + 1
    BY <2>1 DEF Captures
  <2>2. ASSUME NEW q \in requests, FollowsCar(q, d) PROVE results'[d].at <= stamps'
    <3>1. results[d] # None /\ stamps' = IF results[d].place = q.place THEN stamps ELSE stamps + 1
      BY <2>2 DEF FollowsCar
    <3> QED
      BY <1>1, <1>2, <2>2, <3>1, FollowedStamp
  <2>3. ASSUME SweptUp(d) PROVE results'[d].at = stamps + 1 /\ stamps' = stamps + 1
    BY <2>3 DEF SweptUp
  <2>4. ASSUME results'[d] = results[d] PROVE results'[d].at <= stamps'
    BY <1>1, <1>2, <2>4
  <2>5. stamps + 1 <= stamps + 1
    BY <1>1
  <2> QED
    BY <1>4, <2>1, <2>2, <2>3, <2>4, <2>5, RowSteps
<1> QED
  BY <1>3, <1>4

LEMMA ReviewSteps ==
  ASSUME [Next]_vars
  PROVE  review' = review \/ review' = None \/ Review
<1>1. ASSUME NEW q \in requests, Serve(q) PROVE review' = review
  BY <1>1 DEF Serve, Store, HearStart, Drop, Capture
<1>2. ASSUME NEW r, Cross(r) PROVE review' = review
  BY <1>2 DEF Cross
<1>3. ASSUME NEW r, NEW s, NEW prompt, Send(r, s, prompt) PROVE review' = review
  BY <1>3 DEF Send
<1>4. ASSUME NEW s, CoolDown(s) PROVE review' = review
  BY <1>4 DEF CoolDown
<1>5. ASSUME NEW e, NEW r, Seat(e, r) PROVE review' = review
  BY <1>5 DEF Seat
<1>6. ASSUME CloseRound \/ \E finishers, dnf : Save(finishers, dnf) PROVE review' = None
  BY <1>6 DEF CloseRound, Save
<1>7. ASSUME UNCHANGED vars PROVE review' = review
  BY <1>7 DEF vars
<1> QED
  BY <1>1, <1>2, <1>3, <1>4, <1>5, <1>6, <1>7 DEF Next

(* A review shows every captured place of the round.                       *)
LEMMA ReviewShowsEveryPlace ==
  ASSUME RaceTyped, RaceSound, RowsStamped, Review
  PROVE  ReviewSound'
<1> DEFINE S == {0} \cup {row.at : row \in {r \in Rows : r.source # "staff"}}
           shown == {e \in Drivers : results[e] # None /\ Counts(results[e])}
<1>1. stamps \in Nat
  BY DEF RaceTyped, RowsTyped
<1>2. \A row \in Rows : row.at \in Nat /\ row.at <= stamps
  BY DEF Rows, RowsStamped, RaceTyped, RowsTyped, ResultRow
<1>3. S \in SUBSET Nat /\ S # {} /\ \A m \in S : m <= stamps
  BY <1>1, <1>2
<1>4. review' = [places |-> [d \in shown |-> results[d].place], through |-> MaxOf(S)]
  BY DEF Review
<1> HIDE DEF S
<1>5. MaxOf(S) \in Nat /\ MaxOf(S) <= stamps
  BY <1>1, <1>3, GreatestOfSome
<1>6. ASSUME NEW d \in Drivers, results[d] # None, results[d].source # "staff" PROVE d \in shown
  <2>1. results[d].session \in Races
    BY <1>6 DEF RaceSound, CapturedRowsHaveARace
  <2>2. results[d].session = RaceSession
    BY <1>1, <1>6, <2>1, RaceOfTheCapture, CapturedMeans DEF RaceSound
  <2> QED
    BY <1>6, <2>2 DEF Counts
<1> HIDE DEF shown
<1>7. results' = results /\ stamps' = stamps
  BY DEF Review, night
<1>8. /\ review'.through = MaxOf(S)
      /\ DOMAIN review'.places = shown
      /\ \A d \in shown : review'.places[d] = results[d].place
  BY <1>4
<1> QED
  BY <1>5, <1>6, <1>7, <1>8 DEF ReviewSound

LEMMA ReviewStep ==
  ASSUME RaceTyped, RaceSound, RowsStamped, ReviewSound, [Next]_vars
  PROVE  ReviewSound'
<1>1. CASE Review
  BY <1>1, ReviewShowsEveryPlace
<1>2. CASE review' = None
  BY <1>2 DEF ReviewSound
<1>3. CASE review' = review /\ review # None /\ ~Review
  <2>1. stamps \in Nat /\ stamps' \in Nat /\ stamps' >= stamps
    BY TypedStep, StartsSteps DEF RaceTyped, RowsTyped
  <2>2. review.through \in Nat /\ review.through <= stamps
    BY <1>3 DEF ReviewSound
  <2>3. ~Saving
    <3>1. ASSUME NEW finishers, NEW dnf, Save(finishers, dnf) PROVE review' = None
      BY <3>1 DEF Save
    <3> QED
      BY <1>3, <3>1, OnlySavesAreCounted DEF RaceTyped
  <2>4. ASSUME NEW d \in Drivers, results'[d] # None, results'[d].source # "staff", results'[d].at <= review.through
        PROVE  d \in DOMAIN review.places /\ review.places[d] = results'[d].place
    <3>1. results'[d].at # stamps + 1
      BY <2>1, <2>2, <2>4
    <3>2. CASE results'[d] = results[d]
      BY <1>3, <2>4, <3>2 DEF ReviewSound
    <3>3. ASSUME NEW q \in requests, FollowsCar(q, d)
          PROVE  d \in DOMAIN review.places /\ review.places[d] = results'[d].place
      <4>1. results[d] # None /\ results[d].source = "flag"
        BY <3>3 DEF FollowsCar
      <4>2. results'[d].at = results[d].at /\ results'[d].place = results[d].place
        BY <3>1, <3>3, FollowedStamp
      <4> QED
        BY <1>3, <2>4, <4>1, <4>2 DEF ReviewSound
    <3>4. ASSUME NEW q \in requests, Captures(q, d) PROVE FALSE
      BY <3>1, <3>4 DEF Captures
    <3>5. CASE SweptUp(d)
      BY <3>1, <3>5 DEF SweptUp
    <3> QED
      BY <2>3, <3>2, <3>3, <3>4, <3>5, RowSteps
  <2>5. review.through <= stamps'
    BY <2>1, <2>2
  <2> QED
    BY <1>3, <2>2, <2>4, <2>5 DEF ReviewSound
<1> QED
  BY <1>1, <1>2, <1>3, ReviewSteps

(* A save replaces only places that the review it corrects showed, and     *)
(* where it showed them: what was captured or moved since is not lost.     *)
THEOREM SavesLoseNoPlace == Spec => ReviewLosesNoPlace
<1> DEFINE Step == Saving => \A d \in Drivers :
                     results[d] # None /\ results[d].source # "staff"
                     => d \in DOMAIN review.places /\ review.places[d] = results[d].place
           Inv == RowsStamped /\ ReviewSound
<1>1. Init => Inv
  BY DEF Init, RowsStamped, ReviewSound
<1>2. RaceTyped /\ RaceSound /\ Inv /\ [Next]_vars => Inv'
  BY RowsStampedStep, ReviewStep
<1>3. ASSUME RaceTyped, Inv, [Next]_vars, Saving,
             NEW d \in Drivers, results[d] # None, results[d].source # "staff"
      PROVE  d \in DOMAIN review.places /\ review.places[d] = results[d].place
  <2>1. PICK finishers, dnf : Save(finishers, dnf)
    BY <1>3, OnlySavesAreCounted DEF RaceTyped
  <2>2. review # None /\ \A row \in Rows : row.source # "staff" => row.at <= review.through
    BY <2>1 DEF Save
  <2>3. results[d] \in Rows
    BY <1>3 DEF Rows
  <2> QED
    BY <1>3, <2>2, <2>3 DEF ReviewSound
<1>4. RaceTyped /\ Inv /\ [Next]_vars => [Step]_vars
  BY <1>3
<1> HIDE DEF Inv, Step
<1>5. Spec => [][Step]_vars
  BY <1>1, <1>2, <1>4, RaceIsTyped, PlacesAreOfOneRace, PTL DEF Spec
<1> QED
  BY <1>5 DEF ReviewLosesNoPlace, Step
=============================================================================
