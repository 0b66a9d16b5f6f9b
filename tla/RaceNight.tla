------------------------------ MODULE RaceNight ------------------------------
(***************************************************************************)
(* A league round's race result (lib/race-results.ts): the rigs' race      *)
(* reports (api/agent/race-status), the places captured from them under    *)
(* the chequered flag, the review staff correct and save                   *)
(* (staff/league/race-result), and the sweep when the round closes.        *)
(*                                                                         *)
(* A report's request stores it and then records what it says of the       *)
(* round, and may stop between any two of its statements, or reach the     *)
(* site after later ones.  Drivers change seats at any step.  A capture    *)
(* holds the round's lock from before its reads to its commit, and so do   *)
(* a save and a close, so each is one step.                                *)
(*                                                                         *)
(* The reports are those from race sessions since the round opened.  Once  *)
(* it has closed, or staff have saved for the last time, the venue stands  *)
(* still and what was sent is served.                                      *)
(***************************************************************************)
EXTENDS Integers, Sequences, FiniteSets, SequencesExt

CONSTANTS
  Rigs,        \* the rigs
  Drivers,     \* the active drivers
  WithLaps,    \* the drivers with a lap in the round
  Races,       \* the race sessions, 1..n
  None,        \* null
  MaxReports,  \* bounds the reports each rig sends
  MaxDelayed,  \* bounds the requests delayed on their way or while served
  MaxSaves,    \* bounds the results staff save
  MaxIncidents \* bounds those, the seats that change and the first rig's going on to a later race, together

(* A row of league_race_results: place, or None for a DNF; source; rig,    *)
(* session and laps, where a captured place came from; at, recorded_at.    *)
ResultRow ==
  [place : Nat \cup {None}, source : {"flag", "close", "staff"}, rig : Rigs \cup {None},
   session : Races \cup {None}, laps : Nat \cup {None}, at : Nat, final : BOOLEAN]

(* What iRacing shows of a car in a race.                                  *)
Car == [place : Nat, laps : Nat]

ASSUME RaceNightAssumption ==
  /\ None \notin ResultRow \cup Car \cup Nat
  /\ WithLaps \subseteq Drivers
  /\ Races \subseteq Nat \ {0}
  /\ {MaxReports, MaxDelayed, MaxSaves, MaxIncidents} \subseteq Nat
  /\ IsFiniteSet(Rigs) /\ IsFiniteSet(Drivers)

VARIABLES
  phase,     \* what iRacing shows in each race: "green", "flag" or "cool"
  cars,      \* each rig's car in each race it joined: [place, laps], or None
  session,   \* the race each rig is in, 0 for none yet
  seat,      \* the driver of each rig's open assignment, or None
  requests,  \* the reports on their way or being served
  sent,      \* how many reports each rig sent
  status,    \* rig_race_status: each rig's latest report, or None
  lastHeard, \* the rigs with a stored report, in the order they were stored
  round,     \* "open" or "closed"
  starts,    \* league_race_starts
  results,   \* league_race_results: driver -> row, or None
  unsigned,  \* league_race_unsigned_places
  stamps,    \* how many times the database's clock was read for a stamp
  review,    \* the review staff last read, or None
  counts     \* saves and incidents so far

world == <<phase, cars, session, seat>>
feed  == <<requests, sent, status, lastHeard>>
night == <<round, starts, results, unsigned, stamps>>
vars  == <<world, feed, night, review, counts>>

Init ==
  /\ phase = [s \in Races |-> "green"]
  /\ cars = [r \in Rigs |-> [s \in Races |-> None]]
  /\ session = [r \in Rigs |-> 0]
  /\ seat \in {s \in [Rigs -> Drivers] : IsInjective(s)}
  /\ requests = {}
  /\ sent = [r \in Rigs |-> 0]
  /\ status = [r \in Rigs |-> None]
  /\ lastHeard = <<>>
  /\ round = "open"
  /\ starts = {}
  /\ results = [d \in Drivers |-> None]
  /\ unsigned = {}
  /\ stamps = 0
  /\ review = None
  /\ counts = [saves |-> 0, incidents |-> 0]
-----------------------------------------------------------------------------
Racing == round = "open" /\ counts.saves < MaxSaves

Incident == counts.incidents < MaxIncidents /\ counts' = [counts EXCEPT !.incidents = @ + 1]

(* The venue.  iRacing shows the flag to the whole field when the leader   *)
(* crosses the line, and moves a car's place when that car crosses it.     *)
Cross(r) ==
  LET s == session[r]
      over == {q \in Rigs : cars[q][s] # None /\ cars[q][s].laps = 1}
  IN  /\ Racing
      /\ s # 0
      /\ cars[r][s].laps = 0
      /\ phase[s] \in {"green", "flag"}
      /\ phase' = [phase EXCEPT ![s] = "flag"]
      /\ cars' = [cars EXCEPT ![r][s] = [place |-> 1 + Cardinality(over), laps |-> 1]]
      /\ UNCHANGED <<session, seat, feed, night, review, counts>>

CoolDown(s) ==
  /\ Racing
  /\ phase[s] = "flag"
  /\ phase' = [phase EXCEPT ![s] = "cool"]
  /\ UNCHANGED <<cars, session, seat, feed, night, review, counts>>

(* A check-in ends the stint of whoever sat on the rig, and the driver's   *)
(* stint on another; with no driver, the stint on the rig ends.            *)
Seat(d, r) ==
  /\ Racing
  /\ seat[r] # d
  /\ Incident
  /\ seat' = [q \in Rigs |-> IF q = r THEN d ELSE IF seat[q] = d THEN None ELSE seat[q]]
  /\ UNCHANGED <<phase, cars, session, feed, night, review>>
-----------------------------------------------------------------------------
(* The reports.                                                            *)
(* A car comes in behind those still running: one whose rig reports late   *)
(* shows the place of a car that has crossed, until it crosses too.        *)
CarIn(r, s) ==
  LET running == {q \in Rigs : cars[q][s] # None /\ cars[q][s].laps = 0}
  IN  IF cars[r][s] # None THEN cars[r][s] ELSE [place |-> 1 + Cardinality(running), laps |-> 0]

(* The rig reports from the race it is in, or joins a later one first; to  *)
(* follow another rig there is no further incident.                        *)
Delayed == {q \in requests : ~q.prompt}

Send(r, s, prompt) ==
  /\ Racing
  /\ session[r] <= s
  /\ IF session[r] \in {0, s} \/ s \in Range(session) THEN UNCHANGED counts ELSE Incident
  /\ sent[r] < MaxReports
  /\ prompt <=> Cardinality(Delayed) >= MaxDelayed
  /\ session' = [session EXCEPT ![r] = s]
  /\ sent' = [sent EXCEPT ![r] = @ + 1]
  /\ cars' = [cars EXCEPT ![r][s] = CarIn(r, s)]
  /\ requests' = requests \cup
       {[rig |-> r, session |-> s, state |-> phase[s], place |-> CarIn(r, s).place, laps |-> CarIn(r, s).laps,
         sampled |-> sent[r] + 1, at |-> "site", driver |-> None, prompt |-> prompt]}
  /\ UNCHANGED <<phase, seat, status, lastHeard, night, review>>

(* raceReportCapture.                                                      *)
IsFinish(q) == q.state \in {"flag", "cool"}

(* POST: a report older than the stored one replaces it only when that has *)
(* gone stale, which time may bring at any step.  It keeps the driver      *)
(* seated when it is stored.                                               *)
Stored(q) ==
  [session |-> q.session, place |-> q.place, laps |-> q.laps, driver |-> seat[q.rig]]

(* What is left of a request once its rig was heard: the capture of its    *)
(* place, under the flag.                                                  *)
Onward(q) == IF IsFinish(q) THEN {[q EXCEPT !.at = "finish"]} ELSE {}

KnownIn(q) == \E h \in starts : h.session = q.session /\ h.rig = q.rig

Store(q) ==
  LET stored == [q EXCEPT !.at = "start", !.driver = seat[q.rig]]
  IN  /\ q.at = "site"
      /\ status' = [status EXCEPT ![q.rig] = Stored(q)]
      /\ lastHeard' = Append(SelectSeq(lastHeard, LAMBDA r : r # q.rig), q.rig)
      /\ requests' = (requests \ {q}) \cup (IF KnownIn(q) THEN Onward(stored) ELSE {stored})
      /\ UNCHANGED <<world, sent, night, review, counts>>

(* captureRaceReport: the rig was heard in its race, if the round is open  *)
(* (on conflict do nothing: if it was heard there before, nothing is left  *)
(* to note).  The request may end before this, and before its place is     *)
(* captured.                                                               *)
HearStart(q) ==
  /\ q.at = "start"
  /\ IF round = "open" /\ ~KnownIn(q)
     THEN /\ starts' = starts \cup {[session |-> q.session, rig |-> q.rig, at |-> stamps + 1]}
          /\ stamps' = stamps + 1
     ELSE UNCHANGED <<starts, stamps>>
  /\ requests' = (requests \ {q}) \cup Onward(q)
  /\ UNCHANGED <<world, sent, status, lastHeard, round, results, unsigned, review, counts>>

(* Lost on its way, refused as older, or ended by an error.                *)
Drop(q) ==
  /\ requests' = requests \ {q}
  /\ UNCHANGED <<world, sent, status, lastHeard, night, review, counts>>
-----------------------------------------------------------------------------
(* The views.                                                              *)
MinOf(S) == CHOOSE n \in S : \A m \in S : n <= m
MaxOf(S) == CHOOSE n \in S : \A m \in S : m <= n

Rows == {results[d] : d \in {e \in Drivers : results[e] # None}}

HeardIn(s)   == {h \in starts : h.session = s}
StartedAt(s) == MinOf({h.at : h \in HeardIn(s)})
Captured(s)  == (\E row \in Rows : row.session = s) \/ (\E u \in unsigned : u.session = s)

(* v_league_race_session as 0009 defined it: the session the most rigs     *)
(* were heard in, two at least, the latest to start on a tie.              *)
MostHeard ==
  LET heard == {s \in Races : Cardinality(HeardIn(s)) >= 2}
      Before(s, t) == \/ Cardinality(HeardIn(s)) > Cardinality(HeardIn(t))
                      \/ /\ Cardinality(HeardIn(s)) = Cardinality(HeardIn(t))
                         /\ StartedAt(s) > StartedAt(t)
  IN  IF heard = {} THEN None ELSE CHOOSE s \in heard : \A t \in heard \ {s} : Before(s, t)

(* And as 0011 does: the earliest session with a captured place, first.    *)
RaceSession ==
  LET captured == {s \in Races : Cardinality(HeardIn(s)) >= 2 /\ Captured(s)}
  IN  IF captured = {} THEN MostHeard
      ELSE CHOOSE s \in captured : \A t \in captured : StartedAt(s) <= StartedAt(t)

(* v_league_race_results.                                                  *)
Counts(row) == row.source = "staff" \/ row.session = RaceSession
-----------------------------------------------------------------------------
(* The captures.                                                           *)
StaffSaved == \E row \in Rows : row.source = "staff"

HeldByDriver(r, s) == \E row \in Rows : row.rig = r /\ row.session = s

PlaceHeld(r, s) ==
  \/ \E row \in Rows : row.rig = r /\ row.session = s
  \/ [rig |-> r, session |-> s] \in unsigned

(* A place follows its rig's reports until the car has crossed the line    *)
(* since the flag, or the session reaches cool-down.                       *)
FollowsUnstamped(row, q) ==
  [row EXCEPT !.place = q.place, !.laps = q.laps, !.final = q.laps > row.laps \/ q.state = "cool"]

Follows(row, q) ==
  [row EXCEPT !.place = q.place, !.laps = q.laps, !.final = q.laps > row.laps \/ q.state = "cool",
              !.at = IF row.place = q.place THEN @ ELSE stamps + 1]

SettlesAtOnce(q) == TRUE
Settles(q)       == q.state = "cool"

CaptureNothing == UNCHANGED <<results, unsigned, stamps>>

CaptureEmptySeat(q) ==
  /\ unsigned' = IF q.session = RaceSession THEN unsigned \cup {[rig |-> q.rig, session |-> q.session]}
                 ELSE unsigned
  /\ UNCHANGED <<results, stamps>>

CapturePlace(q) ==
  LET held == results[q.driver]
  IN  IF /\ q.session = RaceSession
         /\ ~StaffSaved
         /\ ~PlaceHeld(q.rig, q.session)
         /\ held = None
      THEN /\ results' = [results EXCEPT ![q.driver] =
                            [place |-> q.place, source |-> "flag", rig |-> q.rig, session |-> q.session,
                             laps |-> q.laps, at |-> stamps + 1, final |-> Settles(q)]]
           /\ stamps' = stamps + 1
           /\ UNCHANGED unsigned
      ELSE IF /\ held # None
              /\ held.rig = q.rig /\ held.session = q.session
              /\ held.source = "flag" /\ ~held.final
      THEN /\ results' = [results EXCEPT ![q.driver] = Follows(held, q)]
           /\ stamps' = IF held.place = q.place THEN stamps ELSE stamps + 1
           /\ UNCHANGED unsigned
      ELSE CaptureNothing

Capture(q) ==
  /\ q.at = "finish"
  /\ requests' = requests \ {q}
  /\ IF round # "open" THEN CaptureNothing
     ELSE IF q.driver = None THEN CaptureEmptySeat(q) ELSE CapturePlace(q)
  /\ UNCHANGED <<world, sent, status, lastHeard, round, starts, review, counts>>
-----------------------------------------------------------------------------
(* Staff.                                                                  *)
(* getRaceReview: the places that count, and the newest captured one.      *)
Review ==
  /\ Racing
  /\ counts.incidents < MaxIncidents
  /\ review' = [places |-> [d \in {e \in Drivers : results[e] # None /\ Counts(results[e])} |-> results[d].place],
                through |-> MaxOf({0} \cup {row.at : row \in {r \in Rows : r.source # "staff"}})]
  /\ UNCHANGED <<world, feed, night, counts>>

(* saveRaceResult: the finishers in order and the drivers who did not      *)
(* finish, each with a lap or a place in the round.                        *)
InRound == WithLaps \cup {d \in Drivers : results[d] # None}

Orders(S) == {order \in UNION {[1..n -> S] : n \in 0..Cardinality(S)} : IsInjective(order)}

StaffRow(d, place) ==
  IF results[d] = None
  THEN [place |-> place, source |-> "staff", rig |-> None, session |-> None, laps |-> None, at |-> stamps + 1, final |-> TRUE]
  ELSE [results[d] EXCEPT !.place = place, !.source = "staff", !.at = stamps + 1]

Save(finishers, dnf) ==
  LET placed == {finishers[i] : i \in DOMAIN finishers}
      PlaceOf(d) == IF d \in dnf THEN None ELSE CHOOSE i \in DOMAIN finishers : finishers[i] = d
  IN  /\ review # None
      /\ Racing
      /\ counts.incidents < MaxIncidents
      /\ counts' = [saves |-> counts.saves + 1, incidents |-> counts.incidents + 1]
      /\ placed \cup dnf # {} /\ placed \cap dnf = {}
      /\ \A row \in Rows : row.source # "staff" => row.at <= review.through
      /\ results' = [d \in Drivers |-> IF d \in placed \cup dnf THEN StaffRow(d, PlaceOf(d)) ELSE None]
      /\ stamps' = stamps + 1
      /\ review' = None
      /\ UNCHANGED <<world, feed, round, starts, unsigned>>

(* sweepRaceResultsTx: each driver's latest report from the round's race.  *)
SweptAfterSave ==
  {r \in Rigs : /\ status[r] # None
                /\ status[r].session = RaceSession
                /\ status[r].driver # None
                /\ ~PlaceHeld(r, status[r].session)}

Swept ==
  {r \in Rigs : /\ status[r] # None
                /\ status[r].session = RaceSession
                /\ status[r].driver # None
                /\ ~StaffSaved
                /\ ~PlaceHeld(r, status[r].session)}

HeardLater(r, q) == \A i, j \in DOMAIN lastHeard : lastHeard[i] = r /\ lastHeard[j] = q => j <= i

LatestOf(d) == {r \in Swept : status[r].driver = d /\ \A q \in Swept : status[q].driver = d => HeardLater(r, q)}

CloseRound ==
  /\ round = "open"
  /\ round' = "closed"
  /\ stamps' = stamps + 1
  /\ results' = [d \in Drivers |->
       IF results[d] # None \/ LatestOf(d) = {} THEN results[d]
       ELSE LET r == CHOOSE r \in LatestOf(d) : TRUE IN
            [place |-> status[r].place, source |-> "close", rig |-> r, session |-> status[r].session,
             laps |-> status[r].laps, at |-> stamps + 1, final |-> TRUE]]
  /\ review' = None
  /\ UNCHANGED <<world, feed, starts, unsigned, counts>>
-----------------------------------------------------------------------------
Serve(q) == Store(q) \/ HearStart(q) \/ Drop(q) \/ Capture(q)

(* Anything may happen while a request is delayed on its way or between    *)
(* two statements; one sent beside MaxDelayed of those is served before    *)
(* anything else happens.                                                  *)
Next ==
  \/ \E q \in requests : (Delayed = requests \/ q.prompt) /\ Serve(q)
  \/ /\ Delayed = requests
     /\ \/ \E r \in Rigs : Cross(r) \/ \E s \in Races, prompt \in BOOLEAN : Send(r, s, prompt)
        \/ \E s \in Races : CoolDown(s)
        \/ \E d \in Drivers \cup {None}, r \in Rigs : Seat(d, r)
        \/ Review \/ CloseRound
        \/ \E finishers \in Orders(InRound) :
             \E dnf \in SUBSET (InRound \ Range(finishers)) : Save(finishers, dnf)

Spec == Init /\ [][Next]_vars
-----------------------------------------------------------------------------
Saving == counts'.saves # counts.saves

HoldersOf(r, s) == {d \in Drivers : results[d] # None /\ results[d].rig = r /\ results[d].session = s}

(* "A rig whose race place is already recorded, either way, never records  *)
(* it for anyone else in that race": who signs in on it later inherits     *)
(* nothing, at the flag, in cool-down or from the sweep.                   *)
HolderStands ==
  [][~Saving => \A r \in Rigs, s \in Races :
       HoldersOf(r, s) # {} \/ [rig |-> r, session |-> s] \in unsigned
       => HoldersOf(r, s)' = HoldersOf(r, s)]_vars

(* A settled place is the one its car finished at, whatever order its      *)
(* reports reached the site in.                                            *)
SettledPlaceIsTheFinish ==
  \A row \in Rows :
    row.source = "flag" /\ row.final
    => /\ row.place = cars[row.rig][row.session].place
       /\ cars[row.rig][row.session].laps = 1 \/ phase[row.session] = "cool"

(* A save replaces only places that the review it corrects showed, and     *)
(* where it showed them: none captured or moved since is lost.             *)
ReviewLosesNoPlace ==
  [][Saving => \A d \in Drivers :
       results[d] # None /\ results[d].source # "staff"
       => d \in DOMAIN review.places /\ review.places[d] = results[d].place]_vars

(* Once a place is captured, the round's race is that race: no other with  *)
(* more rigs takes it over, whenever the requests are served.              *)
CapturedRaceStays ==
  [][~Saving /\ (\E s \in Races : Captured(s)) => RaceSession' = RaceSession]_vars

(* Once staff have saved a result, no capture and no sweep changes it.     *)
StaffHaveTheLastWord == [][~Saving /\ StaffSaved => results' = results]_vars
=============================================================================
