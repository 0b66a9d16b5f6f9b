------------------------------ MODULE Standings ------------------------------
(***************************************************************************)
(* Where a league round places its drivers (queryRoundResults in           *)
(* lib/league-queries.ts) and what its places are worth in the season      *)
(* (lib/league-scoring.ts).                                                *)
(*                                                                         *)
(* The drivers are numbers, in the order of their names.  A stored lap:    *)
(* driver, combo, time, at (completed_at), valid.  A round: season, combo, *)
(* opened, closed (None while it is open), began (when its race session    *)
(* did, or None), finishers, those its race result places, in order, and   *)
(* retired, those it has with no place (RaceNight models how that result   *)
(* comes about).                                                           *)
(***************************************************************************)
EXTENDS Integers, Sequences, FiniteSets, FiniteSetsExt, Functions

CONSTANT None  \* null

(* v_league_round_laps.                                                    *)
LapsIn(laps, round) ==
  {l \in laps : /\ l.combo = round.combo
                /\ l.at >= round.opened
                /\ round.closed # None => l.at < round.closed}

InRace(round) == Range(round.finishers) \cup round.retired

FieldOf(laps, round) == {l.driver : l \in LapsIn(laps, round)} \cup InRace(round)

Faster(l, m) == l.time < m.time \/ (l.time = m.time /\ l.at < m.at)

BestIn(laps) == CHOOSE l \in laps : \A m \in laps \ {l} : Faster(l, m)

(* best, quali: each driver's fastest valid lap among some, or none.       *)
BestLap(laps, d) ==
  LET mine == {l \in laps : l.driver = d /\ l.valid}
  IN  IF mine = {} THEN None ELSE BestIn(mine)

(* lap_position, qualifying_position: null for a driver with no valid lap. *)
RankedIn(laps, d) ==
  LET best == BestLap(laps, d)
      Before(e) == /\ BestLap(laps, e) # None
                   /\ Faster(BestLap(laps, e), best)
  IN  IF best = None THEN None
      ELSE 1 + Cardinality({e \in {l.driver : l \in laps} \ {d} : Before(e)})

Qualifying(laps, round) ==
  {l \in LapsIn(laps, round) : round.began # None => l.at < round.began}

Raced(round) == InRace(round) # {}

Placed(order, d) ==
  IF d \in Range(order) THEN CHOOSE i \in DOMAIN order : order[i] = d ELSE None

ResultOf(laps, round, d) ==
  [position   |-> IF Raced(round) THEN Placed(round.finishers, d) ELSE RankedIn(LapsIn(laps, round), d),
   raced      |-> Raced(round),
   qualifying |-> RankedIn(Qualifying(laps, round), d)]
-----------------------------------------------------------------------------
PointsLastFirst  == <<1, 2, 3, 4, 5>>
PointsByPosition == <<5, 4, 3, 2, 1>>
Participation    == 1
QualifyingBonus  == 1

IsFastestQualifier(result) == result.raced /\ result.qualifying = 1

RoundPoints(result) ==
  (IF result.position \in DOMAIN PointsByPosition THEN PointsByPosition[result.position] ELSE Participation)
  + (IF IsFastestQualifier(result) THEN QualifyingBonus ELSE 0)

(* computeSeasonStandings: a driver's points over the rounds of a season    *)
(* they entered.  Wins, podiums and the order of the table are left out.   *)
SeasonPoints(laps, rounds, season, d) ==
  LET entered == {i \in DOMAIN rounds : rounds[i].season = season /\ d \in FieldOf(laps, rounds[i])}
  IN  MapThenSumSet(LAMBDA i : RoundPoints(ResultOf(laps, rounds[i], d)), entered)
=============================================================================
