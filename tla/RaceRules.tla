------------------------------ MODULE RaceRules ------------------------------
(***************************************************************************)
(* Which reports are the race and in what order (lib/race-live.ts), and    *)
(* what a screen makes of an answer of that feed (lib/race-board.ts).      *)
(*                                                                         *)
(* A report is a rig's latest: rig, age, session (the pair of iRacing's    *)
(* ids, as a number in the order of the pair), isRace, state ("racing",    *)
(* or "flag": the chequered flag or after it), completed (the laps done),  *)
(* position (None: not classified).  An answer of the feed is None (no rig *)
(* has reported), or a session, isRace, state, and rows: the rigs in the   *)
(* order of their places.  Gaps, labels, the columns of a row, and the     *)
(* grid, on which nothing but the order is different, are left out.        *)
(***************************************************************************)
EXTENDS Screens, Integers, Sequences, FiniteSets, FiniteSetsExt, SequencesExt

CONSTANTS
  StaleAfter,  \* RACE_STALE_AFTER_S
  DropAfter,   \* RACE_DROP_AFTER_S
  FinishHold,  \* RACE_FINISH_HOLD_MS
  MinRigs      \* RACE_MIN_RIGS

(* One list of sort keys before another.                                   *)
Before(x, y) ==
  \E i \in DOMAIN x : x[i] < y[i] /\ \A j \in 1..(i - 1) : x[j] = y[j]

Flag(b) == IF b THEN 1 ELSE 0

(* nullsLast: a null is after every number there is.                       *)
NullsLast(v) == IF v = None THEN 1000 ELSE v

IsStale(r) == r.age > StaleAfter

LiveIn(group) == Cardinality({r \in group : ~IsStale(r)})

Freshest(group) == Min({r.age : r \in group})

AnyRace(group) == \E r \in group : r.isRace

(* The largest group of rigs still reporting, a race first on league       *)
(* night.                                                                  *)
GroupKey(group, preferRace) ==
  << -Flag(preferRace /\ AnyRace(group)), -LiveIn(group), -Cardinality(group),
     Freshest(group), -(CHOOSE r \in group : TRUE).session >>

TrackKey(r)    == << -r.completed, NullsLast(r.position), Flag(IsStale(r)), r.rig >>
PositionKey(r) == << NullsLast(r.position), Flag(IsStale(r)), -r.completed, r.rig >>

LiveRace(reports, preferRace) ==
  LET groups == {{r \in reports : r.session = s} : s \in {r.session : r \in reports}}
      race   == CHOOSE g \in groups :
                  \A h \in groups \ {g} : Before(GroupKey(g, preferRace), GroupKey(h, preferRace))
      byPosition == SetToSortSeq(race, LAMBDA a, b : Before(PositionKey(a), PositionKey(b)))
      live    == SelectSeq(byPosition, LAMBDA r : ~IsStale(r))
      leader  == IF live # <<>> THEN Head(live) ELSE Head(byPosition)
      byTrack == AnyRace(race) /\ leader.state = "racing"
      ordered == IF byTrack
                 THEN SetToSortSeq(race, LAMBDA a, b : Before(TrackKey(a), TrackKey(b)))
                 ELSE byPosition
  IN  IF reports = {} THEN None
      ELSE [session |-> leader.session, isRace |-> AnyRace(race), state |-> leader.state,
            rows |-> [i \in DOMAIN ordered |-> ordered[i].rig]]
-----------------------------------------------------------------------------
(* A board: race (what is on screen, or None), raceAge (since it was       *)
(* accepted), finish (None, or the session the screen saw flagged, and how *)
(* long ago).                                                              *)
InitialBoard == [race |-> None, raceAge |-> 0, finish |-> None]

IsLiveRace(feed) == feed # None /\ feed.isRace /\ Len(feed.rows) >= MinRigs

IsFinished(feed) == feed.state = "flag"

KeepFinish(board) ==
  /\ board.race # None /\ board.finish # None
  /\ board.finish.session = board.race.session
  /\ board.finish.age < FinishHold

KnowsFinishOf(board, feed) == board.finish # None /\ board.finish.session = feed.session

(* The flag's first showing; and one that forgets a finish that is over.   *)
FinishForgotten(board, feed) ==
  IF KnowsFinishOf(board, feed) /\ board.finish.age < FinishHold
  THEN board.finish ELSE [session |-> feed.session, age |-> 0]

FinishOf(board, feed) ==
  IF KnowsFinishOf(board, feed) THEN board.finish ELSE [session |-> feed.session, age |-> 0]

ApplyRaceFeed(board, feed) ==
  IF ~IsLiveRace(feed)
  THEN IF KeepFinish(board) THEN board ELSE [board EXCEPT !.race = None]
  ELSE IF ~IsFinished(feed)
  THEN [race |-> feed, raceAge |-> 0,
        finish |-> IF KnowsFinishOf(board, feed) THEN None ELSE board.finish]
  ELSE LET finish == FinishOf(board, feed)
       IN  [race |-> IF finish.age < FinishHold THEN feed ELSE None,
            raceAge |-> 0, finish |-> finish]

KeptThroughFailure(board) == board

ApplyRaceFeedFailure(board) ==
  IF board.race # None /\ board.raceAge > DropAfter
  THEN [board EXCEPT !.race = None]
  ELSE board

(* Places gained by each rig that moved: by what changed among the rigs on *)
(* both answers, and by place number as it would be without that.          *)
Gained(was, is) ==
  LET Place(order, r) == SelectInSeq(order, LAMBDA x : x = r)
      Delta(r) == Place(was, r) - Place(is, r)
  IN  [r \in {r \in ToSet(was) \cap ToSet(is) : Delta(r) # 0} |-> Delta(r)]

PlaceNumberChanges(before, after) ==
  IF before.session # after.session THEN <<>> ELSE Gained(before.rows, after.rows)

PlaceChanges(before, after) ==
  IF before.session # after.session THEN <<>>
  ELSE Gained(SelectSeq(before.rows, LAMBDA r : r \in ToSet(after.rows)),
              SelectSeq(after.rows, LAMBDA r : r \in ToSet(before.rows)))
=============================================================================
