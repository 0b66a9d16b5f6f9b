----------------------------- MODULE RaceScreen -----------------------------
(***************************************************************************)
(* A screen that shows the live race: the wall's league board or the       *)
(* /league page (components/use-live-race.ts), its requests to the feed    *)
(* (components/race-feed-poller.ts) and the rigs' reports they are         *)
(* answered from (api/race/live).                                          *)
(*                                                                         *)
(* Time is counted in polls: a PollTick is RACE_POLL_MS, in which every    *)
(* rig still in a session reports (a report that says nothing new only     *)
(* stays of age 0), and a request is aborted before its second one         *)
(* (RACE_FEED_TIMEOUT_MS is between one poll and two).  Ages stop counting *)
(* where nothing tells them apart any more.                                *)
(***************************************************************************)
EXTENDS RaceRules

CONSTANTS
  Sessions,       \* numbers, as the pairs of iRacing's ids are ordered
  RaceSessions,   \* those whose type is Race
  Highlight,      \* RACE_MOVE_HIGHLIGHT_MS
  MaxChanges      \* how often something other than a report or a request happens

ASSUME RaceScreenAssumption ==
  /\ Rigs \subseteq Nat /\ Sessions \subseteq Nat /\ RaceSessions \subseteq Sessions
  /\ {StaleAfter, DropAfter, FinishHold, MinRigs, Highlight, MaxChanges} \subseteq Nat
  /\ StaleAfter < DropAfter /\ FinishHold <= DropAfter /\ Highlight > 0

VARIABLES
  status,      \* rig_race_status: each rig's latest report
  state,       \* each session's state
  driving,     \* the session each rig is in, or None
  spot,        \* the place each rig is in, of all
  board,       \* the screen's board
  marks,       \* the rigs marked as moved: which way, how long still
  requests,    \* the requests out, the oldest first
  open,        \* whether tonight's round is open
  active,      \* whether the screen knows it to be
  visible,     \* whether anyone can see the screen
  looked,      \* how long it has been active and visible
  gone,        \* the sessions whose finish has been and left
  changes
raceScreenVars == <<status, state, driving, spot, board, marks, requests, open, active,
                    visible, looked, gone, changes>>
feedVars   == <<status, state, driving, spot>>
screenVars == <<board, marks, gone>>

(* The longest a screen goes without hearing how a request of it went: a   *)
(* poll, and the time the request may take.                                *)
Slack == 2

Watched == active /\ visible

Changes == changes < MaxChanges /\ changes' = changes + 1

ScreenInit ==
  /\ \E s \in RaceSessions : driving = [r \in Rigs |-> s]
  /\ state = [s \in Sessions |-> "racing"]
  /\ spot = [r \in Rigs |-> Cardinality({q \in Rigs : q <= r})]
  /\ status = {}
  /\ board = InitialBoard /\ marks = <<>> /\ requests = <<>>
  /\ open = TRUE /\ active = TRUE /\ visible = TRUE
  /\ looked = 0 /\ gone = {} /\ changes = 0
-----------------------------------------------------------------------------
(* The rigs.  A car's position is its place, and it has done the more laps *)
(* the further ahead it is.                                                *)
Rank(r) == Cardinality({q \in Rigs : driving[q] = driving[r] /\ spot[q] <= spot[r]})

ReportOf(r) ==
  [rig |-> r, age |-> 0, session |-> driving[r], isRace |-> driving[r] \in RaceSessions,
   state |-> state[driving[r]], completed |-> Cardinality(Rigs) - Rank(r),
   position |-> Rank(r)]

(* The upsert of POST /api/agent/race-status.                              *)
Report(r) ==
  /\ driving[r] # None /\ ReportOf(r) \notin status
  /\ status' = {x \in status : x.rig # r} \cup {ReportOf(r)}
  /\ UNCHANGED <<state, driving, spot, screenVars, requests, open, active, visible, looked, changes>>

Overtake(r, q) ==
  /\ Changes
  /\ r # q /\ driving[r] # None /\ driving[q] = driving[r] /\ spot[r] = spot[q] + 1
  /\ spot' = [spot EXCEPT ![r] = spot[q], ![q] = spot[r]]
  /\ UNCHANGED <<status, state, driving, screenVars, requests, open, active, visible, looked>>

(* A rig leaves its session, or goes to another.                           *)
Drive(r, s) ==
  /\ Changes
  /\ driving[r] # s
  /\ driving' = [driving EXCEPT ![r] = s]
  /\ UNCHANGED <<status, state, spot, screenVars, requests, open, active, visible, looked>>

(* The chequered flag, or a restart.                                       *)
Turn(s, to) ==
  /\ Changes
  /\ s \in RaceSessions /\ to # state[s] /\ \E r \in Rigs : driving[r] = s
  /\ state' = [state EXCEPT ![s] = to]
  /\ UNCHANGED <<status, driving, spot, screenVars, requests, open, active, visible, looked>>
-----------------------------------------------------------------------------
(* poll(): nothing while a request is in flight.  stop(): the one in       *)
(* flight is abandoned.                                                    *)
NewRequest == [answer |-> None, served |-> FALSE, age |-> 0, stopped |-> FALSE, late |-> FALSE]

InFlight(sent) == {i \in DOMAIN sent : ~sent[i].stopped}

Poll(sent) == IF InFlight(sent) = {} THEN Append(sent, NewRequest) ELSE sent

Stop(sent) == [i \in DOMAIN sent |-> [sent[i] EXCEPT !.stopped = TRUE]]

(* GET /api/race/live reads the reports.                                   *)
Serve(i) ==
  /\ ~requests[i].served /\ ~requests[i].stopped
  /\ requests' = [requests EXCEPT ![i].served = TRUE, ![i].answer = LiveRace(status, open)]
  /\ UNCHANGED <<feedVars, screenVars, open, active, visible, looked, changes>>

(* A request is over: whoever answers before an earlier one is the later   *)
(* (current()).                                                            *)
Over(sent, i) ==
  LET overtaken == [j \in DOMAIN sent |->
                      [sent[j] EXCEPT !.late = @ \/ (j < i /\ ~sent[i].stopped)]]
  IN  RemoveAt(overtaken, i)

Heard(i) == ~requests[i].stopped /\ ~requests[i].late

(* What applyFeed does with the marks: none across two races; a rig that   *)
(* changed place is marked anew.                                           *)
MarksAfter(before, next) ==
  IF before = None \/ next = None \/ before.session # next.session THEN <<>>
  ELSE LET moved == PlaceChanges(before, next)
       IN  [r \in DOMAIN moved \cup DOMAIN marks |->
              IF r \in DOMAIN moved
              THEN [delta |-> moved[r], left |-> Highlight]
              ELSE marks[r]]

Finishing(b) == b.race # None /\ b.race.state = "flag"

(* The finishes that have been and left, and have not been shown since.    *)
GoneAfter(before, next) ==
  (gone \cup IF Finishing(before) /\ (next.race = None \/ next.race.session # before.race.session)
             THEN {before.race.session} ELSE {})
  \ IF next.race # None THEN {next.race.session} ELSE {}

Answer(i) ==
  /\ requests[i].served
  /\ requests' = Over(requests, i)
  /\ IF Heard(i)
     THEN /\ board' = ApplyRaceFeed(board, requests[i].answer)
          /\ marks' = MarksAfter(board.race, board'.race)
          /\ gone' = GoneAfter(board, board')
     ELSE UNCHANGED screenVars
  /\ UNCHANGED <<feedVars, open, active, visible, looked, changes>>

(* The request fails, is timed out, or was aborted.                        *)
Fail(i) ==
  /\ requests' = Over(requests, i)
  /\ IF Heard(i)
     THEN /\ board' = ApplyRaceFeedFailure(board)
          /\ gone' = GoneAfter(board, board')
          /\ UNCHANGED marks
     ELSE UNCHANGED screenVars
  /\ UNCHANGED <<feedVars, open, active, visible, looked, changes>>
-----------------------------------------------------------------------------
(* Staff open or close the round; the screen hears of it with its own next *)
(* refresh, and starts or stops polling.                                   *)
TurnRound ==
  /\ Changes
  /\ open' = ~open
  /\ UNCHANGED <<feedVars, screenVars, requests, active, visible, looked>>

Activate ==
  /\ open /\ ~active
  /\ active' = TRUE /\ requests' = Poll(requests) /\ looked' = 0
  /\ UNCHANGED <<feedVars, screenVars, open, visible, changes>>

Deactivate ==
  /\ ~open /\ active
  /\ active' = FALSE /\ requests' = Stop(requests) /\ looked' = 0
  /\ UNCHANGED <<feedVars, screenVars, open, visible, changes>>

(* useVisiblePoll: a hidden screen's timer stops; one that is looked at    *)
(* again asks at once.                                                     *)
Hide ==
  /\ Changes
  /\ visible /\ visible' = FALSE /\ looked' = 0
  /\ UNCHANGED <<feedVars, screenVars, requests, open, active>>

Look ==
  /\ ~visible /\ visible' = TRUE
  /\ requests' = IF active THEN Poll(requests) ELSE requests
  /\ looked' = 0
  /\ UNCHANGED <<feedVars, screenVars, open, active, changes>>

(* The board leaves the screen and is mounted again: the wall's rotation   *)
(* goes past it, or the page is loaded anew.  Nothing of it is kept.       *)
Remount ==
  /\ Changes
  /\ board' = InitialBoard /\ marks' = <<>> /\ gone' = {}
  /\ active' = open
  /\ requests' = IF open THEN Poll(Stop(requests)) ELSE Stop(requests)
  /\ looked' = 0
  /\ UNCHANGED <<feedVars, open, visible>>

Aged(n, most) == IF n < most THEN n + 1 ELSE n

FinishAged(finish) ==
  IF finish = None THEN None ELSE [finish EXCEPT !.age = Aged(@, FinishHold)]

PollTick ==
  /\ \A r \in Rigs : driving[r] # None => ReportOf(r) \in status
  /\ \A i \in DOMAIN requests : requests[i].age = 0
  /\ status' = {IF driving[x.rig] # None THEN x ELSE [x EXCEPT !.age = @ + 1] :
                   x \in {x \in status : x.age < DropAfter}}
  /\ board' = [board EXCEPT !.raceAge = Aged(@, DropAfter + Slack + 1),
                            !.finish = FinishAged(@)]
  /\ marks' = [r \in {r \in DOMAIN marks : marks[r].left > 1} |-> [marks[r] EXCEPT !.left = @ - 1]]
  /\ LET older == [i \in DOMAIN requests |-> [requests[i] EXCEPT !.age = @ + 1]]
     IN  requests' = IF Watched THEN Poll(older) ELSE older
  /\ looked' = Aged(looked, Slack + 1)
  /\ UNCHANGED <<state, driving, spot, open, active, visible, gone, changes>>

ScreenNext ==
  \/ \E r \in Rigs : \/ Report(r)
                     \/ \E q \in Rigs : Overtake(r, q)
                     \/ \E s \in Sessions \cup {None} : Drive(r, s)
  \/ \E s \in Sessions, to \in {"racing", "flag"} : Turn(s, to)
  \/ \E i \in DOMAIN requests : Serve(i) \/ Answer(i) \/ Fail(i)
  \/ TurnRound \/ Activate \/ Deactivate \/ Hide \/ Look \/ Remount
  \/ PollTick

ScreenSpec == ScreenInit /\ [][ScreenNext]_raceScreenVars
-----------------------------------------------------------------------------
(* Neither a feed that fails or hangs, nor a tab nobody saw for a while,   *)
(* nor a round that closed and another that opened leaves an old race on   *)
(* the screen: what someone has been looking at for longer than a request  *)
(* takes is no older than the feed itself would keep a silent rig.         *)
RaceIsNotFrozen ==
  Watched /\ board.race # None => board.raceAge <= DropAfter + Slack \/ looked <= Slack

(* A race that has had its time under the flag does not come back while    *)
(* its rigs still report the flag, as long as it is the last race the      *)
(* screen saw flagged and the board stays mounted (lib/race-board.ts       *)
(* applyRaceFeed).                                                         *)
FinishedRaceStaysGone ==
  [][\A s \in gone :
       board.finish # None /\ board.finish.session = s /\ board.finish.age >= FinishHold
       => ~(Finishing(board') /\ board'.race.session = s)]_raceScreenVars

(* A rig is marked for a pass only: between the two answers it and some    *)
(* other rig changed order.  A rig that joins or drops out moves the place *)
(* numbers and marks nobody.                                               *)
Ahead(rows, r, q) == \E i, j \in DOMAIN rows : i < j /\ rows[i] = r /\ rows[j] = q
MarksArePasses ==
  [][\A r \in DOMAIN marks' :
       (r \in DOMAIN marks => marks'[r].left > marks[r].left \/ marks'[r].delta # marks[r].delta)
       => \E q \in Rigs : \/ Ahead(board.race.rows, r, q) /\ Ahead(board'.race.rows, q, r)
                          \/ Ahead(board.race.rows, q, r) /\ Ahead(board'.race.rows, r, q)]_raceScreenVars
=============================================================================
