------------------------------- MODULE TvWall -------------------------------
(***************************************************************************)
(* The wall display at /tv: the rotation engine of components/tv/           *)
(* tv-screen.tsx, the boards it plays (components/tv/board-types.tsx) with  *)
(* the holds they ask for, the feeds it loads them from and the health of   *)
(* those loads (lib/tv-feed-health.ts), in its two modes, the venue's       *)
(* rotation and the event view with its list (AutoScroll).                  *)
(*                                                                          *)
(* The page is one thread: between two awaits it runs alone, and what it    *)
(* awaits is one request at a time. Deadlines count down; time waits for a  *)
(* tick that is due and for a request that has reached its timeout. The     *)
(* server's answer is read when it arrives, and may be as old as the        *)
(* request.                                                                 *)
(***************************************************************************)
EXTENDS Screens, AutoScroll, Sequences, FiniteSets

CONSTANTS
  TrackOrder,       \* every track, in the order of compareTracks
  Drivers,
  Slowest,          \* lap times 1..Slowest; 0 is no lap
  RowsThatFit,      \* rows of the event view that need no scrolling
  SlideTime,        \* SLIDE_MS
  RefreshTime,      \* REFRESH_MS
  RotationTime,     \* ROTATION_REFRESH_MS
  RetryTime,        \* RETRY_MS
  LoadTimeout,      \* LOAD_TIMEOUT_MS
  Celebration,      \* CELEBRATION_MS
  LeagueTakeover,   \* LEAGUE_TAKEOVER_MS
  EarlierLaps,      \* the laps there may be when the page opens
  MaxHappenings,    \* bound: mode -> what happens in the venue and to the network
  MaxFailures,      \* bound: failures in a row that are counted apart
  MaxHands          \* bound: what hands do to the list

Never == 1000       \* Number.POSITIVE_INFINITY

Tracks == {TrackOrder[i] : i \in DOMAIN TrackOrder}

(* What a tick awaits: which request, the slide of a pass it is for,        *)
(* whether the pass saw a failure, what the tick found due before it read   *)
(* the list, and what is left of the request's time.                        *)
Due == [advance : BOOLEAN, free : BOOLEAN, refresh : BOOLEAN]

Awaits ==
  [for : {"list", "advance", "refresh"}, step : Nat, sawFailure : BOOLEAN,
   due : Due \cup {None}, left : 0..LoadTimeout]

(* The times of tv-screen.tsx and board-types.tsx: a hold outlasts the wait *)
(* for a refresh, its answer and a read of the list before it.              *)
ASSUME WallTimesAssumption ==
  /\ {SlideTime, RefreshTime, RotationTime, RetryTime, LoadTimeout, Celebration,
      LeagueTakeover} \subseteq 1..(Never - 1)
  /\ RefreshTime + 2 * LoadTimeout < LeagueTakeover
  /\ Celebration <= LeagueTakeover
  /\ LoadTimeout < RotationTime

ASSUME WallAssumption ==
  /\ TrackOrder \in Seq(Tracks)
  /\ None \notin Awaits \cup Due \cup Int

VARIABLES
  \* the venue
  laps,            \* the valid laps: driver, track, day and time
  banned,          \* drivers.status # 'active'
  sessions,        \* rig -> the tracks its heartbeats of the live window name
  combo,           \* today's featured combo, a track, or None
  season,          \* the season has rounds
  openOn,          \* round_date of the open round, or None
  today,           \* venue_today()
  reachable,       \* requests are answered
  happened,
  \* the engine
  mode,
  rotation, view, index,
  stale, offline,
  holdFor, advanceIn, refreshIn, rotationIn,
  awaits,          \* what the tick awaits, or None between ticks
  \* the boards
  previousBests,
  health,          \* lastOk and consecutiveFailures of tv-feed-health.ts
  \* for the properties
  age,             \* of the numbers of a wall that says they are live
  napped,          \* the page slept and has shown nothing since
  emptied,         \* the last refresh of the board on the wall was empty
  hands

venue == <<laps, banned, sessions, combo, season, openOn, today, reachable, happened>>
timers == <<holdFor, advanceIn, refreshIn, rotationIn>>
shown == <<view, index, stale, offline, age, napped, emptied>>
list == <<overflows, frame>>
vars == <<venue, mode, rotation, shown, timers, awaits, previousBests, health, list, hands>>

MostOf(a, b) == IF a > b THEN a ELSE b

(* The oldest numbers a wall may call live: a hold, and the time of their   *)
(* own answer, of two reads of the list and a refresh between them, and of  *)
(* a pass over a full list.                                                 *)
FreshFor == LeagueTakeover + 4 * LoadTimeout + LoadTimeout * (Len(TrackOrder) + 2)
OldestAge == FreshFor + 1

-----------------------------------------------------------------------------
(* The feeds.                                                               *)

Counted == {l \in laps : l.driver \notin banned}

(* listBoards(): the tracks with laps. *)
ListBoards == {l.track : l \in Counted}

(* listLiveTracks() and liveTracks(): the tracks rigs are on, of which only *)
(* the featured one counts on a day that has one.                           *)
ListLiveTracks == {t \in UNION {sessions[r] : r \in Rigs} : combo \in {None, t}}

(* getBoard(): the drivers on a track's board. *)
GetBoard(track) == {l.driver : l \in {k \in Counted : k.track = track}}

(* v_fastest_tonight, as /api/leaderboard/tonight answers it: driver ->     *)
(* best lap of today on the featured combo, or on any track without one.    *)
FastestTonight ==
  LET Todays(d) == {l.time : l \in {k \in Counted : /\ k.driver = d /\ k.day = today
                                                  /\ combo \in {None, k.track}}}
  IN [d \in Drivers |-> IF Todays(d) = {} THEN 0
                        ELSE CHOOSE t \in Todays(d) : \A u \in Todays(d) : t <= u]

-----------------------------------------------------------------------------
(* The rotation lists and the boards.                                       *)

(* rotationTracks: the tracks with laps, and among them the live ones that  *)
(* have none, in the same order. A slide carries what its list said of it.  *)
TrackSlides(boards, live) ==
  LET played == {i \in DOMAIN TrackOrder : TrackOrder[i] \in boards \union live}
      Nth(n) == TrackOrder[CHOOSE i \in played : Cardinality({j \in played : j <= i}) = n]
  IN [n \in 1..Cardinality(played) |-> [board |-> Nth(n), live |-> Nth(n) \notin boards]]

BuildRotation(boards, live) ==
  IF mode = "event"
    THEN <<[board |-> "event", live |-> FALSE]>>
    ELSE <<[board |-> "league", live |-> FALSE], [board |-> "tonight", live |-> FALSE]>>
           \o TrackSlides(boards, live)

IsTonight(board) == board \in {"tonight", "event"}

DrivenBy(rows) == {d \in Drivers : rows[d] # 0}
NobodyToday == DrivenBy(FastestTonight) = {}

(* hasContent of the answer each board's load gets now: a track with no     *)
(* laps plays on the word of the list that named it.                        *)
TrackHasContent(slide) == GetBoard(slide.board) # {} \/ slide.live

HasContent(slide) ==
  CASE slide.board = "league" -> season
    [] IsTonight(slide.board) -> ~NobodyToday
    [] OTHER                  -> TrackHasContent(slide)

(* isOpenTonight of a payload: the round it says is open is of this day.    *)
OpenTonight(round) == round = today

(* usePersonalBest: some driver's best has improved on the last one drawn.  *)
Celebrates(rows) ==
  \E d \in DrivenBy(previousBests) \intersect DrivenBy(rows) : rows[d] < previousBests[d]

(* The hold the board asks for as its effects see a fresh payload.          *)
HoldsForACheer(slide) ==
  IF IsTonight(slide.board) /\ ~Celebrates(FastestTonight) THEN 0 ELSE Celebration

HoldAsked(slide) ==
  CASE slide.board = "league" /\ OpenTonight(openOn)               -> LeagueTakeover
    [] IsTonight(slide.board) /\ Celebrates(FastestTonight)        -> Celebration
    [] OTHER                                                       -> 0

(* The board's effects on a payload just shown: a hold, the baseline of the *)
(* next celebration, and the rows of the event view's list.                 *)
Rows(bests) == Cardinality(DrivenBy(bests))

BoardTakes(slide) ==
  /\ holdFor' = MostOf(holdFor, HoldAsked(slide))
  /\ previousBests' = IF IsTonight(slide.board) THEN FastestTonight ELSE previousBests
  /\ IF slide.board = "event"
       THEN \E scrolled \in {FALSE, Rows(FastestTonight) # Rows(previousBests)} :
              RowsChange(Rows(FastestTonight) > RowsThatFit, scrolled)
       ELSE UNCHANGED list

(* load() of the tonight board drops the baseline on an empty answer. *)
LoadForgets(slide) ==
  previousBests' = IF IsTonight(slide.board) /\ NobodyToday
                     THEN [d \in Drivers |-> 0] ELSE previousBests

(* recordFeedLoad *)
RecordFeedLoad(ok) ==
  health' = [ok |-> ok, failures |-> IF ok THEN 0 ELSE LeastOf(health.failures + 1, MaxFailures)]

-----------------------------------------------------------------------------
(* The engine.                                                              *)

Request(for, step, failed, due) ==
  [for |-> for, step |-> step, sawFailure |-> failed, due |-> due, left |-> LoadTimeout]

Candidate(step) == (index + step) % Len(rotation)
SlideAt(i) == rotation[i + 1]

(* advance(): the next slide is asked for, and RETRY_MS stands until one    *)
(* loads.                                                                   *)
BeginAdvance ==
  /\ advanceIn' = RetryTime
  /\ awaits' = Request("advance", 1, FALSE, None)
  /\ UNCHANGED refreshIn

(* refreshActive() *)
BeginRefresh ==
  /\ refreshIn' = RefreshTime
  /\ awaits' = Request("refresh", 0, FALSE, None)

(* The rest of a tick, by the deadlines as the tick's `now` sees them;      *)
(* `next` is nextAdvanceAt as it stands.                                    *)
GoOn(due, next) ==
  \/ /\ due.advance /\ due.free
     /\ BeginAdvance
  \/ /\ ~(due.advance /\ due.free)
     /\ advanceIn' = next
     /\ IF due.refresh THEN BeginRefresh ELSE awaits' = None /\ UNCHANGED refreshIn

DueNow == [advance |-> advanceIn = 0, free |-> holdFor = 0, refresh |-> refreshIn = 0]

SomethingDue == rotationIn = 0 \/ (advanceIn = 0 /\ holdFor = 0) \/ refreshIn = 0

(* tick(): `now` is read once, before the list is awaited. *)
Tick ==
  /\ awaits = None
  /\ SomethingDue
  /\ IF rotationIn = 0
       THEN /\ rotationIn' = RotationTime
            /\ awaits' = Request("list", 0, FALSE, DueNow)
            /\ UNCHANGED <<advanceIn, refreshIn>>
       ELSE GoOn(DueNow, advanceIn) /\ UNCHANGED rotationIn
  /\ UNCHANGED <<venue, mode, rotation, shown, holdFor, previousBests, health, list, hands>>

Awaiting(for) == awaits # None /\ awaits.for = for

(* refreshRotation() with an answer: the board on screen keeps its place if *)
(* the new list has it, and if not is left at the next chance.              *)
FromTheTop(board, slides) == -1
PlaceOf(board, slides) ==
  IF \E i \in DOMAIN slides : slides[i].board = board
    THEN (CHOOSE i \in DOMAIN slides : slides[i].board = board) - 1 ELSE -1

ListArrives ==
  /\ Awaiting("list")
  /\ reachable
  /\ LET slides == BuildRotation(ListBoards, ListLiveTracks)
         place == IF view = None THEN -1 ELSE PlaceOf(view.slide.board, slides)
         lost == view # None /\ place < 0
         due == [awaits.due EXCEPT !.advance = @ \/ lost]
     IN /\ rotation' = slides
        /\ index' = place
        /\ GoOn(due, IF lost THEN 0 ELSE advanceIn)
  /\ UNCHANGED <<venue, mode, view, stale, offline, age, napped, emptied, holdFor,
                 rotationIn, previousBests, health, list, hands>>

(* refreshRotation() failed: the list it has is kept, and asked for sooner. *)
ListFails ==
  /\ Awaiting("list")
  /\ ~reachable
  /\ rotationIn' = RetryTime
  /\ GoOn(awaits.due, advanceIn)
  /\ UNCHANGED <<venue, mode, rotation, shown, holdFor, previousBests, health, list, hands>>

(* show(): a payload that may have left the server any time since it was    *)
(* asked for.                                                               *)
Shows(slide) ==
  /\ view' = [slide |-> slide, open |-> IF slide.board = "league" THEN openOn ELSE None]
  /\ stale' = FALSE
  /\ offline' = FALSE
  /\ age' \in 0..(LoadTimeout - awaits.left)
  /\ napped' = FALSE
  /\ emptied' = FALSE
  /\ BoardTakes(slide)

(* advance() of a slide that loads and has something to show.               *)
SlideLoads ==
  /\ Awaiting("advance")
  /\ reachable
  /\ LET place == Candidate(awaits.step)
     IN /\ HasContent(SlideAt(place))
        /\ Shows(SlideAt(place))
        /\ index' = place
  /\ RecordFeedLoad(TRUE)
  /\ advanceIn' = SlideTime
  /\ refreshIn' = RefreshTime
  /\ awaits' = None
  /\ UNCHANGED <<venue, mode, rotation, rotationIn, hands>>

(* A slide that failed or is empty: the next one, or the end of the pass    *)
(* with the last good board held as stale, or standby.                      *)
PassSaysNothing(failed) ==
  /\ awaits' = IF awaits.step < Len(rotation)
                 THEN Request("advance", awaits.step + 1, failed, None) ELSE None
  /\ UNCHANGED <<stale, offline, age, napped>>

PassGoesOn(failed) ==
  IF awaits.step < Len(rotation)
    THEN /\ awaits' = Request("advance", awaits.step + 1, failed, None)
         /\ UNCHANGED <<stale, offline, age, napped>>
    ELSE /\ awaits' = None
         /\ stale' = (stale \/ view # None)
         /\ offline' = failed
         /\ age' = OldestAge
         /\ napped' = FALSE

SlideIsSkipped ==
  /\ Awaiting("advance")
  /\ LET slide == SlideAt(Candidate(awaits.step))
     IN IF reachable
          THEN /\ ~HasContent(slide)
               /\ LoadForgets(slide)
               /\ RecordFeedLoad(TRUE)
               /\ PassGoesOn(awaits.sawFailure)
          ELSE /\ RecordFeedLoad(FALSE)
               /\ PassGoesOn(TRUE)
               /\ UNCHANGED previousBests
  /\ UNCHANGED <<venue, mode, rotation, view, index, emptied, timers, list, hands>>

(* refreshActive() with a payload to show. *)
RefreshLoads ==
  /\ Awaiting("refresh")
  /\ reachable
  /\ HasContent(view.slide)
  /\ Shows(view.slide)
  /\ RecordFeedLoad(TRUE)
  /\ awaits' = None
  /\ UNCHANGED <<venue, mode, rotation, index, advanceIn, refreshIn, rotationIn, hands>>

(* refreshActive() of a board that emptied out: move along now.             *)
RefreshIsEmpty ==
  /\ Awaiting("refresh")
  /\ reachable
  /\ ~HasContent(view.slide)
  /\ LoadForgets(view.slide)
  /\ RecordFeedLoad(TRUE)
  /\ advanceIn' = 0
  /\ awaits' = None
  /\ emptied' = TRUE
  /\ UNCHANGED <<venue, mode, rotation, view, index, stale, offline, age, napped, holdFor,
                 refreshIn, rotationIn, list, hands>>

(* refreshActive() failed. *)
RefreshFailsUnsaid ==
  /\ Awaiting("refresh")
  /\ ~reachable
  /\ RecordFeedLoad(FALSE)
  /\ awaits' = None
  /\ UNCHANGED <<venue, mode, rotation, shown, timers, previousBests, list, hands>>

RefreshFails ==
  /\ Awaiting("refresh")
  /\ ~reachable
  /\ stale' = TRUE
  /\ age' = OldestAge
  /\ napped' = FALSE
  /\ RecordFeedLoad(FALSE)
  /\ awaits' = None
  /\ UNCHANGED <<venue, mode, rotation, view, index, offline, emptied, timers, previousBests,
                 list, hands>>

Answers ==
  \/ ListArrives \/ ListFails \/ SlideLoads \/ SlideIsSkipped
  \/ RefreshLoads \/ RefreshIsEmpty \/ RefreshFails

-----------------------------------------------------------------------------
(* The venue, the network, the display and time.                            *)

Happens == happened < MaxHappenings[mode] /\ happened' = happened + 1

page == <<mode, rotation, shown, timers, awaits, previousBests, health, list, hands>>

(* A lap that counts lands (computeValidity: off the featured combo, none). *)
LapLands ==
  /\ Happens
  /\ \E d \in Drivers, t \in Tracks, time \in 1..Slowest :
       /\ combo \in {None, t}
       /\ laps' = laps \union {[driver |-> d, track |-> t, day |-> today, time |-> time]}
  /\ laps' # laps
  /\ UNCHANGED <<banned, sessions, combo, season, openOn, today, reachable, page>>

(* Staff ban a driver, whose laps leave every board. *)
DriverIsBanned ==
  /\ Happens
  /\ \E d \in Drivers \ banned : banned' = banned \union {d}
  /\ UNCHANGED <<laps, sessions, combo, season, openOn, today, reachable, page>>

(* A rig's heartbeat names the track it is on; one it left stays live until *)
(* its reports there age out of the window.                                 *)
RigReports ==
  /\ Happens
  /\ \E r \in Rigs, t \in Tracks :
       sessions' = [sessions EXCEPT ![r] = IF t \in @ THEN @ \ {t} ELSE @ \union {t}]
  /\ UNCHANGED <<laps, banned, combo, season, openOn, today, reachable, page>>

(* Staff open or close the league's round. *)
RoundChanges ==
  /\ Happens
  /\ IF openOn = None THEN openOn' = today /\ season' = TRUE
                      ELSE openOn' = None /\ UNCHANGED season
  /\ UNCHANGED <<laps, banned, sessions, combo, today, reachable, page>>

(* Staff roll the season, which no open round allows. *)
SeasonRolls ==
  /\ Happens
  /\ season /\ openOn = None
  /\ season' = FALSE
  /\ UNCHANGED <<laps, banned, sessions, combo, openOn, today, reachable, page>>

(* Venue midnight, and a featured combo set for the day, by staff or by a   *)
(* round that opens.                                                        *)
MidnightPasses ==
  /\ Happens
  /\ today' = today + 1
  /\ combo' = None
  /\ UNCHANGED <<laps, banned, sessions, season, openOn, reachable, page>>

ComboIsSet ==
  /\ Happens
  /\ combo' \in Tracks \ {combo}
  /\ UNCHANGED <<laps, banned, sessions, season, openOn, today, reachable, page>>

NetworkChanges ==
  /\ Happens
  /\ reachable' = ~reachable
  /\ UNCHANGED <<laps, banned, sessions, combo, season, openOn, today, page>>

(* onVisible: the network is back, or the display, with every deadline      *)
(* passed while it slept. Between two ticks of a sleeping page the request  *)
(* it awaited has timed out too.                                            *)
WakeUp(nap) ==
  /\ Happens
  /\ advanceIn' = 0
  /\ IF nap
       THEN /\ holdFor' = 0
            /\ refreshIn' = IF refreshIn = Never THEN Never ELSE 0
            /\ rotationIn' = IF rotationIn = Never THEN Never ELSE 0
            /\ age' = OldestAge
            /\ napped' = TRUE
            /\ ListSleeps
       ELSE UNCHANGED <<holdFor, refreshIn, rotationIn, age, napped, list>>
  /\ awaits' = IF awaits = None THEN None
               ELSE [awaits EXCEPT !.left = IF nap THEN 0 ELSE @,
                                   !.due = IF @ = None THEN None ELSE [@ EXCEPT !.advance = TRUE]]
  /\ UNCHANGED <<laps, banned, sessions, combo, season, openOn, today, reachable, mode,
                 rotation, view, index, stale, offline, emptied, previousBests, health, hands>>

Venue ==
  \/ LapLands \/ DriverIsBanned \/ RigReports \/ RoundChanges \/ SeasonRolls
  \/ MidnightPasses \/ ComboIsSet \/ NetworkChanges
  \/ \E nap \in BOOLEAN : WakeUp(nap)

(* A hand on the list of the event view. *)
Hand ==
  /\ mode = "event" /\ view # None
  /\ hands < MaxHands
  /\ hands' = hands + 1
  /\ HandOnTheList
  /\ UNCHANGED <<venue, mode, rotation, shown, timers, awaits, previousBests, health, overflows>>

ListResumes ==
  /\ ResumesIfIdle
  /\ UNCHANGED <<venue, mode, rotation, shown, timers, awaits, previousBests, health, overflows,
                 hands>>

CountDown(t) == IF t = Never THEN Never ELSE MostOf(t - 1, 0)

TimePasses ==
  /\ awaits = None => ~SomethingDue
  /\ awaits # None => awaits.left > 0
  /\ MayElapse
  /\ Elapses
  /\ holdFor' = CountDown(holdFor)
  /\ advanceIn' = CountDown(advanceIn)
  /\ refreshIn' = CountDown(refreshIn)
  /\ rotationIn' = CountDown(rotationIn)
  /\ awaits' = IF awaits = None THEN None ELSE [awaits EXCEPT !.left = @ - 1]
  /\ age' = LeastOf(age + 1, OldestAge)
  /\ UNCHANGED <<venue, mode, rotation, view, index, stale, offline, napped, emptied,
                 previousBests, health, overflows, hands>>
-----------------------------------------------------------------------------
(* The page as the server renders it: with the list, or with none when the  *)
(* query for it failed: of a new venue, or of one with laps and a season    *)
(* (which the event view never reads).                                      *)
EngineStarts ==
  /\ view = None
  /\ index = -1
  /\ stale = FALSE
  /\ offline = FALSE
  /\ holdFor = 0
  /\ advanceIn = 0
  /\ refreshIn = Never
  /\ awaits = None
  /\ previousBests = [d \in Drivers |-> 0]
  /\ health = [ok |-> TRUE, failures |-> 0]

Init ==
  /\ ListInit
  /\ EngineStarts
  /\ mode \in {"rotation", "event"}
  /\ laps \in {{}, EarlierLaps}
  /\ banned = {}
  /\ sessions = [r \in Rigs |-> {}]
  /\ combo = None
  /\ season = (mode = "rotation" /\ laps # {})
  /\ today = 0
  /\ openOn \in {None} \union (IF season THEN {today} ELSE {})
  /\ reachable = TRUE
  /\ happened = 0
  /\ \E seed \in {ListBoards, {}} :
       /\ rotation = BuildRotation(seed, {})
       /\ rotationIn = IF mode = "event" THEN Never ELSE IF seed = {} THEN 0 ELSE RotationTime
  /\ age = OldestAge
  /\ napped = FALSE
  /\ emptied = FALSE
  /\ hands = 0

Next == Tick \/ Answers \/ Venue \/ Hand \/ ListResumes \/ TimePasses

Fairness ==
  /\ WF_vars(Tick)
  /\ WF_vars(Answers)
  /\ WF_vars(ListResumes)
  /\ WF_vars(TimePasses)

Spec == Init /\ [][Next]_vars /\ Fairness
-----------------------------------------------------------------------------
(* A wall that says its numbers are live shows none older than the pace of  *)
(* its refreshes: the wait, the answer, the read of the list before it and  *)
(* the time its own numbers took. Only a pass under way, and a hold over a  *)
(* board that emptied, keep older ones up, and no longer than both together *)
(* (load, refreshActive, advance). A page back from sleep has until its     *)
(* first answer.                                                            *)
SaysLive == view # None /\ ~stale /\ ~offline

LiveWallIsFresh ==
  SaysLive /\ ~napped =>
    /\ age <= FreshFor
    /\ ~emptied /\ ~Awaiting("advance") => age <= RefreshTime + 3 * LoadTimeout

(* Between two passes a feed that failed last is told to the room: the      *)
(* health the heartbeat reports to the monitor and the wordmark of the      *)
(* footer do not disagree (tv-feed-health.ts and tv-screen.tsx keep them    *)
(* apart).                                                                  *)
FailureIsTold ==
  health.failures > 0 /\ ~Awaiting("advance") => stale \/ offline

(* League night keeps the wall: the board of a round open today is left     *)
(* only when the feed has failed it, when the season it shows is gone or    *)
(* when the display slept. The refreshes renew the hold before it runs out. *)
LeagueKeepsTheWall ==
  [][/\ view # None /\ view'.slide # view.slide
     /\ view.slide.board = "league" /\ view.open = today
     => stale \/ napped \/ emptied]_vars

(* With the network back for good and no round open, every track with laps  *)
(* has its turn again and again, whatever the list did meanwhile.           *)
EveryTrackHasItsTurn ==
  \A t \in Tracks :
    <>[](mode = "rotation" /\ reachable /\ openOn # today /\ t \in ListBoards)
      => []<>(view # None /\ view.slide.board = t)

(* A list nobody has touched goes back to scrolling: within the idle time,  *)
(* or the stale one on top of it when the frame missed a lift, and once it  *)
(* is overdue, within the idle time of the last refresh that moved rows     *)
(* under a finger the frame still believes in. No other refresh holds it    *)
(* (onScroll, armIdle and STALE_TOUCH_MS).                                  *)
ListGoesHome ==
  held => \/ handsOff <= IdleResume + StaleTouch
          \/ touches # 0 /\ rowsAgo <= IdleResume
=============================================================================
