---------------------------- MODULE ScreenProofs -----------------------------
(***************************************************************************)
(* Proofs about the public screens.                                        *)
(*                                                                         *)
(* TvWall and its list, for any tracks, drivers and rigs, any number of    *)
(* happenings and hands, and any times in the order the code's are in      *)
(* (WallTimesAssumption): a wall that says it is live shows numbers no     *)
(* older than FreshFor, a failure is told, league night keeps the wall,    *)
(* and the list goes home.  The argument counts time by what the engine    *)
(* awaits.  The wait for a refresh, or its answer, or a read of the list   *)
(* before it, bounds the age of a board (FreshOnTime) and what has run of  *)
(* a league's hold (LeagueHolds), which therefore never runs out; a board  *)
(* that emptied is bounded by the hold over it (EmptiedOnTime), and a pass *)
(* by its slides (PassOnTime).                                             *)
(*                                                                         *)
(* RaceScreen, for any rigs, sessions and answers, any number of changes   *)
(* and any times a race is not held longer than a silent rig is kept       *)
(* (RaceScreenAssumption): no old race stays on a screen somebody looks    *)
(* at, and a race that has had its time under the flag does not come back. *)
(* One request at a time is in flight, the last one sent, so that nothing  *)
(* but being stopped keeps its end from the board (RequestsSound); hence   *)
(* the race is no older than DropAfter when a request has ended, and ages  *)
(* by the one poll before the next and the one the request may take        *)
(* (RaceOnTime).                                                           *)
(***************************************************************************)
EXTENDS TvWall, RaceScreen, FiniteSetTheorems, SequenceTheorems, TLAPS

Typed ==
  /\ Len(rotation) \in 1..(Len(TrackOrder) + 2)
  /\ holdFor \in 0..LeagueTakeover
  /\ advanceIn \in Nat /\ rotationIn \in Nat
  /\ refreshIn \in (0..RefreshTime) \cup {Never}
  /\ age \in Nat
  /\ awaits \in Awaits \cup {None}
  /\ view # None \/ Awaiting("refresh") => refreshIn <= RefreshTime
  /\ Awaiting("advance") => awaits.step \in 1..Len(rotation)
  /\ Awaiting("list") => awaits.due \in Due
  /\ Awaiting("list") => napped \/ rotationIn + LoadTimeout - awaits.left >= RotationTime

(* Whatever only the venue, a hand or the list's timer does.               *)
EngineRests == UNCHANGED <<rotation, shown, timers, awaits, health>>

-----------------------------------------------------------------------------
LEMMA WallTimes ==
  /\ Never = 1000
  /\ RefreshTime \in Nat /\ 0 < RefreshTime /\ RefreshTime < Never
  /\ RotationTime \in Nat /\ 0 < RotationTime /\ RotationTime < Never
  /\ RetryTime \in Nat /\ 0 < RetryTime /\ RetryTime < Never
  /\ SlideTime \in Nat
  /\ LoadTimeout \in Nat /\ 0 < LoadTimeout
  /\ Celebration \in Nat /\ Celebration <= LeagueTakeover
  /\ LeagueTakeover \in Nat /\ LeagueTakeover < Never
  /\ RefreshTime + 2 * LoadTimeout < LeagueTakeover
  /\ LoadTimeout < RotationTime
<1> DEFINE Time(t) == t \in Nat /\ 0 < t /\ t < Never
<1>1. ASSUME NEW t \in {SlideTime, RefreshTime, RotationTime, RetryTime, LoadTimeout, Celebration, LeagueTakeover}
      PROVE  Time(t)
  <2>1. t \in 1..(Never - 1)
    BY WallTimesAssumption
  <2> QED
    BY <2>1 DEF Never
<1>2. /\ Time(SlideTime) /\ Time(RefreshTime) /\ Time(RotationTime) /\ Time(RetryTime)
      /\ Time(LoadTimeout) /\ Time(Celebration) /\ Time(LeagueTakeover)
  <2> HIDE DEF Time
  <2> QED
    BY <1>1
<1>3. Never = 1000
  BY DEF Never
<1> QED
  BY <1>2, <1>3, WallTimesAssumption

LEMMA Requested ==
  ASSUME NEW for \in {"list", "advance", "refresh"}, NEW step \in Nat, NEW failed \in BOOLEAN, NEW due \in Due \cup {None}
  PROVE  /\ Request(for, step, failed, due) \in Awaits
         /\ Request(for, step, failed, due) # None
         /\ Request(for, step, failed, due).for = for
         /\ Request(for, step, failed, due).step = step
         /\ Request(for, step, failed, due).sawFailure = failed
         /\ Request(for, step, failed, due).due = due
         /\ Request(for, step, failed, due).left = LoadTimeout
<1>1. LoadTimeout \in 0..LoadTimeout
  BY WallTimes
<1>2. Request(for, step, failed, due) \in Awaits
  BY <1>1 DEF Request, Awaits
<1> QED
  BY <1>2, WallAssumption DEF Request

LEMMA PassRequested ==
  \E a \in Awaits : /\ a = Request("advance", 1, FALSE, None)
                    /\ a # None /\ a.for = "advance" /\ a.step = 1 /\ a.left = LoadTimeout
<1> DEFINE a == Request("advance", 1, FALSE, None)
<1>1. LoadTimeout \in 0..LoadTimeout
  BY WallTimes
<1>2. a \in Awaits
  BY <1>1 DEF Request, Awaits
<1>3. a # None
  BY <1>2, WallAssumption
<1>4. a.for = "advance" /\ a.step = 1 /\ a.due = None /\ a.left = LoadTimeout
  BY DEF Request
<1> QED
  BY <1>2, <1>3, <1>4

LEMMA RefreshRequested ==
  \E a \in Awaits : /\ a = Request("refresh", 0, FALSE, None)
                    /\ a # None /\ a.for = "refresh" /\ a.left = LoadTimeout
<1> DEFINE a == Request("refresh", 0, FALSE, None)
<1>1. LoadTimeout \in 0..LoadTimeout
  BY WallTimes
<1>2. a \in Awaits
  BY <1>1 DEF Request, Awaits
<1>3. a # None
  BY <1>2, WallAssumption
<1>4. a.for = "refresh" /\ a.step = 0 /\ a.due = None /\ a.left = LoadTimeout
  BY DEF Request
<1> QED
  BY <1>2, <1>3, <1>4

LEMMA ListRequested ==
  ASSUME NEW due \in Due
  PROVE  \E a \in Awaits : /\ a = Request("list", 0, FALSE, due)
                           /\ a # None /\ a.for = "list" /\ a.due = due /\ a.left = LoadTimeout
<1> DEFINE a == Request("list", 0, FALSE, due)
<1>1. LoadTimeout \in 0..LoadTimeout
  BY WallTimes
<1>2. a \in Awaits
  BY <1>1 DEF Request, Awaits
<1>3. a # None
  BY <1>2, WallAssumption
<1>4. a.for = "list" /\ a.step = 0 /\ a.due = due /\ a.left = LoadTimeout
  BY DEF Request
<1> QED
  BY <1>2, <1>3, <1>4

LEMMA NextRequested ==
  ASSUME NEW step \in Nat, NEW failed \in BOOLEAN
  PROVE  \E a \in Awaits : /\ a = Request("advance", step, failed, None)
                           /\ a # None /\ a.for = "advance" /\ a.step = step
                           /\ a.sawFailure = failed /\ a.left = LoadTimeout
<1> DEFINE a == Request("advance", step, failed, None)
<1>1. LoadTimeout \in 0..LoadTimeout
  BY WallTimes
<1>2. a \in Awaits
  BY <1>1 DEF Request, Awaits
<1>3. a # None
  BY <1>2, WallAssumption
<1>4. a.for = "advance" /\ a.step = step /\ a.sawFailure = failed /\ a.due = None /\ a.left = LoadTimeout
  BY DEF Request
<1> QED
  BY <1>2, <1>3, <1>4

(* The engine's numbers, as the arithmetic below needs them.               *)
LEMMA Numbers ==
  ASSUME Typed
  PROVE  /\ holdFor \in Nat /\ holdFor <= LeagueTakeover /\ holdFor # Never
         /\ advanceIn \in Nat /\ rotationIn \in Nat /\ age \in Nat
         /\ refreshIn \in Nat /\ (refreshIn <= RefreshTime \/ refreshIn = Never)
         /\ refreshIn <= RefreshTime => refreshIn # Never
BY WallTimes DEF Typed

LEMMA NowIsDue == DueNow \in Due
BY DEF DueNow, Due

(* What the rest of a tick comes to.                                       *)
StartsPass(due) ==
  /\ due.advance /\ due.free
  /\ advanceIn' = RetryTime /\ refreshIn' = refreshIn
  /\ awaits' = Request("advance", 1, FALSE, None)

StartsRefresh(due, next) ==
  /\ ~(due.advance /\ due.free) /\ due.refresh
  /\ advanceIn' = next /\ refreshIn' = RefreshTime
  /\ awaits' = Request("refresh", 0, FALSE, None)

Idles(due, next) ==
  /\ ~(due.advance /\ due.free) /\ ~due.refresh
  /\ advanceIn' = next /\ refreshIn' = refreshIn
  /\ awaits' = None

LEMMA GoesOn ==
  ASSUME NEW due, NEW next, GoOn(due, next)
  PROVE  StartsPass(due) \/ StartsRefresh(due, next) \/ Idles(due, next)
BY DEF GoOn, BeginAdvance, BeginRefresh, StartsPass, StartsRefresh, Idles

LEMMA AwaitsTyped ==
  ASSUME awaits \in Awaits
  PROVE  /\ awaits # None
         /\ awaits.for \in {"list", "advance", "refresh"}
         /\ awaits.step \in Nat /\ awaits.sawFailure \in BOOLEAN
         /\ awaits.due \in Due \cup {None}
         /\ awaits.left \in 0..LoadTimeout /\ awaits.left \in Nat /\ awaits.left <= LoadTimeout
<1>1. awaits # None
  BY WallAssumption
<1>2. awaits.left \in 0..LoadTimeout /\ LoadTimeout \in Nat
  BY WallTimes DEF Awaits
<1> QED
  BY <1>1, <1>2 DEF Awaits

(* A rotation holds the league's board, tonight's and the tracks that play.*)
LEMMA TwoMore ==
  ASSUME NEW S, NEW s \in Seq(S), NEW x \in S, NEW y \in S
  PROVE  Len(<<x, y>> \o s) = Len(s) + 2
<1>1. <<x, y>> \in Seq(S) /\ Len(<<x, y>>) = 2
  OBVIOUS
<1>2. Len(s) \in Nat
  BY LenProperties
<1> QED
  BY <1>1, <1>2, ConcatProperties

LEMMA TracksPlayed ==
  ASSUME NEW boards, NEW lives
  PROVE  /\ \E S : TrackSlides(boards, lives) \in Seq(S)
         /\ Len(TrackSlides(boards, lives)) \in 0..Len(TrackOrder)
<1> DEFINE played == {i \in DOMAIN TrackOrder : TrackOrder[i] \in boards \union lives}
           Nth(n) == TrackOrder[CHOOSE i \in played : Cardinality({j \in played : j <= i}) = n]
           k == Cardinality(played)
           slides == [n \in 1..k |-> [board |-> Nth(n), live |-> Nth(n) \notin boards]]
           S == {slides[n] : n \in 1..k}
<1>1. TrackSlides(boards, lives) = slides
  BY DEF TrackSlides
<1>2. Len(TrackOrder) \in Nat /\ DOMAIN TrackOrder = 1..Len(TrackOrder)
  BY WallAssumption, LenProperties
<1>3. IsFiniteSet(1..Len(TrackOrder)) /\ Cardinality(1..Len(TrackOrder)) = Len(TrackOrder)
  <2>1. 1 \in Int /\ Len(TrackOrder) \in Int
    BY <1>2
  <2>2. /\ IsFiniteSet(1..Len(TrackOrder))
        /\ Cardinality(1..Len(TrackOrder)) = IF 1 > Len(TrackOrder) THEN 0 ELSE Len(TrackOrder) - 1 + 1
    BY <2>1, FS_Interval
  <2> QED
    BY <1>2, <2>2
<1>4. k \in Nat /\ k <= Len(TrackOrder)
  BY <1>2, <1>3, FS_Subset, FS_CardinalityType
<1>5. DOMAIN slides = 1..k
  OBVIOUS
<1>6. slides = [n \in 1..k |-> slides[n]]
  OBVIOUS
<1> HIDE DEF k, slides
<1>7. slides \in [1..k -> S]
  BY <1>6
<1> HIDE DEF S
<1>8. slides \in Seq(S) /\ Len(slides) = k
  BY <1>4, <1>5, <1>7
<1> QED
  BY <1>1, <1>2, <1>4, <1>8

LEMMA RotationFits ==
  ASSUME NEW boards, NEW lives
  PROVE  Len(BuildRotation(boards, lives)) \in 1..(Len(TrackOrder) + 2)
<1> DEFINE tracks == TrackSlides(boards, lives)
           first == [board |-> "league", live |-> FALSE]
           second == [board |-> "tonight", live |-> FALSE]
<1>1. Len(TrackOrder) \in Nat
  BY WallAssumption, LenProperties
<1>2. PICK S : tracks \in Seq(S)
  BY TracksPlayed
<1>3. Len(tracks) \in 0..Len(TrackOrder)
  BY TracksPlayed
<1> HIDE DEF tracks, first, second
<1>4. tracks \in Seq(S \cup {first, second})
  BY <1>2
<1>5. Len(<<first, second>> \o tracks) = Len(tracks) + 2
  BY <1>4, TwoMore
<1>6. BuildRotation(boards, lives) = IF mode = "event" THEN <<[board |-> "event", live |-> FALSE]>>
                                     ELSE <<first, second>> \o tracks
  BY DEF BuildRotation, first, second, tracks
<1>7. Len(<<[board |-> "event", live |-> FALSE]>>) = 1
  OBVIOUS
<1> QED
  BY <1>1, <1>3, <1>5, <1>6, <1>7

(* Time on a deadline.                                                     *)
LEMMA CountsDown ==
  ASSUME NEW t \in Nat
  PROVE  /\ CountDown(t) \in Nat
         /\ CountDown(t) >= t - 1
         /\ t # Never => CountDown(t) = IF t > 0 THEN t - 1 ELSE 0
         /\ t = Never => CountDown(t) = Never
BY DEF CountDown, MostOf, Never

LEMMA OldestIsANumber == OldestAge \in Nat /\ OldestAge = FreshFor + 1
<1>1. Len(TrackOrder) \in Nat
  BY WallAssumption, LenProperties
<1>2. LoadTimeout * (Len(TrackOrder) + 2) \in Nat
  BY <1>1, WallTimes
<1> QED
  BY <1>2, WallTimes DEF OldestAge, FreshFor

(* What showing a board leaves.                                            *)
LEMMA ShownFacts ==
  ASSUME Typed, awaits # None, NEW slide, Shows(slide)
  PROVE  /\ view' = [slide |-> slide, open |-> IF slide.board = "league" THEN openOn ELSE None]
         /\ stale' = FALSE /\ offline' = FALSE /\ napped' = FALSE /\ emptied' = FALSE
         /\ age' \in Nat /\ age' <= LoadTimeout - awaits.left
         /\ holdFor' \in 0..LeagueTakeover
         /\ slide.board = "league" /\ openOn = today => holdFor' = LeagueTakeover
<1>1. awaits.left \in Nat /\ awaits.left <= LoadTimeout
  BY AwaitsTyped DEF Typed
<1>2. age' \in 0..(LoadTimeout - awaits.left)
  BY DEF Shows
<1>3. HoldAsked(slide) \in {LeagueTakeover, Celebration, 0}
  BY DEF HoldAsked
<1>4. slide.board = "league" /\ openOn = today => HoldAsked(slide) = LeagueTakeover
  BY DEF HoldAsked, OpenTonight, IsTonight
<1>5. holdFor' = IF holdFor > HoldAsked(slide) THEN holdFor ELSE HoldAsked(slide)
  BY DEF Shows, BoardTakes, MostOf
<1>6. holdFor \in Nat /\ holdFor <= LeagueTakeover
  BY WallTimes DEF Typed
<1>7. holdFor' \in 0..LeagueTakeover
  BY <1>3, <1>5, <1>6, WallTimes
<1>8. slide.board = "league" /\ openOn = today => holdFor' = LeagueTakeover
  BY <1>4, <1>5, <1>6, WallTimes
<1> QED
  BY <1>1, <1>2, <1>7, <1>8, WallTimes DEF Shows

(* What waking up leaves of what the tick awaits.                          *)
LEMMA WokenFacts ==
  ASSUME Typed, NEW nap \in BOOLEAN, WakeUp(nap), awaits # None
  PROVE  /\ awaits' \in Awaits
         /\ awaits'.for = awaits.for /\ awaits'.step = awaits.step /\ awaits'.sawFailure = awaits.sawFailure
         /\ awaits'.left = IF nap THEN 0 ELSE awaits.left
         /\ awaits.due \in Due =>
              /\ awaits'.due \in Due /\ awaits'.due.advance = TRUE
              /\ awaits'.due.free = awaits.due.free
<1>1. PICK a \in Awaits : a = awaits
  BY DEF Typed
<1>2. a.due \in Due \cup {None} /\ a.left \in 0..LoadTimeout /\ 0 \in 0..LoadTimeout
  BY <1>1, WallTimes DEF Awaits
<1> DEFINE due == IF a.due = None THEN None ELSE [a.due EXCEPT !.advance = TRUE]
           left == IF nap THEN 0 ELSE a.left
<1>3. a.due \in Due => due \in Due /\ due.advance = TRUE /\ due.free = a.due.free
  BY WallAssumption DEF Due
<1>4. due \in Due \cup {None} /\ left \in 0..LoadTimeout
  BY <1>2, <1>3
<1>5. awaits' = [a EXCEPT !.left = left, !.due = due]
  BY <1>1 DEF WakeUp
<1> HIDE DEF due, left
<1>6. /\ awaits' \in Awaits
      /\ awaits'.for = a.for /\ awaits'.step = a.step /\ awaits'.sawFailure = a.sawFailure
      /\ awaits'.left = left /\ awaits'.due = due
  BY <1>4, <1>5 DEF Awaits
<1> QED
  BY <1>1, <1>3, <1>6 DEF left

(* And what a unit of time does.                                           *)
LEMMA TimeFacts ==
  ASSUME Typed, TimePasses, awaits # None
  PROVE  /\ awaits' \in Awaits
         /\ awaits'.for = awaits.for /\ awaits'.step = awaits.step /\ awaits'.sawFailure = awaits.sawFailure
         /\ awaits'.due = awaits.due
         /\ awaits'.left = awaits.left - 1
<1>1. PICK a \in Awaits : a = awaits
  BY DEF Typed
<1>2. a.left \in 0..LoadTimeout /\ a.left > 0
  BY <1>1 DEF TimePasses, Awaits
<1>3. a.left - 1 \in 0..LoadTimeout
  BY <1>2, WallTimes
<1>4. awaits' = [a EXCEPT !.left = a.left - 1]
  BY <1>1 DEF TimePasses
<1> QED
  BY <1>1, <1>3, <1>4 DEF Awaits

LEMMA TypedInit == Init => Typed
<1> SUFFICES ASSUME Init PROVE Typed
  OBVIOUS
<1>1. PICK seed : /\ rotation = BuildRotation(seed, {})
                  /\ rotationIn = IF mode = "event" THEN Never ELSE IF seed = {} THEN 0 ELSE RotationTime
  BY DEF Init
<1>2. Len(rotation) \in 1..(Len(TrackOrder) + 2)
  BY <1>1, RotationFits
<1>3. rotationIn \in Nat
  BY <1>1, WallTimes
<1>4. awaits = None /\ view = None /\ holdFor = 0 /\ advanceIn = 0 /\ refreshIn = Never /\ age = OldestAge
  BY DEF Init, EngineStarts
<1> QED
  BY <1>2, <1>3, <1>4, WallTimes, OldestIsANumber DEF Typed, Awaiting

-----------------------------------------------------------------------------
(* What each step leaves of the engine.                                    *)
LEMMA RestingSteps ==
  ASSUME Venue \/ Hand \/ ListResumes \/ UNCHANGED vars
  PROVE  EngineRests \/ \E nap \in BOOLEAN : WakeUp(nap)
<1>1. ASSUME Hand PROVE EngineRests
  BY <1>1 DEF Hand, EngineRests
<1>2. ASSUME ListResumes PROVE EngineRests
  BY <1>2 DEF ListResumes, EngineRests
<1>3. ASSUME UNCHANGED vars PROVE EngineRests
  BY <1>3 DEF vars, EngineRests
<1>4. ASSUME UNCHANGED page PROVE EngineRests
  BY <1>4 DEF page, EngineRests
<1>5. ASSUME Venue PROVE UNCHANGED page \/ \E nap \in BOOLEAN : WakeUp(nap)
  BY <1>5 DEF Venue, LapLands, DriverIsBanned, RigReports, RoundChanges, SeasonRolls, MidnightPasses,
              ComboIsSet, NetworkChanges
<1> QED
  BY <1>1, <1>2, <1>3, <1>4, <1>5

LEMMA TickStarts ==
  ASSUME Tick
  PROVE  /\ awaits = None
         /\ UNCHANGED <<rotation, shown, holdFor, health>>
         /\ \/ /\ rotationIn = 0 /\ rotationIn' = RotationTime
               /\ awaits' = Request("list", 0, FALSE, DueNow)
               /\ UNCHANGED <<advanceIn, refreshIn>>
            \/ /\ rotationIn # 0 /\ rotationIn' = rotationIn
               /\ StartsPass(DueNow) \/ StartsRefresh(DueNow, advanceIn) \/ Idles(DueNow, advanceIn)
BY GoesOn DEF Tick

LEMMA ListEnds ==
  ASSUME ListArrives \/ ListFails, Typed
  PROVE  \E due \in Due, next \in Nat :
           /\ due.free = awaits.due.free /\ due.refresh = awaits.due.refresh
           /\ awaits.due.advance => due.advance
           /\ next \in {0, advanceIn}
           /\ StartsPass(due) \/ StartsRefresh(due, next) \/ Idles(due, next)
<1>1. awaits.due \in Due /\ advanceIn \in Nat
  BY DEF Typed, ListArrives, ListFails
<1>2. CASE ListFails
  BY <1>1, <1>2, GoesOn DEF ListFails
<1>3. CASE ListArrives
  <2>1. PICK lost \in BOOLEAN : GoOn([awaits.due EXCEPT !.advance = @ \/ lost], IF lost THEN 0 ELSE advanceIn)
    BY <1>3 DEF ListArrives
  <2>2. PICK was \in Due : was = awaits.due
    BY <1>1
  <2> DEFINE due == [was EXCEPT !.advance = @ \/ lost]
             next == IF lost THEN 0 ELSE advanceIn
  <2>3. due \in Due /\ due.free = was.free /\ due.refresh = was.refresh
    BY DEF Due
  <2>4. was.advance => due.advance
    BY DEF Due
  <2>5. next \in Nat /\ next \in {0, advanceIn}
    BY <1>1
  <2>6. GoOn(due, next)
    BY <2>1, <2>2
  <2> HIDE DEF due, next
  <2> QED
    BY <2>2, <2>3, <2>4, <2>5, <2>6, GoesOn
<1> QED
  BY <1>2, <1>3

LEMMA GoesOnTyped ==
  ASSUME NEW due \in Due, NEW next \in Nat, Typed,
         StartsPass(due) \/ StartsRefresh(due, next) \/ Idles(due, next)
  PROVE  /\ awaits' \in Awaits \cup {None}
         /\ advanceIn' \in Nat
         /\ refreshIn' \in (0..RefreshTime) \cup {Never}
         /\ view # None => refreshIn' <= RefreshTime
         /\ Awaiting("refresh")' => refreshIn' <= RefreshTime
         /\ Awaiting("advance")' => awaits'.step = 1
         /\ ~Awaiting("list")'
<1>1. CASE StartsPass(due)
  <2>1. awaits' \in Awaits /\ awaits' # None /\ awaits'.for = "advance" /\ awaits'.step = 1
    BY <1>1, PassRequested DEF StartsPass
  <2>2. advanceIn' \in Nat
    BY <1>1, WallTimes DEF StartsPass
  <2> QED
    BY <1>1, <2>1, <2>2 DEF StartsPass, Typed, Awaiting
<1>2. CASE StartsRefresh(due, next)
  <2>1. awaits' \in Awaits /\ awaits' # None /\ awaits'.for = "refresh"
    BY <1>2, RefreshRequested DEF StartsRefresh
  <2>2. refreshIn' \in 0..RefreshTime /\ refreshIn' <= RefreshTime
    BY <1>2, WallTimes DEF StartsRefresh
  <2> QED
    BY <1>2, <2>1, <2>2 DEF StartsRefresh, Awaiting
<1>3. CASE Idles(due, next)
  BY <1>3 DEF Idles, Typed, Awaiting
<1> QED
  BY <1>1, <1>2, <1>3

LEMMA TypedTick ==
  ASSUME Typed, Tick
  PROVE  Typed'
<1>1. DueNow \in Due /\ advanceIn \in Nat
  BY NowIsDue DEF Typed
<1>2. CASE rotationIn = 0
  <2>1. /\ rotationIn' = RotationTime
        /\ awaits' = Request("list", 0, FALSE, DueNow)
        /\ UNCHANGED <<rotation, shown, holdFor, advanceIn, refreshIn>>
    BY <1>2, TickStarts
  <2>2. /\ awaits' \in Awaits /\ awaits'.for = "list"
        /\ awaits' # None /\ awaits'.due \in Due /\ awaits'.left = LoadTimeout
    BY <1>1, <2>1, ListRequested
  <2>3. rotationIn' + LoadTimeout - awaits'.left >= RotationTime /\ rotationIn' \in Nat
    <3>1. RotationTime + LoadTimeout - LoadTimeout >= RotationTime
      BY WallTimes
    <3>2. rotationIn' = RotationTime /\ awaits'.left = LoadTimeout
      BY <2>1, <2>2
    <3> QED
      BY <3>1, <3>2, WallTimes
  <2> QED
    BY <2>1, <2>2, <2>3 DEF Typed, Awaiting, shown
<1>3. CASE rotationIn # 0
  <2>1. /\ rotationIn' = rotationIn
        /\ UNCHANGED <<rotation, shown, holdFor>>
        /\ StartsPass(DueNow) \/ StartsRefresh(DueNow, advanceIn) \/ Idles(DueNow, advanceIn)
    BY <1>3, TickStarts
  <2> QED
    BY <1>1, <2>1, GoesOnTyped DEF Typed, shown
<1> QED
  BY <1>2, <1>3

LEMMA TypedList ==
  ASSUME Typed, ListArrives \/ ListFails
  PROVE  Typed'
<1>1. /\ awaits' \in Awaits \cup {None}
      /\ advanceIn' \in Nat
      /\ refreshIn' \in (0..RefreshTime) \cup {Never}
      /\ view # None => refreshIn' <= RefreshTime
      /\ Awaiting("refresh")' => refreshIn' <= RefreshTime
      /\ Awaiting("advance")' => awaits'.step = 1
      /\ ~Awaiting("list")'
  BY ListEnds, GoesOnTyped
<1>2. Len(rotation') \in 1..(Len(TrackOrder) + 2)
  <2>1. CASE ListArrives
    BY <2>1, RotationFits DEF ListArrives
  <2>2. CASE ListFails
    BY <2>2 DEF ListFails, shown, Typed
  <2> QED
    BY <2>1, <2>2
<1>3. (rotationIn' = rotationIn \/ rotationIn' = RetryTime) /\ UNCHANGED <<view, holdFor, age>>
  <2>1. CASE ListArrives
    BY <2>1 DEF ListArrives
  <2>2. CASE ListFails
    BY <2>2 DEF ListFails, shown
  <2> QED
    BY <2>1, <2>2
<1>4. rotationIn' \in Nat
  BY <1>3, Numbers, WallTimes
<1> QED
  BY <1>1, <1>2, <1>3, <1>4 DEF Typed

LEMMA TypedAnswer ==
  ASSUME Typed, SlideLoads \/ SlideIsSkipped \/ RefreshLoads \/ RefreshIsEmpty \/ RefreshFails
  PROVE  Typed'
<1>1. CASE SlideLoads
  <2>1. PICK slide : Shows(slide)
    BY <1>1 DEF SlideLoads
  <2>2. age' \in Nat /\ holdFor' \in 0..LeagueTakeover
    BY <1>1, <2>1, ShownFacts DEF SlideLoads, Awaiting
  <2> QED
    BY <1>1, <2>2, WallTimes DEF SlideLoads, Typed, Awaiting
<1>2. CASE RefreshLoads
  <2>1. age' \in Nat /\ holdFor' \in 0..LeagueTakeover
    BY <1>2, ShownFacts DEF RefreshLoads, Awaiting
  <2> QED
    BY <1>2, <2>1 DEF RefreshLoads, Typed, Awaiting
<1>3. CASE SlideIsSkipped
  <2>1. PICK failed \in BOOLEAN : PassGoesOn(failed)
    <3>1. awaits.sawFailure \in BOOLEAN
      BY <1>3, AwaitsTyped DEF SlideIsSkipped, Awaiting, Typed
    <3> QED
      BY <1>3, <3>1 DEF SlideIsSkipped
  <2>2. Awaiting("advance") /\ UNCHANGED <<rotation, view, timers>>
    BY <1>3 DEF SlideIsSkipped
  <2>3. age' \in Nat
    BY <2>1, OldestIsANumber DEF PassGoesOn, Typed
  <2>4. CASE awaits.step < Len(rotation)
    <3>1. awaits.step + 1 \in 1..Len(rotation) /\ awaits.step + 1 \in Nat
      BY <2>2, <2>4 DEF Typed
    <3>2. awaits' = Request("advance", awaits.step + 1, failed, None)
      BY <2>1, <2>4 DEF PassGoesOn
    <3>3. awaits' \in Awaits /\ awaits'.for = "advance" /\ awaits'.step = awaits.step + 1
      BY <3>1, <3>2, Requested
    <3> QED
      BY <2>2, <2>3, <3>1, <3>3 DEF Typed, Awaiting, timers
  <2>5. CASE ~(awaits.step < Len(rotation))
    BY <2>1, <2>2, <2>3, <2>5 DEF Typed, Awaiting, timers, PassGoesOn
  <2> QED
    BY <2>4, <2>5
<1>4. CASE RefreshIsEmpty
  BY <1>4 DEF RefreshIsEmpty, Typed, Awaiting
<1>5. CASE RefreshFails
  BY <1>5, OldestIsANumber DEF RefreshFails, Typed, Awaiting, timers
<1> QED
  BY <1>1, <1>2, <1>3, <1>4, <1>5

LEMMA TypedWake ==
  ASSUME Typed, NEW nap \in BOOLEAN, WakeUp(nap)
  PROVE  Typed'
<1>1. /\ UNCHANGED <<rotation, view>>
      /\ advanceIn' = 0
      /\ nap => /\ holdFor' = 0 /\ age' = OldestAge /\ napped' = TRUE
                /\ refreshIn' = IF refreshIn = Never THEN Never ELSE 0
                /\ rotationIn' = IF rotationIn = Never THEN Never ELSE 0
      /\ ~nap => UNCHANGED <<holdFor, refreshIn, rotationIn, age, napped>>
      /\ awaits = None => awaits' = None
  BY DEF WakeUp
<1>2. /\ holdFor' \in 0..LeagueTakeover
      /\ refreshIn' \in (0..RefreshTime) \cup {Never}
      /\ refreshIn <= RefreshTime => refreshIn' <= RefreshTime
      /\ rotationIn' \in Nat /\ age' \in Nat
  BY <1>1, WallTimes, OldestIsANumber DEF Typed
<1>3. CASE awaits = None
  BY <1>1, <1>2, <1>3 DEF Typed, Awaiting
<1>4. CASE awaits # None
  <2>1. /\ awaits' \in Awaits
        /\ awaits'.for = awaits.for /\ awaits'.step = awaits.step
        /\ awaits.due \in Due => awaits'.due \in Due
        /\ awaits'.left = IF nap THEN 0 ELSE awaits.left
    BY <1>4, WokenFacts
  <2> QED
    BY <1>1, <1>2, <1>4, <2>1 DEF Typed, Awaiting
<1> QED
  BY <1>3, <1>4

LEMMA TypedTime ==
  ASSUME Typed, TimePasses
  PROVE  Typed'
<1>1. /\ UNCHANGED <<rotation, view, napped>>
      /\ holdFor' = CountDown(holdFor) /\ advanceIn' = CountDown(advanceIn)
      /\ refreshIn' = CountDown(refreshIn) /\ rotationIn' = CountDown(rotationIn)
      /\ age' = LeastOf(age + 1, OldestAge)
      /\ awaits = None => awaits' = None
  BY DEF TimePasses
<1>2. /\ holdFor' \in 0..LeagueTakeover
      /\ advanceIn' \in Nat /\ rotationIn' \in Nat /\ rotationIn' >= rotationIn - 1
  BY <1>1, Numbers, CountsDown, WallTimes
<1>3. /\ refreshIn' \in (0..RefreshTime) \cup {Never}
      /\ refreshIn <= RefreshTime => refreshIn' <= RefreshTime
  BY <1>1, Numbers, CountsDown, WallTimes
<1>4. age' \in Nat
  BY <1>1, OldestIsANumber DEF LeastOf, Typed
<1>5. CASE awaits = None
  BY <1>1, <1>2, <1>3, <1>4, <1>5 DEF Typed, Awaiting
<1>6. CASE awaits # None
  <2>1. /\ awaits' \in Awaits
        /\ awaits'.for = awaits.for /\ awaits'.step = awaits.step /\ awaits'.due = awaits.due
        /\ awaits'.left = awaits.left - 1
    BY <1>6, TimeFacts
  <2>2. awaits.left \in Nat
    BY <1>6, AwaitsTyped DEF Typed
  <2>3. napped \/ rotationIn + LoadTimeout - awaits.left >= RotationTime
        => napped \/ rotationIn' + LoadTimeout - awaits'.left >= RotationTime
    BY <1>2, <2>1, <2>2, Numbers, WallTimes
  <2> QED
    BY <1>1, <1>2, <1>3, <1>4, <1>6, <2>1, <2>3 DEF Typed, Awaiting
<1> QED
  BY <1>5, <1>6

LEMMA TypedStep ==
  ASSUME Typed, [Next]_vars
  PROVE  Typed'
<1>1. CASE EngineRests
  BY <1>1 DEF EngineRests, Typed, Awaiting, shown, timers
<1> QED
  BY <1>1, TypedTick, TypedList, TypedAnswer, TypedWake, TypedTime, RestingSteps DEF Next, Answers

(* The engine's times and what it awaits are of their types.               *)
THEOREM TypeCorrect == Spec => []Typed
BY TypedInit, TypedStep, PTL DEF Spec

-----------------------------------------------------------------------------
(* A failure is told.  The feed that failed last during a pass is told at  *)
(* its end, and no load that succeeds leaves a failure counted.            *)
Told ==
  health.failures > 0 => stale \/ offline \/ (Awaiting("advance") /\ awaits.sawFailure = TRUE)

LEMMA Recorded ==
  ASSUME RecordFeedLoad(TRUE)
  PROVE  ~(health'.failures > 0)
BY DEF RecordFeedLoad

LEMMA ToldByASkip ==
  ASSUME Typed, SlideIsSkipped
  PROVE  Told'
<1>1. CASE reachable
  BY <1>1, Recorded DEF SlideIsSkipped, Told
<1>2. CASE ~reachable
  <2>1. PassGoesOn(TRUE) /\ Awaiting("advance")
    BY <1>2 DEF SlideIsSkipped
  <2>2. CASE awaits.step < Len(rotation)
    <3>1. awaits.step + 1 \in Nat
      BY <2>1 DEF Typed
    <3>2. awaits' = Request("advance", awaits.step + 1, TRUE, None)
      BY <2>1, <2>2 DEF PassGoesOn
    <3>3. awaits' # None /\ awaits'.for = "advance" /\ awaits'.sawFailure = TRUE
      <4> DEFINE yes == TRUE
      <4>1. yes \in BOOLEAN
        OBVIOUS
      <4>2. awaits' = Request("advance", awaits.step + 1, yes, None)
        BY <3>2
      <4>3. yes = TRUE
        OBVIOUS
      <4> HIDE DEF yes
      <4> QED
        BY <3>1, <4>1, <4>2, <4>3, NextRequested
    <3> QED
      BY <3>3 DEF Told, Awaiting
  <2>3. CASE ~(awaits.step < Len(rotation))
    BY <2>1, <2>3 DEF PassGoesOn, Told
  <2> QED
    BY <2>2, <2>3
<1> QED
  BY <1>1, <1>2

LEMMA ToldStep ==
  ASSUME Typed, Told, [Next]_vars
  PROVE  Told'
<1>1. CASE EngineRests
  BY <1>1 DEF EngineRests, Told, Awaiting, shown
<1>2. CASE Tick
  BY <1>2, TickStarts DEF Told, Awaiting, shown
<1>3. CASE ListArrives \/ ListFails
  BY <1>3 DEF ListArrives, ListFails, Told, Awaiting, shown
<1>4. CASE SlideLoads \/ RefreshLoads \/ RefreshIsEmpty
  BY <1>4, Recorded DEF SlideLoads, RefreshLoads, RefreshIsEmpty, Told
<1>5. CASE RefreshFails
  BY <1>5 DEF RefreshFails, Told
<1>6. ASSUME NEW nap \in BOOLEAN, WakeUp(nap) PROVE Told'
  <2>1. UNCHANGED <<stale, offline, health>> /\ (awaits = None => awaits' = None)
    BY <1>6 DEF WakeUp
  <2>2. CASE awaits = None
    BY <2>1, <2>2 DEF Told, Awaiting
  <2>3. CASE awaits # None
    <3>1. awaits' \in Awaits /\ awaits'.for = awaits.for /\ awaits'.sawFailure = awaits.sawFailure
      BY <1>6, <2>3, WokenFacts
    <3>2. awaits' # None
      BY <3>1, WallAssumption
    <3> QED
      BY <2>1, <3>1, <3>2 DEF Told, Awaiting
  <2> QED
    BY <2>2, <2>3
<1>7. CASE TimePasses
  <2>1. UNCHANGED <<stale, offline, health>> /\ (awaits = None => awaits' = None)
    BY <1>7 DEF TimePasses
  <2>2. CASE awaits = None
    BY <2>1, <2>2 DEF Told, Awaiting
  <2>3. CASE awaits # None
    <3>1. awaits' \in Awaits /\ awaits'.for = awaits.for /\ awaits'.sawFailure = awaits.sawFailure
      BY <1>7, <2>3, TimeFacts
    <3>2. awaits' # None
      BY <3>1, WallAssumption
    <3> QED
      BY <2>1, <3>1, <3>2 DEF Told, Awaiting
  <2> QED
    BY <2>2, <2>3
<1> QED
  BY <1>1, <1>2, <1>3, <1>4, <1>5, <1>6, <1>7, ToldByASkip, RestingSteps DEF Next, Answers

(* Between two passes, a feed that failed last is told to the room, by the *)
(* stale mark or by standby, however many failures there were.             *)
THEOREM FailuresAreTold == Spec => []FailureIsTold
<1>1. Init => Told
  BY DEF Init, EngineStarts, Told
<1>2. Told => FailureIsTold
  BY DEF Told, FailureIsTold
<1> QED
  BY <1>1, <1>2, ToldStep, TypeCorrect, PTL DEF Spec

-----------------------------------------------------------------------------
(* The list goes home.  A finger or drag the frame believes in defers the  *)
(* timer only while it is fresh, so what has passed since a hand and what  *)
(* is left of the timer are bounded together; or else a refresh set the    *)
(* timer last, under a finger the frame believes in.                       *)
ListSound ==
  /\ idleTimer \in {Unset} \cup (0..IdleResume)
  /\ sinceTouch \in 0..StaleTouch
  /\ handsOff \in Nat
  /\ sinceTouch < StaleTouch => handsOff <= sinceTouch
  /\ rowsAgo \in Nat
  /\ held => /\ idleTimer # Unset
             /\ \/ handsOff + idleTimer <= IdleResume + StaleTouch
                \/ touches # 0 /\ rowsAgo + idleTimer <= IdleResume

LEMMA ListTimes ==
  /\ IdleResume \in Nat /\ 0 < IdleResume /\ StaleTouch \in Nat /\ 0 < StaleTouch
  /\ Unset = -1
BY ListTimesAssumption DEF Unset

LEMMA HandKeepsList ==
  ASSUME ListSound, HandOnTheList
  PROVE  ListSound'
<1> USE ListTimes DEF ListSound, TakeOver, ArmIdle, HeardOfAHand
<1>1. CASE Touches
  BY <1>1 DEF Touches
<1>2. CASE Swipes
  BY <1>2 DEF Swipes
<1>3. ASSUME NEW heard \in BOOLEAN, Lifts(heard) PROVE ListSound'
  BY <1>3 DEF Lifts
<1>4. ASSUME NEW scrolls \in BOOLEAN, Drags(scrolls) PROVE ListSound'
  BY <1>4 DEF Drags
<1>5. CASE Presses
  BY <1>5 DEF Presses
<1>6. CASE Releases
  BY <1>6 DEF Releases
<1>7. CASE Wheels
  BY <1>7 DEF Wheels
<1> QED
  BY <1>1, <1>2, <1>3, <1>4, <1>5, <1>6, <1>7 DEF HandOnTheList

LEMMA ListKept ==
  ASSUME ListSound
  PROVE  /\ UNCHANGED frame => ListSound'
         /\ ResumesIfIdle => ListSound'
         /\ \A more, scrolled : RowsChange(more, scrolled) => ListSound'
         /\ MayElapse /\ Elapses => ListSound'
         /\ ListSleeps => ListSound'
<1> USE ListTimes DEF ListSound
<1>1. ASSUME UNCHANGED frame PROVE ListSound'
  BY <1>1 DEF frame
<1>2. ASSUME ResumesIfIdle PROVE ListSound'
  BY <1>2 DEF ResumesIfIdle, ArmIdle, StillDown
<1>3. ASSUME NEW more, NEW scrolled, RowsChange(more, scrolled) PROVE ListSound'
  BY <1>3 DEF RowsChange, ArmIdle
<1>4. ASSUME MayElapse, Elapses PROVE ListSound'
  BY <1>4 DEF MayElapse, Elapses, LeastOf
<1>5. ASSUME ListSleeps PROVE ListSound'
  BY <1>5 DEF ListSleeps
<1> QED
  BY <1>1, <1>2, <1>3, <1>4, <1>5

LEMMA ListStep ==
  ASSUME ListSound, [Next]_vars
  PROVE  ListSound'
<1>1. CASE UNCHANGED list \/ UNCHANGED frame
  BY <1>1, ListKept DEF list
<1>2. ASSUME NEW slide, BoardTakes(slide) PROVE ListSound'
  BY <1>2, <1>1, ListKept DEF BoardTakes
<1>3. ASSUME SlideLoads \/ RefreshLoads PROVE \E slide : BoardTakes(slide)
  BY <1>3 DEF SlideLoads, RefreshLoads, Shows
<1>4. CASE Tick \/ ListArrives \/ ListFails \/ SlideIsSkipped \/ RefreshIsEmpty \/ RefreshFails \/ UNCHANGED vars
  BY <1>4, <1>1 DEF Tick, ListArrives, ListFails, SlideIsSkipped, RefreshIsEmpty, RefreshFails, vars
<1>5. ASSUME UNCHANGED page PROVE UNCHANGED list
  BY <1>5 DEF page
<1>6. ASSUME NEW nap \in BOOLEAN, WakeUp(nap) PROVE ListSound'
  BY <1>6, <1>1, ListKept DEF WakeUp
<1>7. CASE Venue
  BY <1>1, <1>5, <1>6, <1>7 DEF Venue, LapLands, DriverIsBanned, RigReports, RoundChanges, SeasonRolls, MidnightPasses,
              ComboIsSet, NetworkChanges
<1>8. CASE Hand
  BY <1>8, HandKeepsList DEF Hand
<1>9. CASE ListResumes
  BY <1>9, ListKept DEF ListResumes
<1>10. CASE TimePasses
  BY <1>10, ListKept DEF TimePasses
<1> QED
  BY <1>1, <1>2, <1>3, <1>4, <1>7, <1>8, <1>9, <1>10 DEF Next, Answers

(* A list somebody took in hand goes back to scrolling within the idle     *)
(* time and the stale one of their last touch, whatever lifts the frame    *)
(* missed, unless a refresh has moved the rows within the idle time under  *)
(* a finger the frame believes in.                                         *)
THEOREM TheListGoesHome == Spec => []ListGoesHome
<1>1. Init => ListSound
  BY ListTimes DEF Init, ListInit, ListSound
<1>2. ListSound => ListGoesHome
  BY ListTimes DEF ListSound, ListGoesHome
<1> QED
  BY <1>1, <1>2, ListStep, PTL DEF Spec

-----------------------------------------------------------------------------
(* A live wall is fresh.  While the board on the wall is live, its age is  *)
(* bounded by what the engine waits for: the refresh that is due, its      *)
(* answer, or a read of the list before it; once a refresh found the board *)
(* empty, by the hold that keeps it up; and in a pass, by the slides that  *)
(* were tried.                                                             *)
Live == SaysLive /\ ~napped
Waited == LoadTimeout - awaits.left
PassTime(step) == (step - 1) * LoadTimeout

HoldOnTime == holdFor > 0 => age + holdFor <= LeagueTakeover + LoadTimeout

FreshOnTime ==
  /\ awaits = None =>
       \/ age + refreshIn <= RefreshTime + LoadTimeout
       \/ refreshIn = 0 /\ rotationIn > 0 /\ age <= RefreshTime + 2 * LoadTimeout
  /\ Awaiting("list") =>
       /\ refreshIn > 0 => age + refreshIn <= RefreshTime + LoadTimeout
       /\ refreshIn = 0 => age <= RefreshTime + LoadTimeout + Waited
  /\ Awaiting("refresh") => age <= RefreshTime + 2 * LoadTimeout + Waited

EmptiedOnTime ==
  /\ awaits = None => holdFor > 0 \/ age <= LeagueTakeover + 3 * LoadTimeout
  /\ Awaiting("list") =>
       \/ /\ awaits.due.advance /\ awaits.due.free
          /\ age <= LeagueTakeover + 3 * LoadTimeout + Waited
       \/ /\ ~awaits.due.free
          /\ holdFor > 0 \/ age <= LeagueTakeover + LoadTimeout + Waited
  /\ Awaiting("refresh") => holdFor > 0 \/ age <= LeagueTakeover + 2 * LoadTimeout + Waited
  /\ ~Awaiting("advance") => advanceIn = 0

PassOnTime ==
  Awaiting("advance") =>
    age <= LeagueTakeover + 4 * LoadTimeout + PassTime(awaits.step) + Waited

Timely ==
  Live => /\ HoldOnTime
          /\ ~emptied => FreshOnTime
          /\ emptied => EmptiedOnTime
          /\ PassOnTime

LEMMA PassTimes ==
  /\ PassTime(1) = 0
  /\ \A step \in Nat : PassTime(step + 1) = PassTime(step) + LoadTimeout
  /\ \A step \in Nat \ {0} : PassTime(step) \in Nat
  /\ \A step \in Nat \ {0} :
       step <= Len(TrackOrder) + 2 => LeagueTakeover + 4 * LoadTimeout + PassTime(step) + LoadTimeout <= FreshFor
<1> DEFINE n == Len(TrackOrder)
<1>1. n \in Nat
  BY WallAssumption, LenProperties
<1> HIDE DEF n
<1>2. PassTime(1) = 0
  BY WallTimes DEF PassTime
<1>3. \A step \in Nat : PassTime(step + 1) = PassTime(step) + LoadTimeout
  BY WallTimes DEF PassTime
<1>4. \A step \in Nat \ {0} : PassTime(step) \in Nat
  BY WallTimes DEF PassTime
<1>5. ASSUME NEW step \in Nat \ {0}, step <= n + 2
      PROVE  PassTime(step) + LoadTimeout <= LoadTimeout * (n + 2)
  <2>1. PICK k \in Nat : n + 2 = step + k
    <3>1. n + 2 - step \in Nat /\ n + 2 = step + (n + 2 - step)
      BY <1>1, <1>5
    <3> QED
      BY <3>1
  <2>2. LoadTimeout * (n + 2) = LoadTimeout * step + LoadTimeout * k
    BY <2>1, WallTimes
  <2>3. LoadTimeout * k \in Nat /\ LoadTimeout * step \in Nat
    BY WallTimes
  <2>4. PassTime(step) + LoadTimeout = LoadTimeout * step
    BY WallTimes DEF PassTime
  <2> QED
    BY <2>2, <2>3, <2>4
<1>6. LoadTimeout * (n + 2) \in Nat
  BY <1>1, WallTimes
<1>7. FreshFor = LeagueTakeover + 4 * LoadTimeout + LoadTimeout * (n + 2)
  BY DEF FreshFor, n
<1>8. ASSUME NEW step \in Nat \ {0}, step <= n + 2
      PROVE  LeagueTakeover + 4 * LoadTimeout + PassTime(step) + LoadTimeout <= FreshFor
  BY <1>4, <1>5, <1>6, <1>7, <1>8, WallTimes
<1> QED
  BY <1>2, <1>3, <1>4, <1>8 DEF n

LEMMA WaitedTyped ==
  ASSUME awaits \in Awaits
  PROVE  /\ Waited \in Nat /\ Waited <= LoadTimeout
         /\ awaits.left = LoadTimeout => Waited = 0
BY AwaitsTyped, WallTimes DEF Waited

LEMMA Sums ==
  /\ \A a, b, c, d \in Nat : a <= c /\ b <= d => a + b <= c + d
  /\ \A a, b, c, d \in Nat : a <= b + 1 /\ c > 0 /\ b + c <= d => a + (c - 1) <= d
  /\ \A a, b, c, d \in Nat : a <= b => a + c <= b + c
OBVIOUS

(* The steps, one lemma each.                                              *)
LEMMA TimelyTick ==
  ASSUME Typed, Timely, Tick
  PROVE  Timely'
<1> SUFFICES ASSUME Live PROVE Timely'
  BY TickStarts DEF Timely, Live, SaysLive, shown
<1>1. /\ awaits = None /\ UNCHANGED <<view, stale, offline, age, napped, emptied, holdFor>>
      /\ view # None
  BY TickStarts DEF shown, Live, SaysLive
<1>2. /\ age \in Nat /\ holdFor \in Nat /\ refreshIn \in Nat /\ refreshIn <= RefreshTime
      /\ rotationIn \in Nat
  BY <1>1, Numbers DEF Typed
<1>3. HoldOnTime'
  BY <1>1 DEF Timely, HoldOnTime
<1>4. ~emptied => \/ age + refreshIn <= RefreshTime + LoadTimeout
                  \/ refreshIn = 0 /\ rotationIn > 0 /\ age <= RefreshTime + 2 * LoadTimeout
  BY <1>1 DEF Timely, FreshOnTime
<1>5. emptied => advanceIn = 0 /\ (holdFor > 0 \/ age <= LeagueTakeover + 3 * LoadTimeout)
  BY <1>1 DEF Timely, EmptiedOnTime, Awaiting
<1>6. age <= LeagueTakeover + 3 * LoadTimeout \/ holdFor > 0
  BY <1>2, <1>4, <1>5, WallTimes
<1>7. CASE rotationIn = 0
  <2>1. awaits' \in Awaits /\ awaits' # None /\ awaits'.for = "list" /\ awaits'.due = DueNow /\ awaits'.left = LoadTimeout
    BY <1>7, TickStarts, NowIsDue, ListRequested
  <2>2. UNCHANGED <<advanceIn, refreshIn>>
    BY <1>7, TickStarts
  <2>3. Waited' = 0
    BY <2>1, WallTimes DEF Waited
  <2>4. DueNow.advance = (advanceIn = 0) /\ DueNow.free = (holdFor = 0)
    BY DEF DueNow
  <2>5. ~emptied => FreshOnTime'
    BY <1>1, <1>2, <1>4, <1>7, <2>1, <2>2, <2>3, WallTimes DEF FreshOnTime, Awaiting
  <2>6. emptied => EmptiedOnTime'
    <3> SUFFICES ASSUME emptied PROVE EmptiedOnTime'
      OBVIOUS
    <3>1. CASE holdFor = 0
      <4>1. awaits'.due.advance /\ awaits'.due.free
        BY <1>5, <2>1, <2>4, <3>1
      <4>2. age' <= LeagueTakeover + 3 * LoadTimeout + Waited'
        BY <1>1, <1>2, <1>5, <2>3, <3>1, WallTimes
      <4> QED
        BY <1>5, <2>1, <2>2, <4>1, <4>2 DEF EmptiedOnTime, Awaiting
    <3>2. CASE holdFor # 0
      <4>1. ~awaits'.due.free
        BY <2>1, <2>4, <3>2
      <4>2. holdFor' > 0
        BY <1>1, <1>2, <3>2
      <4> QED
        BY <1>5, <2>1, <2>2, <4>1, <4>2 DEF EmptiedOnTime, Awaiting
    <3> QED
      BY <3>1, <3>2
  <2> QED
    BY <1>1, <1>3, <2>1, <2>5, <2>6 DEF Timely, PassOnTime, Awaiting
<1>8. CASE rotationIn # 0 /\ StartsPass(DueNow)
  <2>1. awaits' \in Awaits /\ awaits' # None /\ awaits'.for = "advance" /\ awaits'.step = 1 /\ awaits'.left = LoadTimeout
    BY <1>8, PassRequested DEF StartsPass
  <2>2. Waited' = 0 /\ PassTime(awaits.step)' = 0
    BY <2>1, PassTimes, WallTimes DEF Waited, PassTime
  <2>3. age <= LeagueTakeover + 3 * LoadTimeout
    <3>1. holdFor = 0
      BY <1>8 DEF StartsPass, DueNow
    <3> QED
      BY <1>6, <3>1
  <2>4. PassOnTime'
    BY <1>1, <1>2, <2>2, <2>3, WallTimes DEF PassOnTime
  <2> QED
    BY <1>1, <1>3, <2>1, <2>4 DEF Timely, FreshOnTime, EmptiedOnTime, Awaiting
<1>9. CASE rotationIn # 0 /\ StartsRefresh(DueNow, advanceIn)
  <2>1. awaits' \in Awaits /\ awaits' # None /\ awaits'.for = "refresh" /\ awaits'.left = LoadTimeout
    BY <1>9, RefreshRequested DEF StartsRefresh
  <2>2. Waited' = 0
    BY <2>1, WallTimes DEF Waited
  <2>3. refreshIn = 0 /\ advanceIn' = advanceIn /\ ~(advanceIn = 0 /\ holdFor = 0)
    BY <1>9 DEF StartsRefresh, DueNow
  <2>4. ~emptied => age <= RefreshTime + 2 * LoadTimeout
    BY <1>2, <1>4, <2>3, WallTimes
  <2>5. emptied => holdFor > 0
    BY <1>2, <1>5, <2>3
  <2> QED
    BY <1>1, <1>2, <1>3, <1>5, <2>1, <2>2, <2>3, <2>4, <2>5, WallTimes
    DEF Timely, FreshOnTime, EmptiedOnTime, PassOnTime, Awaiting
<1>10. CASE rotationIn # 0 /\ Idles(DueNow, advanceIn)
  BY <1>1, <1>3, <1>4, <1>5, <1>10, TickStarts DEF Idles, Timely, FreshOnTime, EmptiedOnTime, PassOnTime, Awaiting
<1> QED
  BY <1>7, <1>8, <1>9, <1>10, TickStarts

LEMMA TimelyList ==
  ASSUME Typed, Timely, ListArrives \/ ListFails
  PROVE  Timely'
<1>1. Awaiting("list") /\ UNCHANGED <<view, stale, offline, age, napped, emptied, holdFor>>
  BY DEF ListArrives, ListFails, shown
<1> SUFFICES ASSUME Live PROVE Timely'
  BY <1>1 DEF Timely, Live, SaysLive
<1>2. /\ age \in Nat /\ holdFor \in Nat /\ refreshIn \in Nat /\ refreshIn <= RefreshTime
      /\ rotationIn \in Nat /\ view # None
  BY Numbers DEF Typed, Live, SaysLive
<1>3. awaits \in Awaits /\ Waited \in Nat /\ Waited <= LoadTimeout
  BY <1>1, WaitedTyped DEF Awaiting, Typed
<1>4. rotationIn' > 0
  <2>1. rotationIn + LoadTimeout - awaits.left >= RotationTime /\ awaits.left \in Nat
    BY <1>1, <1>3, AwaitsTyped DEF Typed, Live
  <2>2. rotationIn > 0
    BY <1>2, <2>1, WallTimes
  <2> QED
    BY <2>2, WallTimes DEF ListArrives, ListFails
<1>5. PICK due \in Due, next \in Nat :
        /\ due.free = awaits.due.free /\ due.refresh = awaits.due.refresh
        /\ awaits.due.advance => due.advance
        /\ next \in {0, advanceIn}
        /\ StartsPass(due) \/ StartsRefresh(due, next) \/ Idles(due, next)
  BY ListEnds
<1>6. HoldOnTime'
  BY <1>1 DEF Timely, HoldOnTime
<1>7. ~emptied => age <= RefreshTime + 2 * LoadTimeout
                  /\ (refreshIn > 0 => age + refreshIn <= RefreshTime + LoadTimeout)
  BY <1>1, <1>2, <1>3, WallTimes DEF Timely, FreshOnTime
<1>8. emptied => /\ advanceIn = 0
                 /\ \/ due.advance /\ due.free /\ age <= LeagueTakeover + 4 * LoadTimeout
                    \/ ~due.free /\ (holdFor > 0 \/ age <= LeagueTakeover + 2 * LoadTimeout)
  <2>1. ASSUME emptied
        PROVE  /\ advanceIn = 0
               /\ \/ awaits.due.advance /\ awaits.due.free /\ age <= LeagueTakeover + 3 * LoadTimeout + Waited
                  \/ ~awaits.due.free /\ (holdFor > 0 \/ age <= LeagueTakeover + LoadTimeout + Waited)
    BY <1>1, <2>1 DEF Timely, EmptiedOnTime, Awaiting
  <2>2. age <= LeagueTakeover + 3 * LoadTimeout + Waited => age <= LeagueTakeover + 4 * LoadTimeout
    BY <1>2, <1>3, WallTimes
  <2>3. age <= LeagueTakeover + LoadTimeout + Waited => age <= LeagueTakeover + 2 * LoadTimeout
    BY <1>2, <1>3, WallTimes
  <2> QED
    BY <1>5, <2>1, <2>2, <2>3
<1>9. CASE StartsPass(due)
  <2>1. awaits' \in Awaits /\ awaits' # None /\ awaits'.for = "advance" /\ awaits'.step = 1 /\ awaits'.left = LoadTimeout
    BY <1>9, PassRequested DEF StartsPass
  <2>2. Waited' = 0 /\ PassTime(awaits.step)' = 0
    BY <2>1, PassTimes, WallTimes DEF Waited, PassTime
  <2>3. age <= LeagueTakeover + 4 * LoadTimeout
    BY <1>2, <1>7, <1>8, <1>9, WallTimes DEF StartsPass
  <2>4. PassOnTime'
    BY <1>1, <1>2, <2>2, <2>3, WallTimes DEF PassOnTime
  <2> QED
    BY <1>1, <1>6, <2>1, <2>4 DEF Timely, FreshOnTime, EmptiedOnTime, Awaiting
<1>10. CASE StartsRefresh(due, next)
  <2>1. awaits' \in Awaits /\ awaits' # None /\ awaits'.for = "refresh" /\ awaits'.left = LoadTimeout
    BY <1>10, RefreshRequested DEF StartsRefresh
  <2>2. Waited' = 0
    BY <2>1, WallTimes DEF Waited
  <2>3. ~(due.advance /\ due.free) /\ advanceIn' = next
    BY <1>10 DEF StartsRefresh
  <2>4. emptied => advanceIn' = 0 /\ (holdFor > 0 \/ age <= LeagueTakeover + 2 * LoadTimeout)
    BY <1>5, <1>8, <2>3
  <2> QED
    BY <1>1, <1>2, <1>6, <1>7, <2>1, <2>2, <2>4, WallTimes
    DEF Timely, FreshOnTime, EmptiedOnTime, PassOnTime, Awaiting
<1>11. CASE Idles(due, next)
  <2>1. ~(due.advance /\ due.free) /\ advanceIn' = next /\ refreshIn' = refreshIn /\ awaits' = None
    BY <1>11 DEF Idles
  <2>2. emptied => advanceIn' = 0 /\ (holdFor > 0 \/ age <= LeagueTakeover + 2 * LoadTimeout)
    BY <1>5, <1>8, <2>1
  <2>3. age <= LeagueTakeover + 2 * LoadTimeout => age <= LeagueTakeover + 3 * LoadTimeout
    BY <1>2, WallTimes
  <2>4. ~emptied => \/ age + refreshIn <= RefreshTime + LoadTimeout
                    \/ refreshIn = 0 /\ age <= RefreshTime + 2 * LoadTimeout
    BY <1>2, <1>7
  <2> QED
    BY <1>1, <1>4, <1>6, <2>1, <2>2, <2>3, <2>4 DEF Timely, FreshOnTime, EmptiedOnTime, PassOnTime, Awaiting
<1> QED
  BY <1>5, <1>9, <1>10, <1>11

LEMMA TimelyShown ==
  ASSUME Typed, Timely, SlideLoads \/ RefreshLoads
  PROVE  Timely'
<1>1. PICK slide : Shows(slide)
  BY DEF SlideLoads, RefreshLoads
<1>2. awaits # None /\ awaits' = None
  BY DEF SlideLoads, RefreshLoads, Awaiting
<1>3. /\ emptied' = FALSE /\ age' \in Nat /\ age' <= LoadTimeout - awaits.left
      /\ holdFor' \in 0..LeagueTakeover
  BY <1>1, <1>2, ShownFacts
<1>4. awaits.left \in Nat
  BY <1>2, AwaitsTyped DEF Typed
<1>5. refreshIn' \in Nat /\ refreshIn' <= RefreshTime
  <2>1. CASE SlideLoads
    BY <2>1, WallTimes DEF SlideLoads
  <2>2. CASE RefreshLoads
    BY <2>2, Numbers DEF RefreshLoads, Typed
  <2> QED
    BY <2>1, <2>2
<1>6. age' <= LoadTimeout
  BY <1>3, <1>4, WallTimes
<1>7. HoldOnTime'
  <2>1. holdFor' \in Nat /\ holdFor' <= LeagueTakeover /\ age' \in Nat
    BY <1>3, WallTimes
  <2>2. age' + holdFor' <= LeagueTakeover + LoadTimeout
    <3>1. LoadTimeout + LeagueTakeover = LeagueTakeover + LoadTimeout
      BY WallTimes
    <3>2. age' + holdFor' <= LoadTimeout + LeagueTakeover
      BY <1>6, <2>1, WallTimes, Sums
    <3> QED
      BY <3>1, <3>2
  <2> QED
    BY <2>2 DEF HoldOnTime
<1>8. FreshOnTime'
  <2>1. age' + refreshIn' <= RefreshTime + LoadTimeout
    <3>1. LoadTimeout + RefreshTime = RefreshTime + LoadTimeout
      BY WallTimes
    <3>2. age' + refreshIn' <= LoadTimeout + RefreshTime
      BY <1>3, <1>5, <1>6, WallTimes, Sums
    <3> QED
      BY <3>1, <3>2
  <2> QED
    BY <1>2, <2>1 DEF FreshOnTime, Awaiting
<1> QED
  BY <1>2, <1>3, <1>7, <1>8 DEF Timely, PassOnTime, Awaiting

LEMMA TimelySkip ==
  ASSUME Typed, Timely, SlideIsSkipped
  PROVE  Timely'
<1>1. Awaiting("advance") /\ UNCHANGED <<view, holdFor, emptied>>
  BY DEF SlideIsSkipped, timers
<1>2. awaits \in Awaits /\ Waited \in Nat /\ Waited <= LoadTimeout
  BY <1>1, WaitedTyped DEF Awaiting, Typed
<1>3. PICK failed \in BOOLEAN : PassGoesOn(failed)
  BY <1>2, AwaitsTyped DEF SlideIsSkipped
<1>4. CASE ~(awaits.step < Len(rotation))
  BY <1>1, <1>3, <1>4 DEF PassGoesOn, Timely, Live, SaysLive
<1>5. CASE awaits.step < Len(rotation)
  <2>1. awaits.step \in Nat /\ awaits.step # 0 /\ awaits.step + 1 \in Nat
    BY <1>1 DEF Typed
  <2>2. awaits' = Request("advance", awaits.step + 1, failed, None) /\ UNCHANGED <<stale, offline, age, napped>>
    BY <1>3, <1>5 DEF PassGoesOn
  <2>3. awaits' # None /\ awaits'.for = "advance" /\ awaits'.step = awaits.step + 1 /\ awaits'.left = LoadTimeout
    BY <2>1, <2>2, NextRequested
  <2>4. Waited' = 0
    BY <2>3, WallTimes DEF Waited
  <2>5. PassTime(awaits.step)' = PassTime(awaits.step) + LoadTimeout
    BY <2>1, <2>3, PassTimes DEF PassTime
  <2> SUFFICES ASSUME Live PROVE Timely'
    BY <1>1, <2>2 DEF Timely, Live, SaysLive
  <2>6. age <= LeagueTakeover + 4 * LoadTimeout + PassTime(awaits.step) + Waited
    BY <1>1 DEF Timely, PassOnTime
  <2>7. PassTime(awaits.step) \in Nat /\ age \in Nat
    BY <2>1, PassTimes DEF Typed
  <2>8. age' <= LeagueTakeover + 4 * LoadTimeout + PassTime(awaits.step)' + Waited'
    BY <1>2, <2>2, <2>4, <2>5, <2>6, <2>7, WallTimes
  <2>9. HoldOnTime'
    BY <1>1, <2>2 DEF Timely, HoldOnTime
  <2> QED
    BY <2>3, <2>8, <2>9 DEF Timely, PassOnTime, FreshOnTime, EmptiedOnTime, Awaiting
<1> QED
  BY <1>4, <1>5

LEMMA TimelyEmpty ==
  ASSUME Typed, Timely, RefreshIsEmpty
  PROVE  Timely'
<1>1. /\ Awaiting("refresh") /\ awaits' = None /\ emptied' = TRUE /\ advanceIn' = 0
      /\ UNCHANGED <<view, stale, offline, age, napped, holdFor>>
  BY DEF RefreshIsEmpty
<1> SUFFICES ASSUME Live PROVE Timely'
  BY <1>1 DEF Timely, Live, SaysLive
<1>2. awaits \in Awaits /\ Waited \in Nat /\ Waited <= LoadTimeout /\ age \in Nat /\ holdFor \in Nat
  BY <1>1, WaitedTyped, Numbers DEF Awaiting, Typed
<1>3. holdFor > 0 \/ age <= LeagueTakeover + 2 * LoadTimeout + Waited
  <2>1. CASE emptied
    BY <1>1, <2>1 DEF Timely, EmptiedOnTime
  <2>2. CASE ~emptied
    <3>1. age <= RefreshTime + 2 * LoadTimeout + Waited
      BY <1>1, <2>2 DEF Timely, FreshOnTime
    <3> QED
      BY <1>2, <3>1, WallTimes
  <2> QED
    BY <2>1, <2>2
<1>4. holdFor > 0 \/ age <= LeagueTakeover + 3 * LoadTimeout
  BY <1>2, <1>3, WallTimes
<1>5. EmptiedOnTime'
  BY <1>1, <1>4 DEF EmptiedOnTime, Awaiting
<1>6. HoldOnTime'
  BY <1>1 DEF Timely, HoldOnTime
<1> QED
  BY <1>1, <1>5, <1>6 DEF Timely, PassOnTime, Awaiting

LEMMA TimelyWake ==
  ASSUME Typed, Timely, NEW nap \in BOOLEAN, WakeUp(nap)
  PROVE  Timely'
<1>1. CASE nap
  BY <1>1 DEF WakeUp, Timely, Live
<1>2. CASE ~nap
  <2>1. /\ UNCHANGED <<view, stale, offline, age, napped, emptied, holdFor, refreshIn, rotationIn>>
        /\ advanceIn' = 0
        /\ awaits = None => awaits' = None
    BY <1>2 DEF WakeUp
  <2> SUFFICES ASSUME Live PROVE Timely'
    BY <2>1 DEF Timely, Live, SaysLive
  <2>2. HoldOnTime'
    BY <2>1 DEF Timely, HoldOnTime
  <2>3. CASE awaits = None
    BY <2>1, <2>2, <2>3 DEF Timely, FreshOnTime, EmptiedOnTime, PassOnTime, Awaiting
  <2>4. CASE awaits # None
    <3>1. /\ awaits' \in Awaits /\ awaits' # None
          /\ awaits'.for = awaits.for /\ awaits'.step = awaits.step /\ awaits'.left = awaits.left
          /\ awaits.due \in Due => awaits'.due.advance = TRUE /\ awaits'.due.free = awaits.due.free
      BY <1>2, <2>4, WokenFacts, WallAssumption
    <3>2. Waited' = Waited /\ PassTime(awaits.step)' = PassTime(awaits.step)
      BY <3>1 DEF Waited, PassTime
    <3>3. ~emptied => FreshOnTime'
      BY <2>1, <2>4, <3>1, <3>2 DEF Timely, FreshOnTime, Awaiting
    <3>4. emptied => EmptiedOnTime'
      <4>1. Awaiting("list") => awaits.due \in Due
        BY DEF Typed
      <4> QED
        BY <2>1, <2>4, <3>1, <3>2, <4>1 DEF Timely, EmptiedOnTime, Awaiting
    <3>5. PassOnTime'
      BY <2>1, <2>4, <3>1, <3>2 DEF Timely, PassOnTime, Awaiting
    <3> QED
      BY <2>1, <2>2, <3>3, <3>4, <3>5 DEF Timely
  <2> QED
    BY <2>3, <2>4
<1> QED
  BY <1>1, <1>2

LEMMA TimelyTime ==
  ASSUME Typed, Timely, TimePasses
  PROVE  Timely'
<1>1. /\ UNCHANGED <<view, stale, offline, napped, emptied>>
      /\ holdFor' = CountDown(holdFor) /\ advanceIn' = CountDown(advanceIn)
      /\ refreshIn' = CountDown(refreshIn) /\ rotationIn' = CountDown(rotationIn)
      /\ age' = LeastOf(age + 1, OldestAge)
      /\ awaits = None => awaits' = None
  BY DEF TimePasses
<1> SUFFICES ASSUME Live PROVE Timely'
  BY <1>1 DEF Timely, Live, SaysLive
<1>2. /\ age \in Nat /\ holdFor \in Nat /\ refreshIn \in Nat /\ refreshIn <= RefreshTime
      /\ rotationIn \in Nat /\ advanceIn \in Nat /\ view # None
  BY Numbers DEF Typed, Live, SaysLive
<1>3. age' \in Nat /\ age' <= age + 1
  BY <1>1, <1>2, OldestIsANumber DEF LeastOf
<1>4. /\ holdFor' = IF holdFor > 0 THEN holdFor - 1 ELSE 0
      /\ refreshIn' = IF refreshIn > 0 THEN refreshIn - 1 ELSE 0
      /\ advanceIn = 0 => advanceIn' = 0
  BY <1>1, <1>2, Numbers, CountsDown DEF Never
<1>5. HoldOnTime /\ PassOnTime /\ (emptied => EmptiedOnTime) /\ (~emptied => FreshOnTime)
  BY DEF Timely
<1>6. HoldOnTime'
  <2>1. holdFor > 0 => age + holdFor <= LeagueTakeover + LoadTimeout
    BY <1>5 DEF HoldOnTime
  <2>2. holdFor' > 0 => age' + holdFor' <= LeagueTakeover + LoadTimeout
    <3> SUFFICES ASSUME holdFor' > 0 PROVE age' + holdFor' <= LeagueTakeover + LoadTimeout
      OBVIOUS
    <3>1. holdFor > 0 /\ holdFor' = holdFor - 1
      BY <1>2, <1>4
    <3>2. LeagueTakeover + LoadTimeout \in Nat
      BY WallTimes
    <3>3. age' + (holdFor - 1) <= LeagueTakeover + LoadTimeout
      BY <1>2, <1>3, <2>1, <3>1, <3>2, Sums
    <3> QED
      BY <3>1, <3>3
  <2> QED
    BY <2>2 DEF HoldOnTime
<1>7. holdFor > 0 => holdFor' > 0 \/ age' <= LeagueTakeover + LoadTimeout
  BY <1>2, <1>3, <1>4, <1>5, WallTimes DEF HoldOnTime
<1>8. CASE awaits = None
  <2>1. rotationIn # 0 /\ refreshIn # 0 /\ ~(advanceIn = 0 /\ holdFor = 0)
    BY <1>8 DEF TimePasses, SomethingDue
  <2>2. ~emptied => FreshOnTime'
    BY <1>1, <1>2, <1>3, <1>4, <1>5, <1>8, <2>1, WallTimes DEF FreshOnTime, Awaiting
  <2>3. emptied => EmptiedOnTime'
    <3> SUFFICES ASSUME emptied PROVE EmptiedOnTime'
      OBVIOUS
    <3>1. advanceIn = 0 /\ advanceIn' = 0
      BY <1>4, <1>5, <1>8 DEF EmptiedOnTime, Awaiting
    <3>2. holdFor' > 0 \/ age' <= LeagueTakeover + LoadTimeout
      BY <1>2, <1>7, <2>1, <3>1
    <3>3. holdFor' > 0 \/ age' <= LeagueTakeover + 3 * LoadTimeout
      BY <1>3, <3>2, WallTimes
    <3> QED
      BY <1>1, <1>8, <3>1, <3>3 DEF EmptiedOnTime, Awaiting
  <2> QED
    BY <1>1, <1>6, <1>8, <2>2, <2>3 DEF Timely, PassOnTime, Awaiting
<1>9. CASE awaits # None
  <2>1. /\ awaits' \in Awaits /\ awaits' # None
        /\ awaits'.for = awaits.for /\ awaits'.step = awaits.step /\ awaits'.due = awaits.due
        /\ awaits'.left = awaits.left - 1
    BY <1>9, TimeFacts, WallAssumption
  <2>2. Waited' = Waited + 1 /\ Waited \in Nat
    <3>1. awaits \in Awaits /\ awaits.left \in Nat
      BY <1>9, AwaitsTyped DEF Typed
    <3> QED
      BY <2>1, <3>1, WaitedTyped, WallTimes DEF Waited
  <2>3. PassTime(awaits.step)' = PassTime(awaits.step)
    BY <2>1 DEF PassTime
  <2>4. ~emptied => FreshOnTime'
    <3> SUFFICES ASSUME ~emptied PROVE FreshOnTime'
      OBVIOUS
    <3>1. ASSUME Awaiting("list")
          PROVE  /\ refreshIn' > 0 => age' + refreshIn' <= RefreshTime + LoadTimeout
                 /\ refreshIn' = 0 => age' <= RefreshTime + LoadTimeout + Waited'
      <4>1. /\ refreshIn > 0 => age + refreshIn <= RefreshTime + LoadTimeout
            /\ refreshIn = 0 => age <= RefreshTime + LoadTimeout + Waited
        BY <1>5, <3>1 DEF FreshOnTime
      <4>2. CASE refreshIn = 0
        <5>1. refreshIn' = 0 /\ age <= RefreshTime + LoadTimeout + Waited
          BY <1>4, <4>1, <4>2
        <5>2. age' <= RefreshTime + LoadTimeout + Waited'
          BY <1>2, <1>3, <2>2, <5>1, WallTimes
        <5> QED
          BY <5>1, <5>2
      <4>3. CASE refreshIn > 0
        <5>1. refreshIn' = refreshIn - 1 /\ age + refreshIn <= RefreshTime + LoadTimeout
          BY <1>4, <4>1, <4>3
        <5>2. age' + refreshIn' <= RefreshTime + LoadTimeout
          <6>1. RefreshTime + LoadTimeout \in Nat
            BY WallTimes
          <6>2. age' + (refreshIn - 1) <= RefreshTime + LoadTimeout
            BY <1>2, <1>3, <4>3, <5>1, <6>1, Sums
          <6> QED
            BY <5>1, <6>2
        <5>3. refreshIn' = 0 => age' <= RefreshTime + LoadTimeout + Waited'
          <6>1. refreshIn' = 0 => age' <= RefreshTime + LoadTimeout
            BY <1>3, <5>2
          <6> QED
            BY <1>3, <2>2, <6>1, WallTimes
        <5> QED
          BY <5>2, <5>3
      <4> QED
        BY <1>2, <4>2, <4>3
    <3>2. ASSUME Awaiting("refresh")
          PROVE  age' <= RefreshTime + 2 * LoadTimeout + Waited'
      BY <1>2, <1>3, <1>5, <2>2, <3>2, WallTimes DEF FreshOnTime
    <3> QED
      BY <1>9, <2>1, <3>1, <3>2 DEF FreshOnTime, Awaiting
  <2>5. emptied => EmptiedOnTime'
    <3> SUFFICES ASSUME emptied PROVE EmptiedOnTime'
      OBVIOUS
    <3>1. ASSUME Awaiting("list")
          PROVE  \/ awaits.due.advance /\ awaits.due.free /\ age' <= LeagueTakeover + 3 * LoadTimeout + Waited'
                 \/ ~awaits.due.free /\ (holdFor' > 0 \/ age' <= LeagueTakeover + LoadTimeout + Waited')
      <4>1. \/ awaits.due.advance /\ awaits.due.free /\ age <= LeagueTakeover + 3 * LoadTimeout + Waited
            \/ ~awaits.due.free /\ (holdFor > 0 \/ age <= LeagueTakeover + LoadTimeout + Waited)
        BY <1>5, <3>1 DEF EmptiedOnTime
      <4>2. age <= LeagueTakeover + 3 * LoadTimeout + Waited => age' <= LeagueTakeover + 3 * LoadTimeout + Waited'
        BY <1>2, <1>3, <2>2, WallTimes
      <4>3. holdFor > 0 \/ age <= LeagueTakeover + LoadTimeout + Waited
              => holdFor' > 0 \/ age' <= LeagueTakeover + LoadTimeout + Waited'
        BY <1>2, <1>3, <1>7, <2>2, WallTimes
      <4> QED
        BY <4>1, <4>2, <4>3
    <3>2. ASSUME Awaiting("refresh")
          PROVE  holdFor' > 0 \/ age' <= LeagueTakeover + 2 * LoadTimeout + Waited'
      <4>1. holdFor > 0 \/ age <= LeagueTakeover + 2 * LoadTimeout + Waited
        BY <1>5, <3>2 DEF EmptiedOnTime
      <4> QED
        BY <1>2, <1>3, <1>7, <2>2, <4>1, WallTimes
    <3>3. ~Awaiting("advance") => advanceIn' = 0
      BY <1>4, <1>5 DEF EmptiedOnTime
    <3> QED
      BY <1>9, <2>1, <3>1, <3>2, <3>3 DEF EmptiedOnTime, Awaiting
  <2>6. PassOnTime'
    <3>1. ASSUME Awaiting("advance")
          PROVE  age' <= LeagueTakeover + 4 * LoadTimeout + PassTime(awaits.step)' + Waited'
      <4>1. awaits.step \in Nat \ {0}
        BY <3>1 DEF Typed
      <4>2. PassTime(awaits.step) \in Nat
        BY <4>1, PassTimes
      <4> QED
        BY <1>2, <1>3, <1>5, <2>2, <2>3, <3>1, <4>2, WallTimes DEF PassOnTime
    <3> QED
      BY <1>9, <2>1, <3>1 DEF PassOnTime, Awaiting
  <2> QED
    BY <1>1, <1>6, <2>4, <2>5, <2>6 DEF Timely
<1> QED
  BY <1>8, <1>9

LEMMA TimelyStep ==
  ASSUME Typed, Timely, [Next]_vars
  PROVE  Timely'
<1>1. CASE EngineRests
  BY <1>1 DEF EngineRests, shown, timers, Timely, Live, SaysLive, HoldOnTime, FreshOnTime, EmptiedOnTime, PassOnTime,
              Waited, Awaiting, PassTime
<1>2. CASE RefreshFails
  BY <1>2 DEF RefreshFails, Timely, Live, SaysLive
<1> QED
  BY <1>1, <1>2, TimelyTick, TimelyList, TimelyShown, TimelySkip, TimelyEmpty, TimelyWake, TimelyTime, RestingSteps
  DEF Next, Answers

LEMMA TimelyIsFresh ==
  ASSUME Typed, Timely
  PROVE  LiveWallIsFresh
<1> SUFFICES ASSUME Live
             PROVE  /\ age <= FreshFor
                    /\ ~emptied /\ ~Awaiting("advance") => age <= RefreshTime + 3 * LoadTimeout
  BY DEF LiveWallIsFresh, Live
<1>1. age \in Nat /\ holdFor \in Nat /\ refreshIn \in Nat
  BY Numbers
<1>2. HoldOnTime /\ PassOnTime /\ (emptied => EmptiedOnTime) /\ (~emptied => FreshOnTime)
  BY DEF Timely
<1>3. Len(TrackOrder) \in Nat
  BY WallAssumption, LenProperties
<1>4. FreshFor \in Nat /\ LeagueTakeover + 5 * LoadTimeout <= FreshFor
  <2>1. 1 <= Len(TrackOrder) + 2
    BY <1>3
  <2>2. LeagueTakeover + 4 * LoadTimeout + PassTime(1) + LoadTimeout <= FreshFor
    BY <2>1, PassTimes
  <2> QED
    BY <2>2, PassTimes, OldestIsANumber, WallTimes DEF FreshFor
<1>5. awaits = None \/ awaits \in Awaits
  BY DEF Typed
<1>6. awaits \in Awaits => /\ Waited \in Nat /\ Waited <= LoadTimeout
                           /\ Awaiting("list") \/ Awaiting("advance") \/ Awaiting("refresh")
  BY WaitedTyped, AwaitsTyped DEF Awaiting
<1>7. ~emptied /\ ~Awaiting("advance") => age <= RefreshTime + 3 * LoadTimeout
  BY <1>1, <1>2, <1>5, <1>6, WallTimes DEF FreshOnTime
<1>8. emptied /\ ~Awaiting("advance") => age <= LeagueTakeover + 4 * LoadTimeout
  <2>1. holdFor > 0 => age <= LeagueTakeover + 4 * LoadTimeout
    BY <1>1, <1>2, WallTimes DEF HoldOnTime
  <2>2. awaits = None /\ emptied => holdFor > 0 \/ age <= LeagueTakeover + 3 * LoadTimeout
    BY <1>2 DEF EmptiedOnTime
  <2>3. Awaiting("list") /\ emptied =>
          \/ holdFor > 0 \/ age <= LeagueTakeover + 3 * LoadTimeout + Waited
          \/ age <= LeagueTakeover + LoadTimeout + Waited
    BY <1>2 DEF EmptiedOnTime
  <2>4. Awaiting("refresh") /\ emptied => holdFor > 0 \/ age <= LeagueTakeover + 2 * LoadTimeout + Waited
    BY <1>2 DEF EmptiedOnTime
  <2> QED
    BY <1>1, <1>5, <1>6, <2>1, <2>2, <2>3, <2>4, WallTimes
<1>9. Awaiting("advance") => age <= FreshFor
  <2> SUFFICES ASSUME Awaiting("advance") PROVE age <= FreshFor
    OBVIOUS
  <2>1. awaits.step \in Nat \ {0} /\ awaits.step <= Len(TrackOrder) + 2
    BY <1>3 DEF Typed
  <2>2. /\ PassTime(awaits.step) \in Nat
        /\ LeagueTakeover + 4 * LoadTimeout + PassTime(awaits.step) + LoadTimeout <= FreshFor
    BY <2>1, PassTimes
  <2>3. age <= LeagueTakeover + 4 * LoadTimeout + PassTime(awaits.step) + Waited
    BY <1>2 DEF PassOnTime
  <2>4. Waited \in Nat /\ Waited <= LoadTimeout
    BY <1>5, <1>6 DEF Awaiting
  <2> QED
    BY <1>1, <1>4, <2>2, <2>3, <2>4, WallTimes
<1> QED
  BY <1>1, <1>4, <1>7, <1>8, <1>9, WallTimes

(* A wall that says its numbers are live shows none older than FreshFor,   *)
(* and between passes, unless a refresh found its board empty, none older  *)
(* than a refresh, its answer and the reads of the list around it.         *)
THEOREM LiveWallsAreFresh == Spec => []LiveWallIsFresh
<1>1. Init => Timely
  BY DEF Init, EngineStarts, Timely, Live, SaysLive
<1> QED
  BY <1>1, TimelyStep, TimelyIsFresh, TypeCorrect, PTL DEF Spec

-----------------------------------------------------------------------------
(* League night keeps the wall.  The hold of the open round's board runs   *)
(* down no further than the wait for a refresh, its answer and a read of   *)
(* the list before it, all of which are shorter than the hold together.    *)
LeagueIsOn ==
  /\ view # None /\ view.slide.board = "league" /\ view.open = today
  /\ ~stale /\ ~napped /\ ~emptied

HoldStands ==
  /\ ~Awaiting("advance")
  /\ awaits = None =>
       \/ holdFor + RefreshTime >= LeagueTakeover + refreshIn
       \/ refreshIn = 0 /\ rotationIn > 0 /\ holdFor + RefreshTime + LoadTimeout >= LeagueTakeover
  /\ Awaiting("list") =>
       /\ ~awaits.due.free
       /\ refreshIn > 0 => holdFor + RefreshTime >= LeagueTakeover + refreshIn
       /\ refreshIn = 0 => holdFor + RefreshTime + Waited >= LeagueTakeover
  /\ Awaiting("refresh") => holdFor + RefreshTime + LoadTimeout + Waited >= LeagueTakeover

LeagueHolds == LeagueIsOn => HoldStands

(* A round opens on its day, and no board shows a later one.               *)
DaysPass ==
  /\ today \in Int
  /\ openOn # None => openOn \in Int /\ openOn <= today
  /\ view # None /\ view.open # None => view.open \in Int /\ view.open <= today

LEMMA TodayMoves ==
  ASSUME [Next]_vars
  PROVE  UNCHANGED today \/ MidnightPasses
<1>1. CASE Venue
  BY <1>1 DEF Venue, LapLands, DriverIsBanned, RigReports, RoundChanges, SeasonRolls, ComboIsSet, NetworkChanges, WakeUp
<1>2. CASE Tick \/ Hand \/ ListResumes \/ TimePasses \/ UNCHANGED vars
  BY <1>2 DEF Tick, Hand, ListResumes, TimePasses, vars, venue
<1>3. CASE Answers
  BY <1>3 DEF Answers, ListArrives, ListFails, SlideLoads, SlideIsSkipped, RefreshLoads, RefreshIsEmpty, RefreshFails, venue
<1> QED
  BY <1>1, <1>2, <1>3 DEF Next

(* Only an answer with something to show changes what is on the wall.      *)
LEMMA ViewMoves ==
  ASSUME [Next]_vars
  PROVE  UNCHANGED view \/ SlideLoads \/ RefreshLoads
<1>1. ASSUME EngineRests \/ \E nap \in BOOLEAN : WakeUp(nap) PROVE UNCHANGED view
  BY <1>1 DEF EngineRests, shown, WakeUp
<1>2. CASE Venue \/ Hand \/ ListResumes \/ UNCHANGED vars
  BY <1>1, <1>2, RestingSteps
<1>3. CASE Tick \/ TimePasses
  BY <1>3 DEF Tick, TimePasses, shown
<1>4. CASE Answers
  BY <1>4 DEF Answers, ListArrives, ListFails, SlideIsSkipped, RefreshIsEmpty, RefreshFails, shown
<1> QED
  BY <1>2, <1>3, <1>4 DEF Next

LEMMA RoundMoves ==
  ASSUME [Next]_vars
  PROVE  UNCHANGED openOn \/ RoundChanges
<1>1. CASE Venue
  BY <1>1 DEF Venue, LapLands, DriverIsBanned, RigReports, MidnightPasses, SeasonRolls, ComboIsSet, NetworkChanges, WakeUp
<1>2. CASE Tick \/ Hand \/ ListResumes \/ TimePasses \/ UNCHANGED vars
  BY <1>2 DEF Tick, Hand, ListResumes, TimePasses, vars, venue
<1>3. CASE Answers
  BY <1>3 DEF Answers, ListArrives, ListFails, SlideLoads, SlideIsSkipped, RefreshLoads, RefreshIsEmpty, RefreshFails, venue
<1> QED
  BY <1>1, <1>2, <1>3 DEF Next

LEMMA DaysStep ==
  ASSUME DaysPass, [Next]_vars
  PROVE  DaysPass'
<1>1. today' \in Int /\ today <= today'
  BY TodayMoves DEF MidnightPasses, DaysPass
<1>2. openOn' # None => openOn' \in Int /\ openOn' <= today'
  <2>1. UNCHANGED openOn \/ openOn' = today \/ openOn' = None
    BY RoundMoves DEF RoundChanges
  <2> QED
    BY <1>1, <2>1 DEF DaysPass
<1>3. view' # None /\ view'.open # None => view'.open \in Int /\ view'.open <= today'
  <2>1. CASE UNCHANGED view
    BY <1>1, <2>1 DEF DaysPass
  <2>2. CASE SlideLoads \/ RefreshLoads
    <3>1. PICK slide : view' = [slide |-> slide, open |-> IF slide.board = "league" THEN openOn ELSE None]
      BY <2>2 DEF SlideLoads, RefreshLoads, Shows
    <3>2. view'.open \in {openOn, None}
      BY <3>1
    <3> QED
      BY <1>1, <3>2 DEF DaysPass
  <2> QED
    BY <2>1, <2>2, ViewMoves
<1> QED
  BY <1>1, <1>2, <1>3 DEF DaysPass

(* The arithmetic of a hold, and of a unit of time on it.                  *)
LEMMA HoldLeft ==
  ASSUME NEW hold \in Nat
  PROVE  /\ \A refresh \in Nat : hold + RefreshTime >= LeagueTakeover + refresh => hold > 0
         /\ hold + RefreshTime + LoadTimeout >= LeagueTakeover => hold > 0
         /\ \A refresh \in Nat : hold + RefreshTime >= LeagueTakeover + refresh
                                => hold + RefreshTime + LoadTimeout >= LeagueTakeover
<1>1. RefreshTime \in Nat /\ LoadTimeout \in Nat /\ LeagueTakeover \in Nat /\ RefreshTime + LoadTimeout < LeagueTakeover
  BY WallTimes
<1> QED
  BY <1>1

LEMMA HoldRuns ==
  ASSUME NEW hold \in Nat, NEW runs \in Nat, runs >= hold - 1, NEW waited \in Nat
  PROVE  /\ \A refresh \in Nat :
              refresh > 0 /\ hold + RefreshTime >= LeagueTakeover + refresh
                => runs + RefreshTime >= LeagueTakeover + (refresh - 1)
         /\ runs + RefreshTime >= LeagueTakeover => runs + RefreshTime + (waited + 1) >= LeagueTakeover
         /\ hold + RefreshTime + waited >= LeagueTakeover
              => runs + RefreshTime + (waited + 1) >= LeagueTakeover
         /\ hold + RefreshTime + LoadTimeout + waited >= LeagueTakeover
              => runs + RefreshTime + LoadTimeout + (waited + 1) >= LeagueTakeover
<1>1. RefreshTime \in Nat /\ LoadTimeout \in Nat /\ LeagueTakeover \in Nat
  BY WallTimes
<1> QED
  BY <1>1

LEMMA HoldsOnTick ==
  ASSUME Typed, LeagueHolds, Tick, LeagueIsOn
  PROVE  HoldStands'
<1>1. awaits = None /\ UNCHANGED holdFor /\ HoldStands
  BY TickStarts DEF LeagueHolds
<1>2. /\ holdFor \in Nat /\ refreshIn \in Nat /\ rotationIn \in Nat
  BY Numbers
<1>3. \/ holdFor + RefreshTime >= LeagueTakeover + refreshIn
      \/ refreshIn = 0 /\ rotationIn > 0 /\ holdFor + RefreshTime + LoadTimeout >= LeagueTakeover
  BY <1>1 DEF HoldStands
<1>4. holdFor > 0 /\ holdFor + RefreshTime + LoadTimeout >= LeagueTakeover
  <2>1. CASE holdFor + RefreshTime >= LeagueTakeover + refreshIn
    BY <1>2, <2>1, HoldLeft
  <2>2. CASE refreshIn = 0 /\ rotationIn > 0 /\ holdFor + RefreshTime + LoadTimeout >= LeagueTakeover
    BY <1>2, <2>2, HoldLeft
  <2> QED
    BY <1>3, <2>1, <2>2
<1>5. ~DueNow.free
  <2>1. holdFor # 0
    BY <1>2, <1>4
  <2>2. DueNow.free = (holdFor = 0)
    BY DEF DueNow
  <2> QED
    BY <2>1, <2>2
<1>6. CASE rotationIn = 0
  <2>1. awaits' \in Awaits /\ awaits' # None /\ awaits'.for = "list" /\ awaits'.due = DueNow /\ awaits'.left = LoadTimeout
    BY <1>6, TickStarts, NowIsDue, ListRequested
  <2>2. UNCHANGED refreshIn /\ Waited' = 0
    BY <1>6, <2>1, TickStarts, WallTimes DEF Waited
  <2>3. holdFor + RefreshTime >= LeagueTakeover + refreshIn
    BY <1>2, <1>3, <1>6
  <2>4. refreshIn = 0 => holdFor + RefreshTime + 0 >= LeagueTakeover
    BY <1>2, <2>3, WallTimes
  <2> QED
    BY <1>1, <1>5, <2>1, <2>2, <2>3, <2>4 DEF HoldStands, Awaiting
<1>7. CASE rotationIn # 0
  <2>1. rotationIn' = rotationIn /\ (StartsRefresh(DueNow, advanceIn) \/ Idles(DueNow, advanceIn))
    BY <1>5, <1>7, TickStarts DEF StartsPass
  <2>2. CASE StartsRefresh(DueNow, advanceIn)
    <3>1. awaits' \in Awaits /\ awaits' # None /\ awaits'.for = "refresh" /\ awaits'.left = LoadTimeout
      BY <2>2, RefreshRequested DEF StartsRefresh
    <3>2. Waited' = 0
      BY <3>1, WallTimes DEF Waited
    <3>3. holdFor + RefreshTime + LoadTimeout + 0 >= LeagueTakeover
      BY <1>2, <1>4, WallTimes
    <3> QED
      BY <1>1, <3>1, <3>2, <3>3 DEF HoldStands, Awaiting
  <2>3. CASE Idles(DueNow, advanceIn)
    BY <1>1, <1>3, <2>1, <2>3 DEF Idles, HoldStands, Awaiting
  <2> QED
    BY <2>1, <2>2, <2>3
<1> QED
  BY <1>6, <1>7

LEMMA HoldsOnList ==
  ASSUME Typed, LeagueHolds, ListArrives \/ ListFails, LeagueIsOn
  PROVE  HoldStands'
<1>1. Awaiting("list") /\ UNCHANGED holdFor /\ HoldStands
  BY DEF LeagueHolds, ListArrives, ListFails
<1>2. awaits \in Awaits /\ Waited \in Nat /\ Waited <= LoadTimeout
  BY <1>1, WaitedTyped DEF Awaiting, Typed
<1>3. /\ holdFor \in Nat /\ refreshIn \in Nat /\ rotationIn \in Nat
  BY Numbers
<1>4. /\ ~awaits.due.free
      /\ refreshIn > 0 => holdFor + RefreshTime >= LeagueTakeover + refreshIn
      /\ refreshIn = 0 => holdFor + RefreshTime + Waited >= LeagueTakeover
  BY <1>1 DEF HoldStands
<1>5. holdFor + RefreshTime + LoadTimeout >= LeagueTakeover
  BY <1>2, <1>3, <1>4, WallTimes
<1>6. rotationIn' > 0
  <2>1. rotationIn + LoadTimeout - awaits.left >= RotationTime /\ awaits.left \in Nat
    BY <1>1, <1>2, AwaitsTyped DEF Typed, LeagueIsOn
  <2>2. rotationIn > 0
    BY <1>3, <2>1, WallTimes
  <2> QED
    BY <2>2, WallTimes DEF ListArrives, ListFails
<1>7. PICK due \in Due, next \in Nat : /\ due.free = awaits.due.free
                                       /\ StartsPass(due) \/ StartsRefresh(due, next) \/ Idles(due, next)
  BY ListEnds
<1>8. ~StartsPass(due)
  BY <1>4, <1>7 DEF StartsPass
<1>9. CASE StartsRefresh(due, next)
  <2>1. awaits' \in Awaits /\ awaits' # None /\ awaits'.for = "refresh" /\ awaits'.left = LoadTimeout
    BY <1>9, RefreshRequested DEF StartsRefresh
  <2>2. Waited' = 0
    BY <2>1, WallTimes DEF Waited
  <2>3. holdFor + RefreshTime + LoadTimeout + 0 >= LeagueTakeover
    BY <1>3, <1>5, WallTimes
  <2> QED
    BY <1>1, <2>1, <2>2, <2>3 DEF HoldStands, Awaiting
<1>10. CASE Idles(due, next)
  <2>1. refreshIn = 0 \/ refreshIn > 0
    BY <1>3
  <2> QED
    BY <1>1, <1>4, <1>5, <1>6, <1>10, <2>1 DEF Idles, HoldStands, Awaiting
<1> QED
  BY <1>7, <1>8, <1>9, <1>10

LEMMA HoldsOnShow ==
  ASSUME Typed, SlideLoads \/ RefreshLoads, LeagueIsOn'
  PROVE  HoldStands'
<1>1. PICK slide : Shows(slide)
  BY DEF SlideLoads, RefreshLoads
<1>2. awaits # None /\ awaits' = None /\ today' = today
  BY DEF SlideLoads, RefreshLoads, Awaiting, venue
<1>3. view' = [slide |-> slide, open |-> IF slide.board = "league" THEN openOn ELSE None]
  BY <1>1, <1>2, ShownFacts
<1>4. slide.board = "league" /\ openOn = today
  BY <1>2, <1>3 DEF LeagueIsOn
<1>5. holdFor' = LeagueTakeover
  BY <1>1, <1>2, <1>4, ShownFacts
<1>6. refreshIn' \in Nat /\ refreshIn' <= RefreshTime
  <2>1. CASE SlideLoads
    BY <2>1, WallTimes DEF SlideLoads
  <2>2. CASE RefreshLoads
    BY <2>2, Numbers DEF RefreshLoads, Typed
  <2> QED
    BY <2>1, <2>2
<1>7. LeagueTakeover + RefreshTime >= LeagueTakeover + refreshIn'
  <2>1. \A a, b, c \in Nat : a <= b => c + b >= c + a
    OBVIOUS
  <2> QED
    BY <1>6, <2>1, WallTimes
<1> QED
  BY <1>2, <1>5, <1>7 DEF HoldStands, Awaiting

LEMMA HoldsOnWake ==
  ASSUME Typed, LeagueHolds, NEW nap \in BOOLEAN, WakeUp(nap), LeagueIsOn'
  PROVE  HoldStands'
<1>1. ~nap
  BY DEF WakeUp, LeagueIsOn
<1>2. /\ UNCHANGED <<view, stale, napped, emptied, today, holdFor, refreshIn, rotationIn>>
      /\ awaits = None => awaits' = None
  BY <1>1 DEF WakeUp
<1>3. HoldStands
  BY <1>2 DEF LeagueHolds, LeagueIsOn
<1>4. CASE awaits = None
  BY <1>2, <1>3, <1>4 DEF HoldStands, Awaiting
<1>5. CASE awaits # None
  <2>1. /\ awaits' \in Awaits /\ awaits' # None
        /\ awaits'.for = awaits.for /\ awaits'.left = awaits.left
        /\ awaits.due \in Due => awaits'.due.free = awaits.due.free
    BY <1>1, <1>5, WokenFacts, WallAssumption
  <2>2. Waited' = Waited /\ (Awaiting("list") => awaits.due \in Due)
    BY <2>1 DEF Waited, Typed
  <2> QED
    BY <1>2, <1>3, <1>5, <2>1, <2>2 DEF HoldStands, Awaiting
<1> QED
  BY <1>4, <1>5

LEMMA HoldsInTime ==
  ASSUME Typed, LeagueHolds, TimePasses, LeagueIsOn
  PROVE  HoldStands'
<1>1. /\ holdFor' = CountDown(holdFor) /\ refreshIn' = CountDown(refreshIn)
      /\ awaits = None => awaits' = None
  BY DEF TimePasses
<1>2. /\ holdFor \in Nat /\ refreshIn \in Nat /\ refreshIn <= RefreshTime /\ rotationIn \in Nat
  BY Numbers DEF Typed, LeagueIsOn
<1>3. /\ holdFor' \in Nat /\ holdFor' >= holdFor - 1
      /\ refreshIn' = IF refreshIn > 0 THEN refreshIn - 1 ELSE 0
  BY <1>1, <1>2, Numbers, CountsDown DEF Never
<1>4. HoldStands
  BY DEF LeagueHolds
<1>5. refreshIn > 0 /\ holdFor + RefreshTime >= LeagueTakeover + refreshIn
        => holdFor' + RefreshTime >= LeagueTakeover + refreshIn'
  <2> SUFFICES ASSUME refreshIn > 0, holdFor + RefreshTime >= LeagueTakeover + refreshIn
               PROVE  holdFor' + RefreshTime >= LeagueTakeover + refreshIn'
    OBVIOUS
  <2>1. holdFor' + RefreshTime >= LeagueTakeover + (refreshIn - 1)
    BY <1>2, <1>3, HoldRuns
  <2> QED
    BY <1>3, <2>1
<1>6. CASE awaits = None
  <2>1. refreshIn # 0
    BY <1>6 DEF TimePasses, SomethingDue
  <2>2. holdFor' + RefreshTime >= LeagueTakeover + refreshIn'
    BY <1>2, <1>4, <1>5, <1>6, <2>1 DEF HoldStands
  <2> QED
    BY <1>1, <1>6, <2>2 DEF HoldStands, Awaiting
<1>7. CASE awaits # None
  <2>1. /\ awaits' \in Awaits /\ awaits' # None
        /\ awaits'.for = awaits.for /\ awaits'.due = awaits.due /\ awaits'.left = awaits.left - 1
    BY <1>7, TimeFacts, WallAssumption
  <2>2. Waited' = Waited + 1 /\ Waited \in Nat
    <3>1. awaits \in Awaits /\ awaits.left \in Nat
      BY <1>7, AwaitsTyped DEF Typed
    <3> QED
      BY <2>1, <3>1, WaitedTyped, WallTimes DEF Waited
  <2>3. ASSUME Awaiting("list")
        PROVE  /\ ~awaits.due.free
               /\ refreshIn' > 0 => holdFor' + RefreshTime >= LeagueTakeover + refreshIn'
               /\ refreshIn' = 0 => holdFor' + RefreshTime + Waited' >= LeagueTakeover
    <3>1. /\ ~awaits.due.free
          /\ refreshIn > 0 => holdFor + RefreshTime >= LeagueTakeover + refreshIn
          /\ refreshIn = 0 => holdFor + RefreshTime + Waited >= LeagueTakeover
      BY <1>4, <2>3 DEF HoldStands
    <3>2. CASE refreshIn > 0
      <4>1. holdFor' + RefreshTime >= LeagueTakeover + refreshIn'
        BY <1>5, <3>1, <3>2
      <4>2. refreshIn' = 0 => holdFor' + RefreshTime >= LeagueTakeover
        BY <4>1, WallTimes
      <4>3. refreshIn' = 0 => holdFor' + RefreshTime + (Waited + 1) >= LeagueTakeover
        BY <1>2, <1>3, <2>2, <4>2, HoldRuns
      <4> QED
        BY <2>2, <3>1, <4>1, <4>3
    <3>3. CASE refreshIn = 0
      <4>1. refreshIn' = 0 /\ holdFor + RefreshTime + Waited >= LeagueTakeover
        BY <1>3, <3>1, <3>3
      <4>2. holdFor' + RefreshTime + (Waited + 1) >= LeagueTakeover
        BY <1>2, <1>3, <2>2, <4>1, HoldRuns
      <4> QED
        BY <2>2, <3>1, <4>1, <4>2
    <3> QED
      BY <1>2, <3>2, <3>3
  <2>4. ASSUME Awaiting("refresh")
        PROVE  holdFor' + RefreshTime + LoadTimeout + Waited' >= LeagueTakeover
    <3>1. holdFor + RefreshTime + LoadTimeout + Waited >= LeagueTakeover
      BY <1>4, <2>4 DEF HoldStands
    <3>2. holdFor' + RefreshTime + LoadTimeout + (Waited + 1) >= LeagueTakeover
      BY <1>2, <1>3, <2>2, <3>1, HoldRuns
    <3> QED
      BY <2>2, <3>2
  <2>5. ~Awaiting("advance")
    BY <1>4 DEF HoldStands
  <2> QED
    BY <1>7, <2>1, <2>3, <2>4, <2>5 DEF HoldStands, Awaiting
<1> QED
  BY <1>6, <1>7

LEMMA LeagueStep ==
  ASSUME Typed, DaysPass, LeagueHolds, [Next]_vars
  PROVE  LeagueHolds'
<1> SUFFICES ASSUME LeagueIsOn' PROVE HoldStands'
  BY DEF LeagueHolds
<1>1. UNCHANGED <<view, stale, napped, emptied>> => LeagueIsOn
  <2>1. UNCHANGED view /\ MidnightPasses => ~LeagueIsOn'
    <3> SUFFICES ASSUME UNCHANGED view, MidnightPasses PROVE FALSE
      OBVIOUS
    <3>1. today \in Int /\ today' = today + 1 /\ today' \in Int /\ view.open = today' /\ view # None
      BY DEF DaysPass, MidnightPasses, LeagueIsOn
    <3>2. view.open # None
      BY <3>1, WallAssumption
    <3> QED
      BY <3>1, <3>2 DEF DaysPass
  <2> QED
    BY <2>1, TodayMoves DEF LeagueIsOn
<1>2. CASE EngineRests
  <2>1. HoldStands
    BY <1>1, <1>2 DEF EngineRests, shown, LeagueHolds
  <2> QED
    BY <1>2, <2>1 DEF EngineRests, timers, HoldStands, Awaiting, Waited
<1>3. CASE Tick
  BY <1>1, <1>3, TickStarts, HoldsOnTick DEF shown
<1>4. CASE ListArrives \/ ListFails
  <2>1. UNCHANGED <<view, stale, napped, emptied>>
    BY <1>4 DEF ListArrives, ListFails, shown
  <2> QED
    BY <1>1, <1>4, <2>1, HoldsOnList
<1>5. CASE SlideIsSkipped
  <2>1. PICK failed : PassGoesOn(failed)
    BY <1>5 DEF SlideIsSkipped
  <2>2. Awaiting("advance") /\ UNCHANGED <<view, emptied>> /\ view # None
    BY <1>5 DEF SlideIsSkipped, LeagueIsOn
  <2>3. CASE awaits.step < Len(rotation)
    BY <1>1, <2>1, <2>2, <2>3 DEF PassGoesOn, LeagueHolds, HoldStands
  <2>4. CASE ~(awaits.step < Len(rotation))
    BY <2>1, <2>2, <2>4 DEF PassGoesOn, LeagueIsOn
  <2> QED
    BY <2>3, <2>4
<1>6. CASE RefreshIsEmpty \/ RefreshFails
  BY <1>6 DEF RefreshIsEmpty, RefreshFails, LeagueIsOn
<1>7. CASE TimePasses
  BY <1>1, <1>7, HoldsInTime DEF TimePasses
<1> QED
  BY <1>2, <1>3, <1>4, <1>5, <1>6, <1>7, HoldsOnShow, HoldsOnWake, RestingSteps DEF Next, Answers

LEMMA LeagueKept ==
  ASSUME Typed, LeagueHolds, [Next]_vars
  PROVE  [view # None /\ view'.slide # view.slide /\ view.slide.board = "league" /\ view.open = today
          => stale \/ napped \/ emptied]_vars
<1> SUFFICES ASSUME view # None, view'.slide # view.slide, view.slide.board = "league", view.open = today,
                    ~(stale \/ napped \/ emptied)
             PROVE  FALSE
  OBVIOUS
<1>1. HoldStands
  BY DEF LeagueHolds, LeagueIsOn
<1>2. ~SlideLoads
  BY <1>1 DEF SlideLoads, HoldStands
<1>3. CASE RefreshLoads
  <2>1. view' = [slide |-> view.slide, open |-> IF view.slide.board = "league" THEN openOn ELSE None]
    BY <1>3 DEF RefreshLoads, Shows
  <2> QED
    BY <2>1
<1> QED
  BY <1>2, <1>3, ViewMoves

(* The board of a round open today is left only when the feed has failed   *)
(* it, its season is gone or the display slept.                            *)
THEOREM LeagueStays == Spec => LeagueKeepsTheWall
<1>1. Init => LeagueHolds /\ DaysPass
  <2>1. Init => view = None /\ today = 0 /\ (openOn = None \/ openOn = today)
    BY DEF Init, EngineStarts
  <2> QED
    BY <2>1 DEF LeagueHolds, LeagueIsOn, DaysPass
<1>2. Typed /\ (LeagueHolds /\ DaysPass) /\ [Next]_vars => (LeagueHolds /\ DaysPass)'
  BY LeagueStep, DaysStep
<1>3. Spec => []Typed
  BY TypeCorrect
<1>4. Spec => [](LeagueHolds /\ DaysPass)
  BY <1>1, <1>2, <1>3, PTL DEF Spec
<1>5. Typed /\ (LeagueHolds /\ DaysPass) /\ [Next]_vars
        => [view # None /\ view'.slide # view.slide /\ view.slide.board = "league" /\ view.open = today
            => stale \/ napped \/ emptied]_vars
  BY LeagueKept
<1> QED
  BY <1>3, <1>4, <1>5, PTL DEF Spec, LeagueKeepsTheWall
-----------------------------------------------------------------------------
(* The live race.  A request, whatever its answer; one at a time is in     *)
(* flight, the last one sent, and nobody is waiting for an earlier answer. *)
Asked(answers) ==
  [answer : answers, served : BOOLEAN, age : 0..1, stopped : BOOLEAN, late : BOOLEAN]

OneOut(sent) == \A i \in DOMAIN sent : ~sent[i].stopped => i = Len(sent) /\ ~sent[i].late

RequestsSound == OneOut(requests) /\ \E answers : requests \in Seq(Asked(answers))

BoardSound ==
  \E races, keys : board \in [race : races, raceAge : Nat, finish : {None} \cup [session : keys, age : Nat]]

(* The flag of the race on screen was seen no later than its last answer.  *)
FinishIsOlder ==
  board.race # None /\ board.finish # None /\ board.finish.session = board.race.session
  => board.raceAge <= board.finish.age \/ board.finish.age >= FinishHold

(* While somebody looks, a request answered or failed leaves a race no     *)
(* older than DropAfter; the next poll asks again, and one poll later at   *)
(* most that request is over too.                                          *)
RaceOnTime ==
  Watched /\ board.race # None =>
    /\ InFlight(requests) = {} => board.raceAge <= DropAfter
    /\ \A i \in InFlight(requests) :
         looked <= requests[i].age \/ board.raceAge <= DropAfter + 1 + requests[i].age

ScreenSound ==
  /\ RequestsSound /\ BoardSound
  /\ looked \in Nat /\ active \in BOOLEAN /\ visible \in BOOLEAN
  /\ FinishIsOlder /\ RaceOnTime

(* A finish that has been and left is not on screen.                       *)
GoneIsGone == \A s \in gone : board.race = None \/ board.race.session # s
-----------------------------------------------------------------------------
LEMMA RaceTimes ==
  DropAfter \in Nat /\ FinishHold \in Nat /\ FinishHold <= DropAfter /\ Slack = 2
BY RaceScreenAssumption DEF Slack

LEMMA AskedOne ==
  ASSUME NEW answers, NEW a \in Asked(answers)
  PROVE  /\ a.age \in 0..1 /\ a.served \in BOOLEAN /\ a.stopped \in BOOLEAN /\ a.late \in BOOLEAN
         /\ [a EXCEPT !.stopped = TRUE] \in Asked(answers) /\ [a EXCEPT !.stopped = TRUE].stopped
BY DEF Asked

LEMMA SequenceOf ==
  ASSUME NEW S, NEW n \in Nat, NEW f \in [1..n -> S]
  PROVE  f \in Seq(S) /\ Len(f) = n /\ DOMAIN f = 1..n
OBVIOUS

LEMMA PolledIs ==
  ASSUME NEW answers, NEW sent \in Seq(Asked(answers)), OneOut(sent)
  PROVE  /\ Poll(sent) \in Seq(Asked(answers \cup {None})) /\ OneOut(Poll(sent))
         /\ InFlight(Poll(sent)) # {}
         /\ \A i \in InFlight(Poll(sent)) :
              IF InFlight(sent) = {} THEN Poll(sent)[i].age = 0
              ELSE i \in InFlight(sent) /\ Poll(sent)[i] = sent[i]
<1> DEFINE more == answers \cup {None}
<1>1. /\ NewRequest \in Asked(more) /\ NewRequest.age = 0 /\ ~NewRequest.stopped /\ ~NewRequest.late
  BY DEF NewRequest, Asked
<1>2. sent \in Seq(Asked(more)) /\ Len(sent) \in Nat /\ DOMAIN sent = 1..Len(sent)
  <2>1. Asked(answers) \subseteq Asked(more)
    BY DEF Asked
  <2>2. sent \in Seq(Asked(more))
    BY <2>1, SeqMonotonic
  <2> QED BY <2>2
<1>3. CASE InFlight(sent) = {}
  <2>1. Poll(sent) = Append(sent, NewRequest)
    BY <1>3 DEF Poll
  <2>2. /\ Append(sent, NewRequest) \in Seq(Asked(more))
        /\ DOMAIN Append(sent, NewRequest) = 1..(Len(sent) + 1)
        /\ Len(Append(sent, NewRequest)) = Len(sent) + 1
        /\ Append(sent, NewRequest)[Len(sent) + 1] = NewRequest
        /\ \A i \in 1..Len(sent) : Append(sent, NewRequest)[i] = sent[i]
    BY <1>1, <1>2
  <2>3. \A i \in 1..Len(sent) : sent[i].stopped
    BY <1>2, <1>3 DEF InFlight
  <2>4. InFlight(Append(sent, NewRequest)) = {Len(sent) + 1}
    BY <1>1, <1>2, <2>2, <2>3 DEF InFlight
  <2> QED BY <1>1, <1>2, <1>3, <2>1, <2>2, <2>3, <2>4 DEF OneOut
<1>4. CASE InFlight(sent) # {}
  BY <1>2, <1>4 DEF Poll
<1> QED BY <1>3, <1>4

LEMMA StoppedIs ==
  ASSUME NEW answers, NEW sent \in Seq(Asked(answers))
  PROVE  Stop(sent) \in Seq(Asked(answers)) /\ OneOut(Stop(sent)) /\ InFlight(Stop(sent)) = {}
<1>1. /\ DOMAIN sent = 1..Len(sent) /\ Len(sent) \in Nat
      /\ \A i \in 1..Len(sent) : sent[i] \in Asked(answers)
  OBVIOUS
<1>2. Stop(sent) = [i \in 1..Len(sent) |-> [sent[i] EXCEPT !.stopped = TRUE]]
  BY <1>1 DEF Stop
<1>3. ASSUME NEW i \in 1..Len(sent) PROVE Stop(sent)[i] \in Asked(answers) /\ Stop(sent)[i].stopped
  <2>1. Stop(sent)[i] = [sent[i] EXCEPT !.stopped = TRUE]
    BY <1>2
  <2> QED BY <1>1, <2>1, AskedOne
<1>4. Stop(sent) \in Seq(Asked(answers)) /\ DOMAIN Stop(sent) = 1..Len(sent)
  <2>1. Stop(sent) \in [1..Len(sent) -> Asked(answers)]
    BY <1>2, <1>3
  <2> QED BY <1>1, <2>1, SequenceOf
<1> QED BY <1>3, <1>4 DEF OneOut, InFlight

(* A request that is over is out of the way, and another in flight goes on *)
(* as it was; only one in flight is heard.                                 *)
LEMMA OverIs ==
  ASSUME NEW answers, NEW sent \in Seq(Asked(answers)), OneOut(sent), NEW i \in DOMAIN sent
  PROVE  /\ Over(sent, i) \in Seq(Asked(answers)) /\ OneOut(Over(sent, i))
         /\ i \in InFlight(sent) => InFlight(Over(sent, i)) = {}
         /\ \A k \in InFlight(Over(sent, i)) : \E j \in InFlight(sent) : Over(sent, i)[k].age = sent[j].age
         /\ InFlight(Over(sent, i)) = {} => i \in InFlight(sent) \/ InFlight(sent) = {}
<1> DEFINE overtaken == [j \in DOMAIN sent |-> [sent[j] EXCEPT !.late = @ \/ (j < i /\ ~sent[i].stopped)]]
           over == Over(sent, i)
           n == Len(sent)
<1>1. n \in Nat /\ i \in 1..n /\ DOMAIN sent = 1..n /\ \A j \in 1..n : sent[j] \in Asked(answers)
  OBVIOUS
<1>2. ASSUME NEW j \in 1..n
      PROVE  /\ overtaken[j] \in Asked(answers)
             /\ overtaken[j].stopped = sent[j].stopped /\ overtaken[j].age = sent[j].age
             /\ overtaken[j].late = (sent[j].late \/ (j < i /\ ~sent[i].stopped))
  <2>1. overtaken[j] = [sent[j] EXCEPT !.late = sent[j].late \/ (j < i /\ ~sent[i].stopped)]
    BY <1>1
  <2>2. sent[j] \in Asked(answers)
    BY <1>1
  <2> QED BY <2>1, <2>2 DEF Asked
<1>3. overtaken \in Seq(Asked(answers)) /\ Len(overtaken) = n
  <2>1. overtaken \in [1..n -> Asked(answers)]
    BY <1>1, <1>2
  <2> QED BY <1>1, <2>1, SequenceOf
<1>4. over = SubSeq(overtaken, 1, i - 1) \o SubSeq(overtaken, i + 1, n)
  <2>1. over = RemoveAt(overtaken, i)
    BY DEF Over
  <2> HIDE DEF over, overtaken
  <2> QED BY <1>3, <2>1 DEF RemoveAt
<1> HIDE DEF overtaken
<1>5. /\ over \in Seq(Asked(answers)) /\ Len(over) = n - 1 /\ DOMAIN over = 1..(n - 1)
      /\ \A k \in 1..(n - 1) : over[k] = IF k < i THEN overtaken[k] ELSE overtaken[k + 1]
  <2> DEFINE before == SubSeq(overtaken, 1, i - 1)
             after  == SubSeq(overtaken, i + 1, n)
  <2>1. /\ before \in Seq(Asked(answers)) /\ Len(before) = i - 1
        /\ \A k \in 1..(i - 1) : before[k] = overtaken[k]
    BY <1>1, <1>3
  <2>2. /\ after \in Seq(Asked(answers)) /\ Len(after) = n - i
        /\ \A k \in 1..(n - i) : after[k] = overtaken[i + k]
    BY <1>1, <1>3
  <2>3. over = before \o after
    BY <1>4
  <2> HIDE DEF over, before, after
  <2>4. /\ over \in Seq(Asked(answers)) /\ Len(over) = Len(before) + Len(after)
        /\ \A k \in 1..(Len(before) + Len(after)) :
             over[k] = IF k <= Len(before) THEN before[k] ELSE after[k - Len(before)]
    BY <2>1, <2>2, <2>3, ConcatProperties
  <2>5. over \in Seq(Asked(answers)) /\ Len(over) = n - 1 /\ DOMAIN over = 1..(n - 1)
    BY <1>1, <2>1, <2>2, <2>4
  <2>6. ASSUME NEW k \in 1..(n - 1)
        PROVE  over[k] = IF k < i THEN overtaken[k] ELSE overtaken[k + 1]
    <3>1. over[k] = IF k <= i - 1 THEN before[k] ELSE after[k - (i - 1)]
      <4>1. k \in 1..(Len(before) + Len(after)) /\ Len(before) = i - 1
        BY <1>1, <2>1, <2>2
      <4> QED BY <2>4, <4>1
    <3>2. CASE k < i
      BY <1>1, <2>1, <3>1, <3>2
    <3>3. CASE ~(k < i)
      <4>1. k - (i - 1) \in 1..(n - i) /\ i + (k - (i - 1)) = k + 1
        BY <1>1, <3>3
      <4>2. after[k - (i - 1)] = overtaken[i + (k - (i - 1))]
        BY <2>2, <4>1
      <4>3. over[k] = after[k - (i - 1)]
        BY <1>1, <3>1, <3>3
      <4> QED BY <3>3, <4>1, <4>2, <4>3
    <3> QED BY <3>2, <3>3
  <2> QED BY <2>5, <2>6
<1> HIDE DEF over
<1>6. ASSUME NEW k \in 1..(n - 1), ~over[k].stopped
      PROVE  k = n - 1 /\ k >= i /\ ~over[k].late /\ n \in InFlight(sent) /\ over[k].age = sent[n].age
  <2>0. k \in Nat /\ i \in Nat /\ k < n /\ k >= 1 /\ k \in 1..n /\ k + 1 \in 1..n
    BY <1>1
  <2>1. CASE k < i
    <3>1. ~sent[k].stopped
      BY <1>2, <1>5, <1>6, <2>0, <2>1
    <3>2. k = n
      BY <1>1, <2>0, <3>1 DEF OneOut
    <3> QED BY <2>0, <3>2
  <2>2. CASE k >= i
    <3>1. over[k] = overtaken[k + 1] /\ ~sent[k + 1].stopped
      BY <1>2, <1>5, <1>6, <2>0, <2>2
    <3>2. k + 1 = n /\ ~sent[k + 1].late
      BY <1>1, <2>0, <3>1 DEF OneOut
    <3>3. ~(k + 1 < i)
      BY <2>0, <2>2
    <3>4. ~overtaken[k + 1].late /\ overtaken[k + 1].age = sent[k + 1].age
      BY <1>2, <2>0, <3>2, <3>3
    <3>5. ~over[k].late /\ over[k].age = sent[n].age /\ n \in InFlight(sent)
      BY <1>1, <2>0, <3>1, <3>2, <3>4 DEF InFlight
    <3>6. k = n - 1
      BY <2>0, <3>2
    <3> QED BY <2>2, <3>5, <3>6
  <2> QED BY <2>0, <2>1, <2>2
<1>7. OneOut(over)
  BY <1>5, <1>6 DEF OneOut
<1>8. ASSUME i \in InFlight(sent) PROVE InFlight(over) = {}
  <2>1. i = n
    BY <1>1, <1>8 DEF InFlight, OneOut
  <2>2. ASSUME NEW k \in 1..(n - 1), ~over[k].stopped PROVE FALSE
    <3>1. k >= i
      BY <1>6, <2>2
    <3> QED BY <1>1, <2>1, <3>1
  <2> QED BY <1>5, <2>2 DEF InFlight
<1>9. ASSUME NEW k \in InFlight(over) PROVE \E j \in InFlight(sent) : over[k].age = sent[j].age
  BY <1>5, <1>6, <1>9 DEF InFlight
<1>10. ASSUME InFlight(over) = {}, NEW j \in InFlight(sent) PROVE i \in InFlight(sent)
  <2>1. j = n /\ ~sent[n].stopped
    BY <1>1 DEF InFlight, OneOut
  <2>2. CASE i = n
    BY <1>1, <2>1, <2>2 DEF InFlight
  <2>3. CASE i # n
    <3>1. n - 1 \in 1..(n - 1) /\ over[n - 1] = overtaken[n]
      BY <1>1, <1>5, <2>3
    <3>2. ~over[n - 1].stopped
      BY <1>1, <1>2, <2>1, <3>1
    <3> QED BY <1>5, <1>10, <3>1, <3>2 DEF InFlight
  <2> QED BY <2>2, <2>3
<1> QED BY <1>5, <1>7, <1>8, <1>9, <1>10 DEF over

LEMMA HeardIs ==
  ASSUME RequestsSound, NEW i \in DOMAIN requests
  PROVE  Heard(i) <=> i \in InFlight(requests)
BY DEF RequestsSound, OneOut, Heard, InFlight
-----------------------------------------------------------------------------
LEMMA BoardIs ==
  ASSUME BoardSound
  PROVE  /\ board = [race |-> board.race, raceAge |-> board.raceAge, finish |-> board.finish]
         /\ board.raceAge \in Nat /\ (board.finish # None => board.finish.age \in Nat)
         /\ [board EXCEPT !.race = None] = [race |-> None, raceAge |-> board.raceAge, finish |-> board.finish]
BY DEF BoardSound

LEMMA BoardBecomes ==
  ASSUME NEW race, NEW old \in Nat, NEW finish,
         \/ finish = None
         \/ BoardSound /\ finish = board.finish
         \/ \E key : finish = [session |-> key, age |-> 0],
         board' = [race |-> race, raceAge |-> old, finish |-> finish]
  PROVE  BoardSound' /\ board'.race = race /\ board'.raceAge = old /\ board'.finish = finish
<1>1. \E keys : finish \in {None} \cup [session : keys, age : Nat]
  <2>1. CASE finish = None
    BY <2>1
  <2>2. CASE BoardSound /\ finish = board.finish
    BY <2>2 DEF BoardSound
  <2>3. ASSUME NEW key, finish = [session |-> key, age |-> 0] PROVE \E keys : finish \in [session : keys, age : Nat]
    <3>1. finish \in [session : {key}, age : Nat]
      BY <2>3
    <3> QED BY <3>1
  <2> QED BY <2>1, <2>2, <2>3
<1>2. PICK keys : finish \in {None} \cup [session : keys, age : Nat]
  BY <1>1
<1>3. board' \in [race : {race}, raceAge : Nat, finish : {None} \cup [session : keys, age : Nat]]
  BY <1>2
<1> QED BY <1>3 DEF BoardSound

(* An answer leaves no race older than DropAfter on screen: it brings its  *)
(* own, or keeps a finish no longer than it is held.                       *)
LEMMA FeedTaken ==
  ASSUME BoardSound, FinishIsOlder, NEW feed, board' = ApplyRaceFeed(board, feed)
  PROVE  BoardSound' /\ FinishIsOlder' /\ (board'.race # None => board'.raceAge <= DropAfter)
<1>1. CASE ~IsLiveRace(feed) /\ KeepFinish(board)
  <2>1. board' = board
    BY <1>1 DEF ApplyRaceFeed
  <2>2. board.raceAge < FinishHold
    BY <1>1, BoardIs, RaceTimes DEF KeepFinish, FinishIsOlder
  <2> QED BY <2>1, <2>2, BoardIs, RaceTimes DEF BoardSound, FinishIsOlder
<1>2. CASE ~IsLiveRace(feed) /\ ~KeepFinish(board)
  <2>1. board' = [race |-> None, raceAge |-> board.raceAge, finish |-> board.finish]
    BY <1>2, BoardIs DEF ApplyRaceFeed
  <2>2. BoardSound' /\ board'.race = None
    BY <2>1, BoardIs, BoardBecomes
  <2> QED BY <2>2 DEF FinishIsOlder
<1>3. CASE IsLiveRace(feed) /\ ~IsFinished(feed)
  <2> DEFINE finish == IF KnowsFinishOf(board, feed) THEN None ELSE board.finish
  <2>1. board' = [race |-> feed, raceAge |-> 0, finish |-> finish] /\ (finish = None \/ finish = board.finish)
    BY <1>3 DEF ApplyRaceFeed
  <2>2. finish # None => finish.age \in Nat
    BY BoardIs
  <2> HIDE DEF finish
  <2>3. BoardSound' /\ board'.raceAge = 0 /\ board'.finish = finish
    BY <2>1, BoardBecomes
  <2> QED BY <2>2, <2>3, RaceTimes DEF FinishIsOlder
<1>4. CASE IsLiveRace(feed) /\ IsFinished(feed)
  <2> DEFINE finish == FinishOf(board, feed)
             race   == IF finish.age < FinishHold THEN feed ELSE None
  <2>1. /\ board' = [race |-> race, raceAge |-> 0, finish |-> finish]
        /\ finish = board.finish \/ finish = [session |-> feed.session, age |-> 0]
    BY <1>4 DEF ApplyRaceFeed, FinishOf
  <2>2. finish # None => finish.age \in Nat
    BY <2>1, BoardIs
  <2> HIDE DEF finish, race
  <2>3. BoardSound' /\ board'.raceAge = 0 /\ board'.finish = finish
    BY <2>1, BoardBecomes
  <2> QED BY <2>2, <2>3, RaceTimes DEF FinishIsOlder
<1> QED BY <1>1, <1>2, <1>3, <1>4

LEMMA FailureTaken ==
  ASSUME BoardSound, FinishIsOlder, board' = ApplyRaceFeedFailure(board)
  PROVE  BoardSound' /\ FinishIsOlder' /\ (board'.race # None => board'.raceAge <= DropAfter)
<1>1. CASE board.race # None /\ board.raceAge > DropAfter
  <2>1. board' = [race |-> None, raceAge |-> board.raceAge, finish |-> board.finish]
    BY <1>1, BoardIs DEF ApplyRaceFeedFailure
  <2>2. BoardSound' /\ board'.race = None
    BY <2>1, BoardIs, BoardBecomes
  <2> QED BY <2>2 DEF FinishIsOlder
<1>2. CASE ~(board.race # None /\ board.raceAge > DropAfter)
  <2>1. board' = board
    BY <1>2 DEF ApplyRaceFeedFailure
  <2> QED BY <1>2, <2>1, BoardIs, RaceTimes DEF BoardSound, FinishIsOlder
<1> QED BY <1>1, <1>2

(* A request that is over, one the board heard of or not.                  *)
LEMMA RequestOver ==
  ASSUME ScreenSound, NEW i \in DOMAIN requests, requests' = Over(requests, i),
         UNCHANGED <<active, visible, looked>>,
         IF Heard(i)
         THEN BoardSound' /\ FinishIsOlder' /\ (board'.race # None => board'.raceAge <= DropAfter)
         ELSE board' = board
  PROVE  ScreenSound'
<1>1. PICK answers : requests \in Seq(Asked(answers))
  BY DEF ScreenSound, RequestsSound
<1>2. OneOut(requests) /\ BoardSound /\ FinishIsOlder /\ RaceOnTime /\ (Heard(i) <=> i \in InFlight(requests))
  BY HeardIs DEF ScreenSound, RequestsSound
<1>3. /\ requests' \in Seq(Asked(answers)) /\ OneOut(requests')
      /\ i \in InFlight(requests) => InFlight(requests') = {}
      /\ \A k \in InFlight(requests') : \E j \in InFlight(requests) : requests'[k].age = requests[j].age
      /\ InFlight(requests') = {} => i \in InFlight(requests) \/ InFlight(requests) = {}
  BY <1>1, <1>2, OverIs
<1>4. RequestsSound'
  BY <1>3 DEF RequestsSound, OneOut
<1>5. InFlight(requests)' = InFlight(requests')
  BY DEF InFlight
<1>6. CASE Heard(i)
  BY <1>2, <1>3, <1>4, <1>5, <1>6 DEF ScreenSound, RaceOnTime, Watched
<1>7. CASE ~Heard(i)
  <2>1. BoardSound' /\ FinishIsOlder' /\ board' = board
    BY <1>2, <1>7 DEF BoardSound, FinishIsOlder
  <2>2. RaceOnTime'
    BY <1>2, <1>3, <1>5, <1>7, <2>1 DEF RaceOnTime, Watched
  <2> QED BY <1>4, <2>1, <2>2 DEF ScreenSound
<1> QED BY <1>6, <1>7

(* The screen looks again, or stops asking.                                *)
LEMMA AsksAgain ==
  ASSUME ScreenSound, requests' = Poll(requests), looked' = 0, board' = board,
         active' \in BOOLEAN, visible' \in BOOLEAN
  PROVE  ScreenSound'
<1>1. PICK answers : requests \in Seq(Asked(answers))
  BY DEF ScreenSound, RequestsSound
<1>2. OneOut(requests) /\ BoardSound /\ FinishIsOlder
  BY DEF ScreenSound, RequestsSound
<1>3. requests' \in Seq(Asked(answers \cup {None})) /\ OneOut(requests') /\ InFlight(requests') # {}
  BY <1>1, <1>2, PolledIs
<1>4. RequestsSound' /\ BoardSound' /\ FinishIsOlder'
  BY <1>2, <1>3 DEF RequestsSound, OneOut, BoardSound, FinishIsOlder
<1>5. ASSUME NEW k \in InFlight(requests') PROVE looked' <= requests'[k].age
  <2>1. k \in 1..Len(requests')
    BY <1>3, <1>5 DEF InFlight
  <2>2. requests'[k] \in Asked(answers \cup {None})
    BY <1>3, <2>1, ElementOfSeq
  <2>3. requests'[k].age \in 0..1
    BY <2>2 DEF Asked
  <2> QED BY <2>3
<1>6. RaceOnTime'
  BY <1>3, <1>5 DEF RaceOnTime, InFlight
<1> QED BY <1>4, <1>6 DEF ScreenSound

LEMMA NobodyLooks ==
  ASSUME ScreenSound, RequestsSound', looked' = 0, board' = board,
         active' \in BOOLEAN, visible' \in BOOLEAN, ~Watched'
  PROVE  ScreenSound'
BY DEF ScreenSound, RaceOnTime, BoardSound, FinishIsOlder
-----------------------------------------------------------------------------
LEMMA ScreenSoundInit == ScreenInit => ScreenSound
<1> SUFFICES ASSUME ScreenInit PROVE ScreenSound
  OBVIOUS
<1>1. /\ requests = <<>> /\ board = [race |-> None, raceAge |-> 0, finish |-> None]
      /\ looked = 0 /\ active = TRUE /\ visible = TRUE
  BY DEF ScreenInit, InitialBoard
<1>2. RequestsSound
  <2>1. requests \in Seq(Asked({None})) /\ DOMAIN requests = {}
    BY <1>1
  <2> QED BY <2>1 DEF RequestsSound, OneOut
<1>3. BoardSound
  <2>1. board \in [race : {None}, raceAge : Nat, finish : {None} \cup [session : {None}, age : Nat]]
    BY <1>1
  <2> QED BY <2>1 DEF BoardSound
<1>4. FinishIsOlder /\ RaceOnTime
  BY <1>1 DEF FinishIsOlder, RaceOnTime
<1> QED BY <1>1, <1>2, <1>3, <1>4 DEF ScreenSound

(* A second request is served: nothing else of it changes.                 *)
LEMMA ServedIsSound ==
  ASSUME ScreenSound, NEW i \in DOMAIN requests, Serve(i) PROVE ScreenSound'
<1>1. PICK answers : requests \in Seq(Asked(answers))
  BY DEF ScreenSound, RequestsSound
<1> DEFINE answer == LiveRace(status, open)
           more   == answers \cup {answer}
           served == [requests[i] EXCEPT !.served = TRUE, !.answer = answer]
<1>2. /\ requests' = [requests EXCEPT ![i] = served]
      /\ UNCHANGED <<board, active, visible, looked>>
  BY DEF Serve, screenVars
<1> HIDE DEF answer
<1>3. requests \in Seq(Asked(more)) /\ i \in 1..Len(requests) /\ requests[i] \in Asked(more)
  <2>1. Asked(answers) \subseteq Asked(more)
    BY DEF Asked
  <2>2. requests \in Seq(Asked(more))
    BY <1>1, <2>1, SeqMonotonic
  <2> QED BY <2>2
<1>4. /\ served \in Asked(more)
      /\ served.age = requests[i].age /\ served.stopped = requests[i].stopped /\ served.late = requests[i].late
  BY <1>3 DEF Asked
<1> HIDE DEF served
<1>5. requests' \in Seq(Asked(more)) /\ Len(requests') = Len(requests) /\ DOMAIN requests' = DOMAIN requests
  BY <1>2, <1>3, <1>4, ExceptSeq
<1>6. ASSUME NEW k \in DOMAIN requests
      PROVE  /\ requests'[k].age = requests[k].age /\ requests'[k].stopped = requests[k].stopped
             /\ requests'[k].late = requests[k].late
  BY <1>2, <1>4
<1>7. RequestsSound' /\ InFlight(requests') = InFlight(requests)
  <2>1. OneOut(requests')
    BY <1>5, <1>6 DEF OneOut, ScreenSound, RequestsSound
  <2> QED BY <1>5, <1>6, <2>1 DEF RequestsSound, InFlight, OneOut
<1>8. RaceOnTime'
  <2>1. \A k \in InFlight(requests) : requests'[k].age = requests[k].age
    BY <1>6 DEF InFlight
  <2>2. InFlight(requests)' = InFlight(requests)
    BY <1>7 DEF InFlight
  <2> QED BY <1>2, <2>1, <2>2 DEF RaceOnTime, ScreenSound, Watched
<1> QED BY <1>2, <1>7, <1>8 DEF ScreenSound, BoardSound, FinishIsOlder

LEMMA BoardAged ==
  ASSUME BoardSound, PollTick PROVE board'.race = board.race
<1>1. board.race = board.race /\ \E old, finish : board' = [board EXCEPT !.raceAge = old, !.finish = finish]
  BY DEF PollTick
<1>2. PICK old, finish : board' = [board EXCEPT !.raceAge = old, !.finish = finish]
  BY <1>1
<1>3. board' = [race |-> board.race, raceAge |-> old, finish |-> finish]
  BY <1>2, BoardIs
<1> QED BY <1>3

(* A poll later: everything is a poll older, and whoever looks has asked.  *)
LEMMA PollTickIsSound ==
  ASSUME ScreenSound, PollTick PROVE ScreenSound'
<1>1. PICK answers : requests \in Seq(Asked(answers))
  BY DEF ScreenSound, RequestsSound
<1>2. /\ OneOut(requests) /\ BoardSound /\ FinishIsOlder /\ RaceOnTime /\ looked \in Nat
      /\ active \in BOOLEAN /\ visible \in BOOLEAN
      /\ UNCHANGED <<active, visible>> /\ looked' = Aged(looked, Slack + 1)
      /\ \A i \in DOMAIN requests : requests[i].age = 0
  BY DEF ScreenSound, RequestsSound, PollTick
<1>3. looked' \in Nat /\ looked' <= looked + 1
  BY <1>2, RaceTimes DEF Aged
<1> DEFINE older == [i \in DOMAIN requests |-> [requests[i] EXCEPT !.age = @ + 1]]
<1>4. requests' = IF Watched THEN Poll(older) ELSE older
  BY DEF PollTick
<1>5. ASSUME NEW i \in 1..Len(requests)
      PROVE  older[i] \in Asked(answers) /\ older[i].age = 1 /\ older[i].stopped = requests[i].stopped /\ older[i].late = requests[i].late
  <2>1. requests[i] \in Asked(answers) /\ requests[i].age = 0
    BY <1>1, <1>2
  <2>2. older[i] = [requests[i] EXCEPT !.age = requests[i].age + 1]
    BY <1>1
  <2> QED BY <2>1, <2>2 DEF Asked
<1>6. older \in Seq(Asked(answers)) /\ Len(older) = Len(requests) /\ DOMAIN older = 1..Len(requests)
  <2>1. older = [i \in 1..Len(requests) |-> [requests[i] EXCEPT !.age = @ + 1]] /\ Len(requests) \in Nat
    BY <1>1
  <2>2. older \in [1..Len(requests) -> Asked(answers)]
    BY <1>5, <2>1
  <2> QED BY <2>1, <2>2, SequenceOf
<1>7. OneOut(older) /\ InFlight(older) = InFlight(requests)
  BY <1>1, <1>2, <1>5, <1>6 DEF OneOut, InFlight
<1>8. ASSUME NEW i \in InFlight(older) PROVE older[i].age = 1 /\ i \in InFlight(requests) /\ requests[i].age = 0
  BY <1>1, <1>2, <1>5, <1>6, <1>7 DEF InFlight
<1> HIDE DEF older
<1>9. RequestsSound'
  <2>1. CASE Watched
    <3>1. requests' \in Seq(Asked(answers \cup {None})) /\ OneOut(requests')
      BY <1>4, <1>6, <1>7, <2>1, PolledIs
    <3> QED BY <3>1 DEF RequestsSound, OneOut
  <2>2. CASE ~Watched
    BY <1>4, <1>6, <1>7, <2>2 DEF RequestsSound, OneOut
  <2> QED BY <2>1, <2>2
<1>20. PICK races, keys : board \in [race : races, raceAge : Nat, finish : {None} \cup [session : keys, age : Nat]]
  BY <1>2 DEF BoardSound
<1> DEFINE finish == FinishAged(board.finish)
           old    == Aged(board.raceAge, DropAfter + Slack + 1)
<1>10. board' = [race |-> board.race, raceAge |-> old, finish |-> finish]
  <2>1. board' = [board EXCEPT !.raceAge = old, !.finish = finish]
    BY DEF PollTick
  <2> HIDE DEF old, finish
  <2> QED BY <1>20, <2>1
<1>11. old \in Nat /\ old <= board.raceAge + 1
  BY <1>2, BoardIs, RaceTimes DEF Aged
<1> HIDE DEF old
<1>12. ASSUME board.finish = None PROVE BoardSound' /\ FinishIsOlder'
  <2>1. finish = None
    BY <1>12 DEF FinishAged
  <2> HIDE DEF finish
  <2>2. board' \in [race : races, raceAge : Nat, finish : {None} \cup [session : keys, age : Nat]]
    BY <1>10, <1>11, <1>20, <2>1
  <2>3. board'.finish = None
    BY <1>10, <2>1
  <2>4. FinishIsOlder'
    BY <2>3 DEF FinishIsOlder
  <2>5. BoardSound'
    BY <2>2 DEF BoardSound
  <2> QED BY <2>4, <2>5
<1>13. ASSUME board.finish # None PROVE BoardSound' /\ FinishIsOlder'
  <2> DEFINE since == Aged(board.finish.age, FinishHold)
  <2>1. board.finish \in [session : keys, age : Nat]
    BY <1>13, <1>20
  <2>2. finish = [session |-> board.finish.session, age |-> since]
    BY <1>13, <2>1 DEF FinishAged
  <2>3. since \in Nat /\ (since >= FinishHold \/ since = board.finish.age + 1)
    BY <2>1, RaceTimes DEF Aged
  <2>4. board.finish.age >= FinishHold => since >= FinishHold
    BY <2>1, RaceTimes DEF Aged
  <2> HIDE DEF finish, since
  <2>5. finish \in [session : keys, age : Nat] /\ finish.age = since /\ finish.session = board.finish.session
    BY <2>1, <2>2, <2>3
  <2>6. board' \in [race : races, raceAge : Nat, finish : {None} \cup [session : keys, age : Nat]]
    BY <1>10, <1>11, <1>20, <2>5
  <2>7. board'.race = board.race /\ board'.raceAge = old /\ board'.finish = finish
    BY <1>10
  <2>8. FinishIsOlder'
    <3>1. SUFFICES ASSUME board'.race # None, board'.finish # None, board'.finish.session = board'.race.session
                   PROVE  board'.raceAge <= board'.finish.age \/ board'.finish.age >= FinishHold
      BY DEF FinishIsOlder
    <3>2. board.raceAge <= board.finish.age \/ board.finish.age >= FinishHold
      BY <1>2, <1>13, <2>5, <2>7, <3>1 DEF FinishIsOlder
    <3>3. board.raceAge \in Nat /\ board.finish.age \in Nat
      BY <1>20, <2>1
    <3> QED BY <1>11, <2>3, <2>4, <2>5, <2>7, <3>2, <3>3, RaceTimes
  <2>9. BoardSound'
    BY <2>6 DEF BoardSound
  <2> QED BY <2>8, <2>9
<1>14. BoardSound' /\ FinishIsOlder'
  BY <1>12, <1>13
<1>15. board'.race = board.race /\ board'.raceAge <= board.raceAge + 1 /\ board'.raceAge \in Nat /\ board.raceAge \in Nat
  BY <1>2, <1>10, <1>11, BoardIs
<1>16. RaceOnTime'
  <2>1. SUFFICES ASSUME Watched, board.race # None
                 PROVE  /\ InFlight(requests') # {}
                        /\ \A i \in InFlight(requests') :
                             looked' <= requests'[i].age \/ board'.raceAge <= DropAfter + 1 + requests'[i].age
    BY <1>2, <1>15 DEF RaceOnTime, Watched, InFlight
  <2>2. /\ InFlight(requests') # {}
        /\ \A i \in InFlight(requests') :
             IF InFlight(older) = {} THEN requests'[i].age = 0
             ELSE i \in InFlight(older) /\ requests'[i] = older[i]
    BY <1>4, <1>6, <1>7, <2>1, PolledIs
  <2>3. ASSUME NEW i \in InFlight(requests')
        PROVE  looked' <= requests'[i].age \/ board'.raceAge <= DropAfter + 1 + requests'[i].age
    <3>1. CASE InFlight(older) = {}
      <4>1. board.raceAge <= DropAfter /\ requests'[i].age = 0
        BY <1>2, <1>7, <2>1, <2>2, <2>3, <3>1 DEF RaceOnTime
      <4> QED BY <1>15, <4>1, RaceTimes
    <3>2. CASE InFlight(older) # {}
      <4>1. requests'[i].age = 1 /\ i \in InFlight(requests) /\ requests[i].age = 0
        BY <1>8, <2>2, <2>3, <3>2
      <4>2. looked <= 0 \/ board.raceAge <= DropAfter + 1 + 0
        BY <1>2, <2>1, <4>1 DEF RaceOnTime
      <4> QED BY <1>2, <1>3, <1>15, <4>1, <4>2, RaceTimes
    <3> QED BY <3>1, <3>2
  <2> QED BY <2>2, <2>3
<1> QED BY <1>2, <1>3, <1>9, <1>14, <1>16 DEF ScreenSound

RoundIs == open \in BOOLEAN

LEMMA RoundStays == ScreenSpec => []RoundIs
<1>1. ScreenInit => RoundIs
  BY DEF ScreenInit, RoundIs
<1>2. RoundIs /\ [ScreenNext]_raceScreenVars => RoundIs'
  BY DEF RoundIs, ScreenNext, raceScreenVars, Report, Overtake, Drive, Turn, Serve, Answer, Fail,
         TurnRound, Activate, Deactivate, Hide, Look, Remount, PollTick
<1> QED BY <1>1, <1>2, PTL DEF ScreenSpec

LEMMA ScreenSoundStep == ScreenSound /\ RoundIs /\ [ScreenNext]_raceScreenVars => ScreenSound'
<1> SUFFICES ASSUME ScreenSound, RoundIs, [ScreenNext]_raceScreenVars PROVE ScreenSound'
  OBVIOUS
<1>1. active \in BOOLEAN /\ visible \in BOOLEAN /\ RequestsSound
  BY DEF ScreenSound
<1>2. ASSUME UNCHANGED <<screenVars, requests, active, visible, looked>> PROVE ScreenSound'
  BY <1>2 DEF screenVars, ScreenSound, RequestsSound, OneOut, BoardSound, FinishIsOlder, RaceOnTime, Watched, InFlight
<1>3. CASE UNCHANGED raceScreenVars
  BY <1>2, <1>3 DEF raceScreenVars, screenVars
<1>4. ASSUME NEW r \in Rigs, \/ Report(r)
                             \/ \E q \in Rigs : Overtake(r, q)
                             \/ \E s \in Sessions \cup {None} : Drive(r, s)
      PROVE  ScreenSound'
  BY <1>2, <1>4 DEF Report, Overtake, Drive
<1>5. ASSUME NEW s \in Sessions, NEW to \in {"racing", "flag"}, Turn(s, to) PROVE ScreenSound'
  BY <1>2, <1>5 DEF Turn
<1>6. ASSUME NEW i \in DOMAIN requests, Serve(i) PROVE ScreenSound'
  BY <1>6, ServedIsSound
<1>7. ASSUME NEW i \in DOMAIN requests, Answer(i) PROVE ScreenSound'
  <2>1. /\ requests' = Over(requests, i) /\ UNCHANGED <<active, visible, looked>>
        /\ IF Heard(i) THEN board' = ApplyRaceFeed(board, requests[i].answer) ELSE board' = board
    BY <1>7 DEF Answer, screenVars
  <2>2. Heard(i) => BoardSound' /\ FinishIsOlder' /\ (board'.race # None => board'.raceAge <= DropAfter)
    BY <2>1, FeedTaken DEF ScreenSound
  <2> QED BY <2>1, <2>2, RequestOver
<1>8. ASSUME NEW i \in DOMAIN requests, Fail(i) PROVE ScreenSound'
  <2>1. /\ requests' = Over(requests, i) /\ UNCHANGED <<active, visible, looked>>
        /\ IF Heard(i) THEN board' = ApplyRaceFeedFailure(board) ELSE board' = board
    BY <1>8 DEF Fail, screenVars
  <2>2. Heard(i) => BoardSound' /\ FinishIsOlder' /\ (board'.race # None => board'.raceAge <= DropAfter)
    BY <2>1, FailureTaken DEF ScreenSound
  <2> QED BY <2>1, <2>2, RequestOver
<1>9. CASE TurnRound
  BY <1>2, <1>9 DEF TurnRound
<1>10. CASE Activate
  BY <1>1, <1>10, AsksAgain DEF Activate, screenVars
<1>11. CASE Deactivate
  <2>1. requests' = Stop(requests) /\ looked' = 0 /\ board' = board /\ active' = FALSE /\ visible' = visible
    BY <1>11 DEF Deactivate, screenVars
  <2>2. PICK answers : requests \in Seq(Asked(answers))
    BY <1>1 DEF RequestsSound
  <2>3. RequestsSound'
    BY <2>1, <2>2, StoppedIs DEF RequestsSound, OneOut
  <2> QED BY <1>1, <2>1, <2>3, NobodyLooks DEF Watched
<1>12. CASE Hide
  <2>1. requests' = requests /\ looked' = 0 /\ board' = board /\ active' = active /\ visible' = FALSE
    BY <1>12 DEF Hide, screenVars
  <2>2. RequestsSound'
    BY <1>1, <2>1 DEF RequestsSound, OneOut
  <2> QED BY <1>1, <2>1, <2>2, NobodyLooks DEF Watched
<1>13. CASE Look
  <2>1. /\ requests' = (IF active THEN Poll(requests) ELSE requests)
        /\ looked' = 0 /\ board' = board /\ active' = active /\ visible' = TRUE
    BY <1>13 DEF Look, screenVars
  <2>2. CASE active
    BY <1>1, <2>1, <2>2, AsksAgain
  <2>3. CASE ~active
    <3>1. RequestsSound'
      BY <1>1, <2>1, <2>3 DEF RequestsSound, OneOut
    <3> QED BY <1>1, <2>1, <2>3, <3>1, NobodyLooks DEF Watched
  <2> QED BY <2>2, <2>3
<1>14. CASE PollTick
  BY <1>14, PollTickIsSound
<1>15. CASE Remount
  <2>1. /\ requests' = (IF open THEN Poll(Stop(requests)) ELSE Stop(requests)) /\ looked' = 0
        /\ active' \in BOOLEAN /\ visible' = visible
        /\ board' = [race |-> None, raceAge |-> 0, finish |-> None]
    <3>1. active' = open /\ (open = TRUE \/ open = FALSE)
      BY <1>15 DEF Remount, RoundIs
    <3> QED BY <1>15, <3>1 DEF Remount, InitialBoard
  <2>2. PICK answers : requests \in Seq(Asked(answers))
    BY <1>1 DEF RequestsSound
  <2>3. Stop(requests) \in Seq(Asked(answers)) /\ OneOut(Stop(requests))
    BY <2>2, StoppedIs
  <2>4. RequestsSound'
    BY <2>1, <2>3, PolledIs DEF RequestsSound
  <2>5. BoardSound'
    <3>1. board' \in [race : {None}, raceAge : Nat, finish : {None} \cup [session : {None}, age : Nat]]
      BY <2>1
    <3> QED BY <3>1 DEF BoardSound
  <2>6. FinishIsOlder' /\ RaceOnTime'
    BY <2>1 DEF FinishIsOlder, RaceOnTime
  <2> QED BY <1>1, <2>1, <2>4, <2>5, <2>6 DEF ScreenSound
<1> QED BY <1>3, <1>4, <1>5, <1>6, <1>7, <1>8, <1>9, <1>10, <1>11, <1>12, <1>13, <1>14, <1>15 DEF ScreenNext

LEMMA ScreenStaysSound == ScreenSpec => []ScreenSound
BY ScreenSoundInit, ScreenSoundStep, RoundStays, PTL DEF ScreenSpec

(* No feed that fails or hangs, no tab nobody saw for a while and no round *)
(* that closed and another that opened leaves an old race on the screen    *)
(* somebody looks at for longer than a request takes                       *)
(* (components/use-live-race.ts, lib/race-board.ts).                       *)
THEOREM NoFrozenRace == ScreenSpec => []RaceIsNotFrozen
<1>1. ScreenSound => RaceIsNotFrozen
  <2>1. SUFFICES ASSUME ScreenSound, Watched, board.race # None
                 PROVE  board.raceAge <= DropAfter + Slack \/ looked <= Slack
    BY DEF RaceIsNotFrozen
  <2>2. PICK answers : requests \in Seq(Asked(answers))
    BY <2>1 DEF ScreenSound, RequestsSound
  <2>3. board.raceAge \in Nat /\ looked \in Nat
    BY <2>1, BoardIs DEF ScreenSound
  <2>4. CASE InFlight(requests) = {}
    BY <2>1, <2>3, <2>4, RaceTimes DEF ScreenSound, RaceOnTime
  <2>5. ASSUME NEW i \in InFlight(requests) PROVE board.raceAge <= DropAfter + Slack \/ looked <= Slack
    <3>1. requests[i].age \in 0..1
      <4>1. i \in 1..Len(requests)
        BY <2>2, <2>5 DEF InFlight
      <4>2. requests[i] \in Asked(answers)
        BY <2>2, <4>1, ElementOfSeq
      <4> QED BY <4>2 DEF Asked
    <3>2. looked <= requests[i].age \/ board.raceAge <= DropAfter + 1 + requests[i].age
      BY <2>1, <2>5 DEF ScreenSound, RaceOnTime
    <3> QED BY <2>3, <3>1, <3>2, RaceTimes
  <2> QED BY <2>4, <2>5
<1> QED BY <1>1, ScreenStaysSound, PTL
-----------------------------------------------------------------------------
(* A session that came back is not one of the gone.                        *)
LEMMA GoneIsGoneStep ==
  ASSUME BoardSound, GoneIsGone, [ScreenNext]_raceScreenVars PROVE GoneIsGone'
<1>1. ASSUME board'.race = board.race, gone' = gone PROVE GoneIsGone'
  BY <1>1 DEF GoneIsGone
<1>2. ASSUME gone' = GoneAfter(board, board') PROVE GoneIsGone'
  BY <1>2 DEF GoneIsGone, GoneAfter
<1>3. CASE UNCHANGED raceScreenVars
  BY <1>1, <1>3 DEF raceScreenVars
<1>4. ASSUME NEW i \in DOMAIN requests, Answer(i) \/ Fail(i) PROVE GoneIsGone'
  BY <1>1, <1>2, <1>4 DEF Answer, Fail, screenVars
<1>5. CASE PollTick
  <2>1. board'.race = board.race /\ gone' = gone
    BY <1>5, BoardAged DEF PollTick
  <2> QED BY <1>1, <2>1
<1>6. CASE Remount
  BY <1>6 DEF Remount, GoneIsGone
<1> QED BY <1>1, <1>3, <1>4, <1>5, <1>6
        DEF ScreenNext, Report, Overtake, Drive, Turn, Serve, TurnRound, Activate, Deactivate, Hide, Look, screenVars

LEMMA GoneStaysGone == ScreenSpec => []GoneIsGone
<1>1. ScreenInit => GoneIsGone
  BY DEF ScreenInit, GoneIsGone
<1>2. ScreenSound /\ GoneIsGone /\ [ScreenNext]_raceScreenVars => GoneIsGone'
  BY GoneIsGoneStep DEF ScreenSound
<1> QED BY <1>1, <1>2, ScreenStaysSound, PTL DEF ScreenSpec

(* A race that has had its time under the flag does not come back while    *)
(* its rigs still report the flag (lib/race-board.ts applyRaceFeed).       *)
THEOREM FinishedRacesStayGone == ScreenSpec => FinishedRaceStaysGone
<1> DEFINE Held(s) == board.finish # None /\ board.finish.session = s /\ board.finish.age >= FinishHold
           Back(s) == Finishing(board') /\ board'.race.session = s
<1>1. ASSUME BoardSound, GoneIsGone, [ScreenNext]_raceScreenVars, NEW s \in gone, Held(s), Back(s) PROVE FALSE
  <2>1. ~(board.race # None /\ board.race.session = s) /\ board'.race # None
    BY <1>1 DEF GoneIsGone, Finishing
  <2>2. board'.race # board.race
    BY <1>1, <2>1
  <2>3. ~PollTick /\ ~UNCHANGED raceScreenVars /\ ~Remount
    BY <1>1, <2>1, <2>2, BoardAged DEF raceScreenVars, Remount, InitialBoard
  <2>4. PICK i \in DOMAIN requests : Answer(i) \/ Fail(i)
    BY <1>1, <2>2, <2>3
       DEF ScreenNext, Report, Overtake, Drive, Turn, Serve, TurnRound, Activate, Deactivate, Hide, Look, screenVars
  <2>5. board' = ApplyRaceFeedFailure(board) => board'.race \in {board.race, None}
    BY <1>1, BoardIs DEF ApplyRaceFeedFailure
  <2>6. PICK feed : board' = ApplyRaceFeed(board, feed)
    BY <2>1, <2>2, <2>4, <2>5 DEF Answer, Fail, screenVars
  <2>7. IsLiveRace(feed)
    BY <1>1, <2>1, <2>2, <2>6, BoardIs DEF ApplyRaceFeed
  <2>8. board'.race = feed
    BY <2>1, <2>6, <2>7 DEF ApplyRaceFeed
  <2>9. feed.session = s /\ IsFinished(feed)
    BY <1>1, <2>8 DEF Finishing, IsFinished
  <2>10. FinishOf(board, feed) = board.finish
    BY <1>1, <2>9 DEF FinishOf, KnowsFinishOf
  <2>11. ~(board.finish.age < FinishHold)
    BY <1>1, BoardIs, RaceTimes
  <2> QED BY <2>1, <2>6, <2>7, <2>9, <2>10, <2>11 DEF ApplyRaceFeed
<1>2. ScreenSound /\ GoneIsGone /\ [ScreenNext]_raceScreenVars
      => [\A s \in gone : Held(s) => ~Back(s)]_raceScreenVars
  BY <1>1 DEF ScreenSound
<1> QED BY <1>2, ScreenStaysSound, GoneStaysGone, PTL DEF ScreenSpec, FinishedRaceStaysGone
=============================================================================
