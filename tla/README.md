# Oasis Race Control: a TLA+ verification project

Oasis Race Control connects walk-in customers of a sim-racing venue to their
laps. A customer checks in at a rig (from a phone, or at the rig itself), drives,
and every lap must land on the right driver: "every lap is attributed to the
correct driver, exactly once, and never reassigned" (`docs/plan.md`). Around that
promise the system watches its own rigs, runs a league night, records the finish
of its races and shows them on a TV. This directory models those parts,
model-checks them with TLC on small instances, and proves the safety properties
that matter most with TLAPS for every value of the constants.

## The system

    phone ──/api/checkin──────────►┐
    phone ──/api/session/end──────►│  web backend   ──►  Postgres
    staff ──/api/staff/...────────►│  (Next.js)          rig_assignments, laps,
    TV    ──/api/race/live────────►│                     rig_heartbeats, monitor_*,
    TV    ──/api/tv/heartbeat─────►│                     league_*, race_results
    rig agent (C#, one per rig PC) │
      ├─ /api/agent/assignment ◄───│
      ├─ /api/agent/checkout ─────►│
      ├─ /api/agent/events ───────►│──► rig monitor ──► Discord, GitHub
      └─ /api/agent/race-status ──►┘
      SQLite outbox (laps, pending_checkout, starts)

A row of `rig_assignments` is a *stint*: one driver at one rig from check-in to
sign-out. The agent polls for its rig's open stint, stamps each lap with it at
capture time and queues the lap on disk. The backend takes the stamp as the
owner and never derives one from who is checked in when the lap arrives.

### Inventory

| Component | State | Operations | What is hard | Correct when | Modelled |
|---|---|---|---|---|---|
| Seat of a rig (`AgentService.cs`, `WalkUpRules.cs`, `SignInFlow.cs`, checkout and assignment routes) | `_assignment`, `_hasPolled`, `_assignmentGeneration`, `_pendingCheckout` and its durable row; the open stint | poll, switch driver, sign-in, sign-out on exit, settle, start, stop | a reply applied after the seat has moved on; a checkout that arrives late; a restart with a debt; two modes | a stint that was signed out stays out; the seat follows the backend; what the driver is told of a sign-out is true | `RigSeat` |
| Lap outbox and ingestion (`EventQueue.cs`, `BackendClient.cs`, events route) | outbox rows and their flags; laps | enqueue, resolve, flush, remove, park; validate, insert | duplicates, lost replies, a crash between store and remove, a poison lap; a lap timed by the rig's clock and a check-in timed by the server's | exactly once, never reassigned, nothing lost, nothing stuck; a held lap finds its driver | `Outbox`, `LapLedger` |
| Check-in transactions (`checkin_driver`, session/end, agent/checkout, clear-rig) | `rig_assignments`, row locks | check in, move, take over, end | READ COMMITTED between statements, deadlock | one open stint to a rig and to a driver; nobody displaced unasked | `CheckIn`, `Seats` |
| Rig monitor: alerts (`monitor/run.ts`, `store.ts`, `discord.ts`) | `monitor_alerts`, the evaluation claim | evaluate, announce, retry, mute, recover | posts go out after the commit, from many instances at once | no lone recovery, mutes hold, nothing that was never told counts as told | `Alerts` |
| Rig monitor: rules (`rules.ts`, `rig-state.ts`, `event-mode.ts`, `flow.ts`, `rig-health.ts`) | none: a snapshot of the database | judge, colour the lanes | what arrived late, out of order, twice or from another clock | what the rules conclude is so, and the staff page shows it | `MonitorRules`, `RigWatch`, `VenueWatch` |
| Heartbeat and goodbye (`AgentService.cs`, `Heartbeat.cs`, `recordHeartbeat`) | sequence, notices not yet reported | build, send, goodbye, store | a report in flight while another process starts | the goodbye is last | in `RigWatch` |
| Live race status and results (`race-live.ts`, `race-results.ts`, `race-board.ts`) | latest status of each rig, captured places, the board | report, capture, sweep, review, save; poll, show, mark | late reports, drivers who change seats, staff who save an old review; polls that hang | a settled place is the finish; nobody inherits a place; no frozen race | `RaceNight`, `RaceRules`, `RaceScreen` |
| League night (`league-queries.ts`, `league-scoring.ts`, `validity.ts`) | seasons, rounds, featured combo, laps | open, close, roll; judge and rule on laps; score | two staff at once, statement by statement; laps that arrive late | one season to a league, the combo comes back, a lap never costs | `League`, `Standings` |
| Incident hand-off (`run.ts`, `store.ts`, `github.ts`, `handoff.ts`, `diagnosis/`) | claims on alerts; issues and comments on GitHub | diagnose, file, join, reopen, say recovered | calls whose answer is lost, runs that die or are slow, two runs at once, alerts whose severity moves | one issue to a fault, an alert named once, the recovery is the last word | `Issues` |
| Walk-up screens (`WalkUpViewModel.cs`, `SignInFlow.cs`) | stage, step, attempt in flight | submit, back, log out, close | handlers outside the lock | the screen and the seat agree | no |
| Lap detection (`Iracing/LapDetector.cs`) | counter baseline, pending lap | observe, reset | values from different frames | one event to a lap | no |
| Driver accounts (`driver-auth.ts`, `rate-limit.ts`) | PIN failures | log in, register | concurrent failures | five failures lock | no |
| TV wall (`tv-screen.tsx`, `board-types.tsx`, `tv-feed-health.ts`, `auto-scroll.tsx`, the feeds) | rotation, board on screen, deadlines, hold, stale and offline marks, feed health; the list in somebody's hand | tick: read the list, advance, refresh; hold, wake, mark; touch, drag, scroll, go home | unattended; loads that hang or fail; a list that changes under the index; a lift the frame never hears of | what it calls live is fresh; a failure is told; league night keeps the wall; every track has its turn | `TvWall`, `AutoScroll` |
| Portal, staff dashboard | presentation | read | — | — | no |
| Spike recorder, scripts, deployment | — | — | — | — | no |

The hazards of the code, each at its line, are under `hazards` in
`PROJECT.json` with the properties that cover them.

## The modules

| Module | What it is |
|---|---|
| `RigSeat` | the seat of one rig, agent and backend, in phone and in walk-up mode |
| `Outbox` | a lap's way from capture to the laps table |
| `LapLedger` | abstract: what rig and backend promise of a lap; `Outbox` implements it |
| `CheckIn` | the transactions on `rig_assignments`, statement by statement |
| `Seats` | abstract: who sits where; `CheckIn` implements it |
| `MonitorRuns` | what the stages of the monitor share: overlapping runs, the clock, the table of alerts |
| `Alerts` | a monitor alert and its posts: evaluations, mutes, retries, recoveries |
| `MonitorRules` | the monitor's rules, the order heartbeats were sent in, event mode, the staff page's lanes: operators over a snapshot |
| `Watch` | what an evaluation makes of the open alerts |
| `RigWatch` | one rig's agent processes, the network, and the rules applied to what arrives |
| `VenueWatch` | rigs, TV boards and staff override under the rules; event mode's flips |
| `Issues` | an urgent alert's diagnosis and its issue on GitHub |
| `Screens` | what the public screens share: the venue's rigs |
| `RaceNight` | race reports, capture under the flag, sweep, review and save |
| `RaceRules` | which reports are the race, and what a screen makes of an answer: operators |
| `RaceScreen` | rigs that report, the feed, and one TV that polls it |
| `Standings` | where a round places its drivers and what that is worth: operators |
| `League` | opening and closing rounds, rolling seasons, laps that count |
| `AutoScroll` | the event view's list: under a hand, or scrolling on its own |
| `TvWall` | the TV's rotation engine, its boards, feeds, holds and health, in both modes |
| `MC...` | symmetry sets and sets of inputs for TLC |
| `...Proofs` | theorems and proofs: about `RigSeat`, `Outbox`, `CheckIn`, `RaceNight` and `League` in modules of their names; about `Alerts` and `Issues` in `MonitorProofs`, `RigWatch` and `VenueWatch` in `WatchProofs`, `TvWall` and `RaceScreen` in `ScreenProofs` |

They compose by sharing operators or by sharing a notion. `RigWatch` and
`VenueWatch` build the snapshots `MonitorRules` judges, `Alerts` and
`Issues` are two stages of the same runs (`MonitorRuns`), `RaceScreen` serves and
applies `RaceRules`, `League` scores with `Standings`, `TvWall` extends
`AutoScroll`, whose list is on its event view. `CheckIn` justifies the
atomic `ServerCheckIn` and `SessionEnds` of `RigSeat` (it implements `Seats`, in
which a check-in is one step); the stamp that `RigSeat` puts on a lap is the
owner that `Outbox` carries to the laps table; the finishers of a round in
`League` are the outcome of `RaceNight`.

### RigSeat

Backend: `open` is the stint open on this rig, `driverOf` the rows inserted so
far. Agent memory: `seat` is `_assignment`; `hasPolled`, `pending`
(`_pendingCheckout`), `pendingIsDurable` are the fields of those names;
`superseded` says that `_assignmentGeneration` has moved since the poll in
flight read it, which is all the code asks of the number. Agent disk:
`durablePending` is the `pending_checkout` row; `lap` holds the laps with their
stamp. A lap captured before the first poll is held, and that poll gives it to its
stint or to nobody: which of the two turns on clocks, which are `Outbox`'s
subject, and is a choice here (`ResolveUnresolved`).

A request is three steps: the agent sends it, the backend serves it
(`PollServed`, `CheckoutServed`, `CheckInServed`), the agent takes the reply or
gives up (`...Fails`, at any time, served or not). The locked sections of
`AgentService` are one step each, from the lock to its release and no further.
The two tasks that call the backend are the assignment poll's loop and the task
that reads the keyboard; each has at most one checkout in flight (`call`). The
`written` parameter is whether the SQLite write succeeded.

A request the agent has given up on may still be served. A late check-in is then
`PhoneCheckIn` and a late named checkout is `SessionEnds`; both can happen at any
time. A late checkout that names no stint is covered in the same way, but the
model cannot tell it from the driver's own sign-out, so the harm it can do (it
ends whichever stint it finds) is listed as a hazard without a property.

`signedOut` and `promised` are history: the stints ended at this rig in this run
and those for which the driver was told that the sign-out is queued.

### Outbox

`outbox`, `stamp`, `parked` are the table's rows, their `rigAssignmentId` and
`resolved` flag, and the rows with a `rejected_reason`; `earlier` is the order
of `created_at`. `flush` is the flush loop with the batch it sent, `handler` the
requests being served, `laps` the owners recorded for each event id - a sequence,
so that a second row would show. A request given up on by the agent goes on in
its handler, so a lap can be in several requests at once. Validation refuses a
batch whole and names the offending positions; storing goes lap by lap and may
fail on any of them. The verdict of `attributeLap` - known to this rig and inside
its window, or recorded under nobody - is a choice (`AttributedTo`).

A lap driven before the first poll of a run is held (`held`: when it was driven,
and what the rig's clock showed then). The first poll names a stint and its
`started_at` (`since`) by the server's clock. `GetAssignmentAsync` takes the offset
between the clocks from the answer's Date header, which has whole seconds, and the
moment the answer arrived (`Header`, `Offset`); `OwnerOf` compares the lap's time,
moved by that offset, with the check-in. Time here is the server's; the rig's clock
is off by a member of `ClockErrors` each time it is read, so that it may be set
between a lap and the answer. A header that is missing is the offset 0 (`Offsets`).
The web server that writes the header and the database that writes `started_at` are
taken to share a clock.

### CheckIn

One step is one SQL statement: it sees what is committed (READ COMMITTED),
takes or waits for row locks, and a transaction's writes show when it commits.
The last statement of a transaction and its commit are one step; nothing of the
transaction can be observed between them. Row locks, the wait for an uncommitted
unique key, rollback and the deadlock detector are Postgres's and marked external
in the map. A `where ... ended_at is null` that had to wait for a lock is
evaluated again on the row as it then is (`EndTakes`, `EndMisses`). The three end
reasons of the single updates are merged into one (`"ended"`), and time is left
out: `ended_at is null` is `end = "open"`.

### Alerts

The alerts of one rule on one rig, which is the scope of flapping and of every
query on `monitor_alerts`: evaluations of other rules touch other rows. It stands
for the rules whose subject is the rig, so that at most one of its alerts is
open, and whose recovery is posted. Left out: rule 14, whose mute ends in a
summary, the rules that recover silently, diagnoses, and rule 11 and 14's subjects
within a rig. Severity and level are one scale, since `moveSeverity` and
`levelRose` do the same to the row.

An evaluation is one step: claims queue on the row of `monitor_state` and every
statement of one sees the rows as it left them. Which finding it makes is a
choice (`Persists`, `OpensAlone`, `StartsMute`, `OpensMuted` with one,
`FindsItAbsent`, `FindsNothing` without). After the commit the run goes through
the stages of `runMonitor`: it reads what it won (`ReadsWon`), posts message by
message and records each one Discord took (`PostIsTaken`, `Records`), claims the
openings that are due (`ClaimsAnnounceRetries`), then the recoveries. A post can be
refused, or be shown without an answer in time; a run can die anywhere. `runs[r]`
holds the messages as they were rendered when the row was read, so that a stale
one can be posted. The messages of one sweep go in any order, which the sweeps'
`returning` leaves open too. `channel` is the set of messages
shown: a repeated post, which `store.ts:78-87` accepts, shows nothing new.

### MonitorRules, RigWatch, VenueWatch

`MonitorRules` has the rules of `rules.ts`, one operator or a few to a rule, over
a snapshot record; a finding is the rule, its subject, its severity and evidence.
What a message says is left out. `InSendOrder` is the order of `rig-state.ts`:
process and sequence number where both heartbeats carry them, the rig's clock
otherwise. `Lane`, `TileColour` and `ShownFindings` are what the staff page
draws.

`RigWatch` has the processes of one rig's agent (`born`, `agent`), their
heartbeats and goodbyes on the wire, and the stored ones (`beats`) in order of
arrival. A heartbeat lands late, after later ones or never, its answer can be
lost - so that the agent repeats what it reports - and a process can be killed
without a goodbye. The rig's clock is `ClockOffset` ahead, throughout. An evaluation
follows a heartbeat and a minute, unless there was one within twenty seconds
(`claimEvaluation`), which the model leaves open each time; its alerts have the hysteresis of
`applyFindings` and no posts, which are the subject of `Alerts`.

`VenueWatch` has several rigs that are heard in some minutes and not in others,
boards, the override and check-ins. `flips` are the lines about event mode that
slow runs are still posting; a post that fails puts the mode back only if no
flip was claimed since (`releaseEventModeFlip`). An open alert counts the
evaluations that did not find it (`absent`) and resolves at the second one, as
`RESOLVE_AFTER_ABSENT` has it; the properties tell an alert that was found by the
last evaluation (`Found`) from one that is going away.

Both snapshots have no laps, no personal bests and no moves: the rules about them
(validity, fast laps, driver moves, combo) are in `MonitorRules` as operators and
are not exercised by the runs, nor are inactive drivers, the monitor's own gap
and parts shared between rigs, which are left out.

### Issues

`alerts` has the rows of `monitor_alerts` with their `diagnosis` column: `status`,
`attempts` and `at` of the diagnosis, the claims `filing` (`issueAttemptedAt`)
and `saying` (`issueRecoveryAttemptedAt`), `said` (`issueRecoveryCommentedAt`),
and `issue` for `github_issue_number`. `runs` are the calls of `runDiagnoses`, each
step of which is one statement or one call of GitHub; `holder` is the advisory
lock of each rule. `issues` is GitHub: who is named by the markers of each issue
and of its comments. That an alert opens, is announced, rises to urgent, falls to a
warning (`moveSeverity`) and resolves is `Alerts`'s subject and happens here at any
time; only urgent alerts are diagnosed, filed, and hold a recovery back, as in the
three queries. A call fails, or is served without an
answer in time; a run dies at any step and its transaction with it. A call that
is served is served when it is made: one that lands after the retry looked for
it is outside the model.

### RaceNight, RaceRules, RaceScreen

In `RaceNight`, `cars` is where each rig's car is in each race, `requests` the
reports being served, each at one of the statements of the route: the upsert of the
status (`Store`, or `Drop` when a later sample is stored), the note that the rig was
heard in its race (`HearStart`) and, under the flag, the capture (`Capture`). `status` is the stored one, with the driver
seated as it was stored; `results` and `unsigned` are `race_results` and the places
of empty seats; `RaceSession` is the view that picks the round's race, with its
two definitions (migrations 0009 and 0011). A report that waits anywhere lets
seats change, staff save and the round close in between.

In `RaceScreen`, `status` is the stored reports and `requests` the polls of one
TV. The screen hides, is looked at again, hears of the round with a delay, and
takes answers late or not at all; ages are counted in ticks, a tick being a poll
interval. When the wall's rotation goes past the board, or the page is loaded anew,
the board is mounted without what it remembered (`Remount`). `RaceRules` has the choice of the race and its order on the server's
side, and the board with its finish and its marks on the screen's.

### League, Standings

`League` has the three transactions statement by statement, as `CheckIn` does, and
the laps of the night from the wheel to the table, judged on the way by the combo
its batch read. A round keeps which round was open when its opening read the combo
(`amid`), which is history for the property, and the drivers staff put in the race
without a place (`retired`). `Standings` places the drivers of a round by their laps
and its race, and adds up the season.

### TvWall, AutoScroll

The page is one thread that awaits one request at a time, so a step of `TvWall`
is what runs between two awaits. `Tick` is `tick()` up to its first request,
`awaits` that request with what the tick still has to do and what is left of its
timeout; `ListArrives`, `SlideLoads`, `SlideIsSkipped`, `RefreshLoads`,
`RefreshIsEmpty` and the `...Fails` are the code after it, to the next one or to
the end. The deadlines (`nextAdvanceAt`, `nextRefreshAt`, `nextRotationAt`,
`holdUntil`) count down; a unit of time is longer than the half second between
ticks, so a tick that is due runs before time goes on. `Shows` is `show()` and the
effects of the board it shows: its hold, the baseline of the next celebration, and
the rows of the list. What the feeds answer is computed from `laps`, `sessions`,
`combo`, `season` and `openOn`, which the venue changes at any time; the answer of
a request may be as old as the request. A page that sleeps wakes with every
deadline passed (`WakeUp`).

`AutoScroll` keeps apart what the frame believes (`touches`, `drag`) and what is so
(`finger`), because a lift can go to a row that the list has just replaced.

`age`, `napped`, `emptied`, `handsOff` and `rowsAgo` are history, for the
properties: how old the numbers on a wall that says they are live can be, whether
the page has slept since it last showed anything, whether the last refresh found the
board empty, how long ago the frame heard of a hand, and how long ago a refresh moved
the rows of a held list under a finger the frame believed in. `onScroll` starts the
idle clock for the last of these too, with nobody there (`RowsChange`).

## What the runs show

| Run | Instance | States | Shows |
|---|---|---|---|
| `RigSeatPhone` | phone mode, 1 driver, 2 stints, 1 lap, fair | 43,069 | the seat learns of ends and check-ins; the queued sign-out is delivered |
| `RigSeatWalkUp` | walk-up mode, 2 drivers, 3 stints, 1 lap | 2.2 million | sign-outs that stay, promises kept |
| `Outbox` | a good lap and a refused one, batch of 2, 2 requests at once, 1 stint, 3 ticks of half a second, a rig clock right or a second ahead, fair | 128,902 | held laps find their driver; the outbox and the route implement `LapLedger`; every lap is settled |
| `CheckIn` | 2 requests, 2 rigs, 2 drivers, 4 stints | 994,629 | `Seats` implemented; confirmations; the ordered pass has no deadlock |
| `Alerts` | 2 runs, 2 levels, 3 alerts, a mute after 1 refire, 1 failure | 3.2 million | recoveries follow openings; mutes hold and keep what closed in them quiet |
| `RigWatch` | 2 processes, 2 heartbeats, a clock 2 ahead, delays of 1 | 374,706 | silence, restarts, stuck laps and lanes are what happened |
| `VenueWatch` | 2 rigs, 1 board, 2 happenings, 4 minutes and a midnight | 1.7 million | silences are reported, correlated and kept; a failed post undoes no newer flip |
| `RaceNight` | 2 rigs, 2 drivers, 2 races, 2 reports each, 1 delayed, 1 incident | 3.4 million | captured places are those of the finish and of who drove; staff have the last word |
| `RaceScreen` | 3 rigs, 2 races, 3 changes | 2.5 million | no frozen race, a finished one goes, only passes are marked |
| `League` | 2 staff, 2 drivers, 2 combos, 2 lap times, 4 happenings | 975,519 | one season to a league, the combo comes back, a lap never costs |
| `Issues` | 2 runs, 2 alerts of a rule, 1 failure, 1 issue closed or severity moved, 2 ticks | 3.4 million | one issue to a fault; an alert named once; the recovery is the last word |
| `TvWall` | both modes, 2 tracks, 2 drivers, 1 rig, 2 happenings (1 in the event view), 2 hands, fair | 599,813 | live numbers are fresh, failures are told, league night keeps the wall, every track has its turn, the list goes home |

**Bounds.** Three stints on one rig let a departed stint, the one that replaced
it and a newcomer coexist with a poll in flight; the phone run has one driver and
two, since liveness is dear, and its safety is proved for any number. Two drivers
distinguish "the same driver again" (the backend answers with the open stint)
from "somebody else". A good lap, a refused one and a batch of both make the
poison lap with something beside it; the refinement and the safety of `Outbox` are
proved for any laps and any batch. Its tick is half a second (`Second` is two): a lap
before, at and after the check-in, and an answer that takes a tick to arrive, fit in
three, and a clock one second ahead is enough to give a warm-up lap to the next
driver if the offset is not read. Four stints and two requests are the least in
which two drivers swap rigs. `MaxStints` bounds a system
that goes on for ever, so the `CheckIn` run stops and is checked with
`CHECK_DEADLOCK FALSE`.

In `Alerts` the clock is a small number and the windows are scaled: an evaluation
takes a tick, a run lasts at most `RunFor`, a mute is longer than that, and one
refire makes an alert flap, so that three alerts are one before a mute, the one
that starts it and one inside; `MaxTime` lets the mute end and its retries come.
`RigWatch` and `VenueWatch` scale the windows of `rules.ts` to a minute or two in
the same way and keep their order: what is longer in the code is not shorter
there. Two processes and two heartbeats are a goodbye overtaken by a heartbeat of
its own process or of the next, and two starts are the least restart loop. Four
minutes are a venue that goes silent, is heard again, and passes midnight, and
long enough for an alert that is going away to be found again. Two rigs that report two
races are the least tie about which race is the round's, and a delay of one request
is what overtaking takes; `MaxIncidents` counts changes of
seat, reviews and saves. Three rigs are a pass and somebody who joins or leaves
beside it. Two members of staff are any two overlapping transactions. In `Issues` a
claim is fresh within its tick, in which the run also says the diagnoses it claimed;
filing and recoveries may take it as long as they like. A retry comes in the
next tick, and one tick is also the day within which alerts share an issue and the
hour their markers are looked for before they opened: in two ticks an issue whose
answer was lost is retried and found, or is too old to be.
In `TvWall` a unit of time is about five seconds: a refresh and a request's
timeout are one unit, a slide three, league night's hold five; what is longer in
the code (the minute between two lists, the minute after which a touch is stale)
is scaled to four or five, which keeps the order of the times. Two tracks are the least
list with a slide to lose and one to keep. No rows fit the event view, so that the
list can be taken whenever it has any, and every failure after the first is
counted as the first.
`MaxFailures`, `MaxTime`, `MaxAlerts`, `MaxHappenings`, `MaxChanges`, `MaxReports`,
`MaxSaves`, `MaxIncidents`, `MaxProcesses`, `MaxSends`, `MaxHands` bound
systems that go on for ever, so those runs stop too.

**Fairness.** `RigSeat`: the loops of the agent never end (`RunTick` contains every
exception), so a poll that can be asked or settled is; the backend does not
refuse for ever what is repeated for ever (strong fairness of serving and
applying, because a poll may time out between); the program is started whenever
the rig is on, and ends once it is closing (the exit work is bounded to three
seconds). Nothing is assumed of drivers, phones or staff. `QueuedSignOutIsDelivered`
needs the program to stay up and the driver to stop pressing, and says so.
`Outbox`: the loops run and the backend finishes or drops each request; that the
outage ends is a premise of the property (`OutageEnds`), not of the specification.
`TvWall`: the interval timer fires (`Tick`), a request ends by its answer or its
`AbortSignal.timeout` (`Answers`), the list's timer fires, and time passes; nothing
is assumed of the venue, the network or hands, and `EveryTrackHasItsTurn` has for
premise that the network is back for good and that the track keeps its laps.
The other specifications have no fairness and no liveness properties: what must
happen in them waits for a driver, staff, or a post that may fail for ever.

## Findings

Met while modelling, in the models, and reported by no run:

- *Check-ins can still deadlock.* A stint inserted between the ordered lock pass
  and the selects is locked by the closing updates, out of order. Postgres fails
  one of the check-ins, which answers 500. `0001_core_schema.sql:174-176` takes the
  ordered pass to rule this out. It does so for the pass itself, which is what
  `OrderedPassNeverDeadlocks` says. But of two check-ins of the driver of stint 2 at
  the rig of stint 1, one may have locked {2} alone, because stint 1 was not committed
  when it looked; its selects find both, it wants to end 1 and holds 2, and the other
  locked 1 and waits for 2.
- *A departed driver back in the seat, phone mode.* A poll asked after the press
  and answered before the checkout is served is applied after the checkout's
  reply has cleared the tombstone: the ended stint is seated until the next poll
  (10 s), against the comment at `AgentService.cs:61`. `SignedOutStaysOut` holds
  in walk-up mode only.
- *A closed stint rewritten.* The closing updates of `checkin_driver` name the
  stint by id alone, so one that ended between the select and the update is ended
  again, with another reason and time (`Closes` in `CheckIn`).
- *A rise counted as announced.* `markAnnounced` sets `notified_at` by id: a run
  that waits for Discord's answer to an opening records it over a rise that
  cleared `notified_at` in between and could not be posted (`Records` in `Alerts`).
- *A closed round moves.* A lap driven during a round and delivered from the
  outbox after it closed falls into the round's window by its `completed_at` and
  changes its result and points; `0002_league_night.sql:26` and
  `league-scoring.ts:122-124` say that closed rounds stop moving (`League` has the
  late lap).
- *A second issue on the same day.* An issue whose answer was lost, and whose
  retries all fail for the hour they last (`RETRY_FOR`), is recorded for no alert;
  an alert of the rule that opens later looks for markers an hour back
  (`MARKER_LOOKBACK_MS`), not the day within which alerts share an issue, and opens
  another. `OneIssueToAFault` says "an hour before they opened" for that reason.
- *Two recovery comments.* Unlike filing, the recovery comment takes no lock: a run
  that waits longer than `RETRY_AFTER` (60 s) between claiming and commenting is
  overtaken by the next one's claim, and the issue is told twice that it recovered.
  `NamedOnce` allows a second recovery comment when one of the two was written so
  late (`slow`), and nothing else.
- *A fault joins after the recovery.* `claimIssueRecoveries` is held back by urgent
  alerts only (`store.ts:1415`): one that was a warning then, and rises to urgent
  later, joins the issue after the comment that everything on it has recovered.
  `NothingJoinsAfterRecovery` speaks of the alerts that were urgent.
- *A second answer to a sign-out.* An update in `session/end` that waited for the
  row of a stint a check-in then moved answers `ended: false` although the driver
  has a newer stint, which its snapshot did not hold (`EndMisses` in `CheckIn`).
- *A mute nobody was told of.* When the line that starts a mute cannot be posted
  and its alert closes before the next sweep, the line is never retried
  (`store.ts:782`).
- *A wall marked stale without a failed load, and late.* `tv-feed-health.ts:8-9`
  says that "the engine marks the board stale exactly when a load fails". A pass
  marks only at its end (`tv-screen.tsx:191-193`): while every load of it hangs, the
  old board stays up unmarked for eight seconds a slide (`FreshFor`), and a pass
  that found only empty boards marks it although no load failed.
- *A celebration of another day.* A board's empty answer drops the baseline of the
  next celebration (`board-types.tsx:214-217`), but only if it is loaded while it is
  empty; after a midnight or a new featured combo whose empty feed was never
  loaded, the first laps are compared with those of the day or the combo before.
- *A list that never goes home.* After a lift the frame missed, `touches` stays at
  one, and the scroll that the browser makes when a refresh brings rows starts the
  idle clock anew (`auto-scroll.tsx:256-265`). Rows that come more often than every
  20 s therefore put the list's return off each time, for as long as they come,
  against `auto-scroll.tsx:53-55` (such a scroll "leaves the idle clock alone") and
  84-86 (a missed lift "must not park the board for the rest of the night").
  `ListGoesHome` says that nothing else does.
- *A finished race comes back.* A board that is mounted anew has forgotten the
  finish: while the rigs still report the flag, it shows the race for its minute once
  more. `FinishedRaceStaysGone` is about a board that stays mounted.
- *A second league.* Two members of staff open the first round ever: both find no
  league. If the round of the first is closed before the second's insert is through, the
  second is not refused by the index of one open round and commits a league and a
  season of its own, against `league-queries.ts:347-350`. `league.ts:4` ("A league
  runs one season at a time") holds, per league; a second league comes in no other
  way (`OneRunningSeason`).
- *The wrong combo put back.* A request to open reads the featured combo as it
  inserts its round, then waits for the one open round to close. If that is closed
  meanwhile, what it read is the pin of that round: closing the new one puts that
  back, against `league-queries.ts:525-529`. `ComboIsPutBack` allows for the
  combo of a round amid which an opening read it, and for nothing else.
- *A warm-up lap credited.* The offset of the clocks is that of the moment the first
  poll is answered. A rig clock that is set (by NTP, say) between a held lap and
  that answer moves the lap across the check-in. And a lap driven after the check-in,
  but within a second and the answer's way of it, goes to nobody, because the
  header's seconds are rounded down. `HeldLapsFindTheirDriver` has both provisos.

## What is proved

Safety theorems use no fairness. They hold for all constants that satisfy the
assumption of the module: sentinels differ from data, bounds are numbers, and what
the code's own constants are chosen for:

- `Alerts`: no run of the monitor lasts as long as a mute - the platform stops a
  function within minutes, a mute is an hour.
- `VenueWatch`: an alert about a rig that was heard again resolves before that rig
  can be silent once more (`ResolveAfterAbsent <= SilentAfter + 1`: two evaluations,
  a minute apart, against two minutes of silence).
- `Issues`: a run is at the diagnoses it claimed for no longer than
  `DIAGNOSIS_STALE` (three calls of twenty seconds each against two minutes). Nothing
  is assumed of how long filing or saying recoveries takes.
- `RigWatch`: a request is lost before the snapshot's reach-back ends (`MaxDelay <=
  BeforeLatest`), so that whatever of a process arrives late, its later reports are
  still read; and what a heartbeat reports has the types of its schema.
- `RaceScreen`: a finished race is held no longer than the feed keeps a silent rig
  (`FINISH_HOLD` and `DROP_AFTER` are both sixty seconds).
- `TvWall`: a hold of league night (30 s) outlasts the wait for a refresh (5 s), its
  answer and a read of the list before it (8 s each), a celebration (7 s) is no
  longer than that hold, and a request times out before the next list is due (60 s).

- `RigSeatProofs`: type correctness and the safety properties
  (`SignedOutStaysOut` in walk-up mode only). The inductive invariant `IInv` adds
  what the code relies on without writing it down: a stint is never reopened and
  a served checkout closed the one it named (`ServedMeansClosed`); the keyboard
  task checks nobody in while it owes a sign-out (`OneThingAtATime`); while an
  assured sign-out is open nobody else can reach the seat, so nobody else's debt
  can overwrite it (`NobodyElseIsSeated`); and in walk-up mode what is signed out
  and still open is still owed (`SignedOutIsOwed`).
- `OutboxProofs`: type correctness, the safety invariants, and that `Outbox`
  implements `LapLedger`. `HeldLapsFindTheirDriver` is arithmetic: the header is at
  most a second behind its answer, so the offset is short of the true one by less than
  a second and the answer's way, and never beyond it. For the rest, the strengthening says that a copy in flight carries the
  stamp of its lap (`CopiesCarryTheStamp`), the request awaited is the one sent
  (`AwaitedIsOurs`), an answer in hand is true of the laps table (`AnswerIsTrue`),
  and a batch being stored holds no refused lap (`StoringIsValid`).
- `CheckInProofs`: type correctness, `OneOpenPerSeat`, `LockedStintsStayOpen`,
  `OrderedPassNeverDeadlocks`, `DisplacedOnlyIfConfirmed`, and that `CheckIn`
  implements `Seats`. A row never changes its driver or its rig, so what a
  transaction read of the rows it closes stays true (`Sound`, `Displaces`), and
  the unique indexes see to it that the rows it closes are all the open ones of
  its driver and its rig when it commits; the locks are needed only for the rows
  to be still open (`LocksAreExclusive`, `AllReadsHold`). The deadlock theorem
  takes the highest lock held in a ring of waiting transactions (`InOrder`):
  its holder waits for a higher one.
- `MonitorProofs`, about `Alerts`: type correctness, `NoLoneRecovery`, `MutesShareADeadline`,
  `MuteHolds` and `ClosedInMuteStaysQuiet`. An alert that is neither muted nor
  closed inside its mute (`Free`) stays so, because only a rise moves a deadline
  and it moves it to where no mute is (`Grows`). What a run holds of a `Free`
  alert is therefore still right when it is shown (`MessageSound`) or recorded
  (`RowSound`); an opening it won starts a mute that outlasts the run, or is read
  as it stands (`WonOpening`).
- `MonitorProofs`, about `Issues`: types and all three properties of the run, from
  `HandoffInv`. A claim on a diagnosis is its run's own while it is fresh, and a run
  acts on it no longer than that (`DiagnosisSound`, `InTime`). Two runs that are at
  one recovery claimed it more than `RETRY_AFTER` apart (`RecoverySound`), so of their
  comments the earlier run's is slow, unless the later run read it (`SayingSound`). The alerts of a rule are filed by the run that holds its
  lock, so what it found out before - no alert near these is on an issue
  (`Clear`), no issue of the rule since the hour before (`NoneSince`), the issue
  to join names none of those to be named (`Joins`) - is still so when it
  opens or comments (`FilingSound`): `OneIssueToAFault` and `NamedOnce`. An alert
  that nothing files any more stays so (`Settled`): it is on an issue, or resolved
  and too old. Recoveries are decided on when every urgent alert that could join is
  settled, so what a recovery knew is the last word (`NothingJoinsAfterRecovery`),
  whatever rises later.
- `WatchProofs`, about `VenueWatch`: all three properties of the run. `NewerFlipStands`: the times
  of the flips nest (`FlipsNest`): of two that are still being posted, the later one
  was claimed with the earlier one in force, so the stored mode is that of the
  newest, and what a failed post puts back is what stood before its own flip.
  `SilenceIsNotForgotten`: what the last evaluation holds silent is a rig not heard
  since, whose last word was no goodbye (`SilencesStand`); such a rig is held or
  urgent in the next evaluation too, so rule 1 names it again, and the note about
  the venue needs nothing but that no rig is live (`RigFindings` spells the rule out
  once for all). `VenueGoesDarkQuietly`: while nothing happens but heartbeats, a
  warning that the last evaluation gave is of a rig that went quiet while the rigs
  were `Apart` (not on together, not quiet together, or one long gone), and one that
  is going away has missed every evaluation since its rig was heard
  (`NightSound`, `AlarmSound`). Once apart, the rigs stay apart until the warned rig
  is heard (`ApartStays`); a rig that is heard and falls silent again cannot still
  have its old warning, which is where the assumption on `ResolveAfterAbsent` is
  used; and an evaluation that finds rigs dark which are not apart counts back to a
  time no later than any of their last words, so it sees them together
  (`BackBefore`, `DarkIsTogether`). Two facts about heartbeats carry this: stretches
  of hearing are what was heard (`RunsAreHeard`), and the last of them is the latest
  (`LastRunIsLast`).
- `WatchProofs`, about `RigWatch`: all four properties of the run. A heartbeat is on
  its way no longer than `MaxDelay` and carries the clock of its process
  (`BeatsSound`). So a start placed by the clock a heartbeat was sent with is off by
  no more than its delay, and the starts rule 10 counts are those of as many
  processes that did start (`RestartsAreReal`); and a lap that the last report calls
  old was already queued when an earlier one arrived (`OutageIsNotStuck`). What
  the rules take for a rig's state is the last heartbeat in the order of sending,
  which the code builds by a loop of insertions: unrolled step by step
  (`SendOrderSteps`), it leaves the last of a process where nothing overtakes it
  (`StateIs`), and heartbeats of one process never cross in it (`SentInOrder`).
  A rig whose last process said goodbye is therefore taken at its word, and one rig
  alone is never a silent venue (`ClosedRigStaysQuiet`). Every finding has a place on
  the lane (`Placed`), a lane is broken no earlier than its first finding, and a
  part with a finding is never faded (`LaneShowsEveryAlert`). Induction over the
  numbers is done by sets (`NatsInduct`), since the library's theorems of induction
  take an operator.
- `RaceNightProofs`: types and all five properties of the run. Between two
  saves a driver's row stays, or follows its own rig's car while it is a captured
  one, or appears for a rig whose place nobody holds while staff have saved
  nothing (`RowEvolves`); so staff's rows are all of the rows or none
  (`AllOrNoneOfStaff`). A settled place is the finish because what a report says of a
  car that has crossed the line stays true of it, in flight, stored or captured
  (`FinishSound`); a captured race stays because every captured place is of one race
  (`RaceSound`); and a save loses no place because a row stamped no later than the
  newest the review has shown is in the review (`ReviewSound`, `RowsStamped`).
- `LeagueProofs`: types, `OneRunningSeason`, `ComboIsPutBack`, that a closed round is
  never written again and that no season ends under its open round. The lock of a
  season has one holder, who found it open, and only a holder ends it; so an
  opener's season is open when it commits, and a roll finds no round in the season
  it ends. An opener that is to found a league was sent before any round closed
  (`FoundersCameFirst`), so a league beyond the first is of a round that `Outlived`
  another; one that is to renew the first league's season is alone
  (`RenewersAreAlone`); and every combo that is to be put back is the venue's or
  comes from another round (`CombosAreKnown`).
- `ScreenProofs`, about `TvWall`: types and the safety properties. Time is counted by what the engine
  awaits: a refresh that is waited for, asked for, or behind a read of the list
  bounds the age of a live board and what has run of a league's hold, which
  therefore never runs out; a board that emptied is bounded by the hold over it, and
  a pass by its slides. `ListGoesHome` follows from the idle timer and the ages of
  the last touch the frame heard of and of the last refresh that started the timer.
- `ScreenProofs`, about `RaceScreen`: `RaceIsNotFrozen` and `FinishedRaceStaysGone`.
  Of the requests a screen has sent, only the last is not stopped (`OneOut`), so an
  answer that is heard is the newest asked for; an answer or a failure that is heard
  leaves no race older than `DropAfter`, and one that is not heard in time is
  stopped and asked again, which adds the time of a request (`RaceOnTime`). The flag
  of the race on screen was seen no later than its last answer (`FinishIsOlder`), so
  a failure keeps a finish no longer than its hold. A finish that has been and left
  is not on screen (`GoneIsGone`): to be there again an answer must put it back, and
  once its hold is over `applyRaceFeed` takes it from no answer.

Only model-checked:

- the liveness properties (`SeatLearnsOfTheEnd`, `QueuedSignOutIsDelivered`,
  `CheckInReachesTheSeat`, `EveryLapIsSettled`, `EveryTrackHasItsTurn`): out of TLAPS's
  reach;
- `ALapNeverCosts`: the points of a round are folds over its drivers and laps, and
  take induction over data;
- `MarksArePasses`: the marks on the race board compare places in two boards that
  were sorted and filtered (`SetToSortSeq`, `SelectSeq`), which are recursive over the
  data.

## Not modelled, and why

- *Walk-up screens.* `RigSeat` has every call the screens make on the agent, in
  every order; the stages of the window itself are single-threaded presentation
  over them.
- *Lap detection.* A sequential machine over one stream of frames, tested frame by
  frame in the repository; the rest of the telemetry reader is a memory layout.
- *The attribution window.* A comparison of two clocks with a tolerance; `Outbox`
  takes its verdict as a choice.
- *Driver accounts.* Password hashing, signed cookies and one counter to a key.
- *Portal, staff dashboard.* Queries and presentation, the largest part of the
  TypeScript by lines; so are the layout of the TV, and its page's own heartbeat and
  reload, of which `VenueWatch` has what the server hears.
- *Scripts, soak tests, the spike recorder, deployment.* No protocol of the running
  system.
- In the modelled parts: audit entries; the claim of the routine update and of
  rule 14's summaries; parts shared between rigs; changes of the time zone's
  offset at midnight; every race session but the last one the board saw flagged.

## Running

    tlc -workers 2 -config RigSeatPhone.cfg MCRigSeat
    tlapm RigSeatProofs.tla
