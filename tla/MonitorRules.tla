----------------------------- MODULE MonitorRules -----------------------------
(***************************************************************************)
(* The rig monitor's judgement: given what the database holds right now,   *)
(* which problems exist (lib/monitor/rules.ts), with the order heartbeats  *)
(* were sent in (rig-state.ts), event mode (event-mode.ts) and what the    *)
(* staff page makes of the findings (rig-health.ts, flow.ts).  Operators   *)
(* only: RigWatch and VenueWatch build the snapshots they are applied to.  *)
(*                                                                         *)
(* A snapshot s is a record: now; dayStart, the venue day's start; rigs,   *)
(* each with seen (last_seen_at), seat (when the open stint began), beats  *)
(* (its heartbeats as they arrived) and heard (its runs of heartbeats);    *)
(* combo, today's featured one; laps, as they arrived; bests; moves;       *)
(* override; since (event_mode_changed_at while the mode is on); boards;   *)
(* and open, the <<rule, subject>> of the open alerts.                     *)
(***************************************************************************)
EXTENDS Integers, Sequences, FiniteSets, SequencesExt

CONSTANTS
  SilentAfter, SilentLookback, CorrelationWindow, VenueRecoveryGrace,
  SimDisconnectedAfter, LapStuckAfter, RestartWindow, RestartsToAlert,
  ClockSkewAlert, ClockSkewClear, FootprintFor,
  UnattributedToAlert, UnattributedWindow, UnattributedClear,
  SignInFailuresToAlert, SignInFailureWindow, SignInFailureClear,
  ComboRejectedLaps, ComboRejectedWindow, MoveWindow, LongStint,
  FastLapPercent, FastLapMinOthers,
  BoardDarkAfter, BoardReloadGrace, FeedFailuresToAlert,
  None                \* null

ASSUME MonitorRulesAssumption ==
  /\ {SilentAfter, SilentLookback, CorrelationWindow, VenueRecoveryGrace,
      SimDisconnectedAfter, LapStuckAfter, RestartWindow, ClockSkewClear, FootprintFor,
      UnattributedWindow, UnattributedClear, SignInFailureWindow, SignInFailureClear,
      ComboRejectedWindow, MoveWindow, LongStint, BoardDarkAfter, BoardReloadGrace} \subseteq Nat
  /\ {RestartsToAlert, UnattributedToAlert, SignInFailuresToAlert, ComboRejectedLaps,
      FastLapPercent, FastLapMinOthers, FeedFailuresToAlert} \subseteq Nat \ {0}
  /\ ClockSkewClear < ClockSkewAlert
  /\ None \notin Int

Never == -1           \* -Infinity: before every time
-----------------------------------------------------------------------------
(* The order a rig's heartbeats were sent in (rig-state.ts).  A heartbeat: *)
(* at, when it was received; sent and started, on the rig's clock; run,    *)
(* its process; seq, its place there; version; sim, "off", "idle" or the   *)
(* combo of its session; fault, unsaved, missing, cpu, memory, each as the *)
(* rule that reads it asks; age of the oldest queued lap, or None; parked  *)
(* laps; refusals, the sequence numbers of refused sign-ins; bye.          *)

SentBeforeByClock(a, b) == a.sent # None /\ b.sent # None /\ a.sent < b.sent

(* Proof that a left the rig before b.                                     *)
SentBefore(a, b) ==
  IF a.run # None /\ b.run # None /\ (a.run # b.run \/ (a.seq # None /\ b.seq # None))
  THEN a.run = b.run /\ a.seq < b.seq
  ELSE a.sent # None /\ b.sent # None /\ a.sent < b.sent

InSendOrder(beats) ==
  LET Place(ordered, h) ==
        LET later == {i \in DOMAIN ordered : SentBefore(h, ordered[i])}
        IN  IF later = {} THEN Append(ordered, h) ELSE InsertAt(ordered, Min(later), h)
  IN  FoldLeft(Place, <<>>, beats)

LastOrNone(seq) == IF seq = <<>> THEN None ELSE Last(seq)

LastSent(beats, Matches(_)) == LastOrNone(SelectSeq(InSendOrder(beats), Matches))

RigState(beats) == LastOrNone(InSendOrder(beats))

(* When Holds began, without a break up to the heartbeat state.            *)
UnbrokenTo(ordered, state, Holds(_)) ==
  {ordered[i].at : i \in {k \in DOMAIN ordered :
     \E end \in k..Len(ordered) : /\ ordered[end] = state
                                  /\ \A j \in k..(end - 1) : Holds(ordered[j]) /\ ~ordered[j].bye}}

HoldingSince(beats, state, Holds(_)) ==
  IF Holds(state) THEN Min(UnbrokenTo(InSendOrder(beats), state, Holds)) ELSE None

SimConnected(h) == h.sim # "off"
InSession(h)    == h.sim \notin {"off", "idle"}
-----------------------------------------------------------------------------
(* The TV boards and event mode (event-mode.ts).                           *)

BoardState(b, now) ==
  IF b.closed # None THEN "closed" ELSE IF now - b.seen <= BoardDarkAfter THEN "live" ELSE "dark"

HoldsEventMode(b, now) ==
  IF b.closed = None THEN BoardState(b, now) = "live" ELSE now - b.closed < BoardReloadGrace

EventMode(s) ==
  IF s.override # None /\ s.override.until > s.now
  THEN [on |-> s.override.mode = "on", cause |-> "override"]
  ELSE IF \E b \in s.boards : b.mode = "event" /\ HoldsEventMode(b, s.now)
  THEN [on |-> TRUE, cause |-> "board"]
  ELSE [on |-> FALSE, cause |-> "none"]

EventModeBegan(s) ==
  IF ~EventMode(s).on THEN None ELSE IF s.since # None THEN s.since ELSE s.now

BoardsToday(s) == {b \in s.boards : b.seen >= s.dayStart}

OnTheWall(s, event) ==
  EventMode(s) = [on |-> TRUE, cause |-> "override"] /\ \A b \in event : b.closed # None

DisplaysAmong(s, today, event) ==
  IF OnTheWall(s, event)
  THEN {b \in today : b.mode = "rotation" /\ b.seen >= EventModeBegan(s) - BoardDarkAfter}
  ELSE event

EventDisplays(s) == DisplaysAmong(s, BoardsToday(s), {b \in BoardsToday(s) : b.mode = "event"})
-----------------------------------------------------------------------------
(* Findings.                                                               *)

Rig(r)   == <<"rig", r>>
Venue    == <<"venue">>
Board(m) == <<"board", m>>

(* What flapping is counted over: the rig of a subject that names a lap or *)
(* a build of it.                                                          *)
FlapScope(subject) == IF Len(subject) > 2 THEN SubSeq(subject, 1, 2) ELSE subject

Finding(rule, subject, severity) ==
  [rule |-> rule, subject |-> subject, severity |-> severity, level |-> 0, evidence |-> "none"]

When(holds, found) == IF holds THEN {found} ELSE {}

IsOpen(s, rule, subject) == <<rule, subject>> \in s.open

(* Switched on and reporting now.                                          *)
Live(now, seen, state) == state # None /\ ~state.bye /\ seen # None /\ now - seen <= SilentAfter

IsLive(s, r) == Live(s.now, s.rigs[r].seen, RigState(s.rigs[r].beats))
-----------------------------------------------------------------------------
(* Rule 1: silence.                                                        *)

(* loadSnapshot: the unbroken runs in which a rig was heard at times.      *)
Joined(times, a, b) == \A t \in times : a <= t /\ t < b => \E u \in times : t < u /\ u - t <= SilentAfter

HeardRunsOf(times) ==
  {[from |-> t, to |-> Max({u \in times : t <= u /\ Joined(times, t, u)})] :
     t \in {v \in times : \A u \in times : u < v => ~Joined(times, u, v)}}

(* The rig's heard runs through its last word, which any request moves.    *)
Extended(runs, last, seen) ==
  IF seen - last.to <= SilentAfter
  THEN (runs \ {last}) \cup {[from |-> last.from, to |-> Max({last.to, seen})]}
  ELSE runs \cup {[from |-> seen, to |-> seen]}

HeardRuns(rig) ==
  IF rig.heard = {} THEN {[from |-> rig.seen, to |-> rig.seen]}
  ELSE Extended(rig.heard, CHOOSE run \in rig.heard : \A other \in rig.heard : other.to <= run.to, rig.seen)

(* The rigs whose silence means something: a standing goodbye does not.    *)
SaidGoodbye(state) == state # None /\ state.bye

Reporting(s) ==
  {r \in DOMAIN s.rigs : s.rigs[r].seen # None /\ ~SaidGoodbye(RigState(s.rigs[r].beats))}

QuietFor(s, r) == s.now - s.rigs[r].seen

(* Two or more, whose last words were close to each other.                 *)
MoreThanTwoTogether(words) == Cardinality(DOMAIN words) > 2 /\ Max(Range(words)) - Min(Range(words)) <= CorrelationWindow

TogetherAt(words) ==
  Cardinality(DOMAIN words) >= 2 /\ Max(Range(words)) - Min(Range(words)) <= CorrelationWindow

(* runs: what each reporting rig was heard.  By t the venue had been       *)
(* silent, after the last of its words and one of another rig together.    *)
WordsBefore(runs, t) ==
  [r \in {q \in DOMAIN runs : \E run \in runs[q] : run.from < t} |->
     Max({Min({run.to, t}) : run \in {before \in runs[r] : before.from < t}})]

SilentAfterWords(words, t) ==
  \E q \in DOMAIN words : /\ \A r \in DOMAIN words : words[r] <= words[q]
                          /\ t - words[q] > SilentAfter
                          /\ \E r \in DOMAIN words \ {q} : words[q] - words[r] <= CorrelationWindow

AfterVenueSilence(runs, t) == SilentAfterWords(WordsBefore(runs, t), t)

(* When the first rig came back from the venue's last silence.             *)
HeardAgainAt(now, runs) ==
  Max({Never} \cup {t \in UNION {{run.from : run \in runs[r]} : r \in DOMAIN runs} :
                      now - t <= SilentLookback /\ AfterVenueSilence(runs, t)})

SwitchedOnForEvent(s, seen, began, runs, back) ==
  /\ began # None
  /\ \/ seen >= began
     \/ back # Never /\ seen >= back /\ ~AfterVenueSilence(runs, s.now)

(* Silent now, and today or while an alert has stood open since.           *)
SilentLately(s, reporting) == {r \in reporting : QuietFor(s, r) \in (SilentAfter + 1)..SilentLookback}

SilentRigs(s, reporting) ==
  {r \in reporting : /\ QuietFor(s, r) > SilentAfter
                     /\ QuietFor(s, r) <= SilentLookback \/ IsOpen(s, "rig_silent", Rig(r))}

(* The venue's note; and of the rigs whose silence is nobody's problem     *)
(* yet, those it does not cover.                                           *)
VenueNote(s, anyLive, together, back) ==
  \/ ~anyLive /\ (together \/ IsOpen(s, "venue_silent", Venue))
  \/ anyLive /\ IsOpen(s, "venue_silent", Venue) /\ back # Never /\ s.now - back < VenueRecoveryGrace

Covers(s, anyLive, together, back) ==
  ~anyLive /\ (together \/ (IsOpen(s, "venue_silent", Venue) /\ back = Never))

UnexplainedFindings(s, unexplained, anyLive, together, back) ==
  {Finding("rig_silent", Rig(r), "warning") :
     r \in {q \in unexplained : ~Covers(s, anyLive, together, back)
                                /\ QuietFor(s, q) >= SilentAfter + CorrelationWindow}}
  \cup When(VenueNote(s, anyLive, together, back), Finding("venue_silent", Venue, "warning"))

(* urgent: the silent rigs with a driver or an event to miss.  One already *)
(* reported is held.                                                       *)
SilenceAmong(s, silent, urgent, anyLive, back) ==
  LET held == {r \in silent \ urgent : IsOpen(s, "rig_silent", Rig(r))}
      Unexplained(r) == r \in silent \ (urgent \cup held) /\ s.rigs[r].seen >= back
  IN  {Finding("rig_silent", Rig(r), "urgent") : r \in urgent}
      \cup {Finding("rig_silent", Rig(r), "warning") : r \in held}
      \cup UNION {UnexplainedFindings(s, unexplained, anyLive,
                                      TogetherAt([r \in unexplained |-> s.rigs[r].seen]), back) :
                    unexplained \in {{r \in silent : Unexplained(r)}}}

SilenceOver(s, silent, began, runs, back) ==
  SilenceAmong(s, silent,
               {r \in silent : s.rigs[r].seat # None \/ SwitchedOnForEvent(s, s.rigs[r].seen, began, runs, back)},
               \E r \in DOMAIN runs : QuietFor(s, r) <= SilentAfter, back)

SilenceHeard(s, runs) ==
  SilenceOver(s, SilentRigs(s, DOMAIN runs), EventModeBegan(s), runs, HeardAgainAt(s.now, runs))

Silence(s) ==
  UNION {SilenceHeard(s, runs) : runs \in {[r \in Reporting(s) |-> HeardRuns(s.rigs[r])]}}
-----------------------------------------------------------------------------
(* Rules 2, 3a, 3b, 6, 10-12 and 15-18: what the heartbeats report.        *)

(* Rule 3a: the link worked while the lap waited.                          *)
LapsWaiting(beats, state) ==
  /\ state.age # None /\ state.age > LapStuckAfter
  /\ \E i \in DOMAIN beats : beats[i].at < state.at

LapsStuck(beats, state) ==
  /\ state.age # None /\ state.age > LapStuckAfter
  /\ \E i \in DOMAIN beats : beats[i].at > state.at - state.age /\ beats[i].at < state.at

(* Rule 10: the processes whose start, placed on the server's clock by     *)
(* their age at their earliest heartbeat, is recent.                       *)
RecentStartsByRigClock(now, beats) ==
  Cardinality({run \in {beats[i].run : i \in DOMAIN beats} \ {None} :
                 \E i \in DOMAIN beats : beats[i].run = run /\ now - beats[i].started <= RestartWindow})

AgeAt(first) == (IF first.sent # None THEN first.sent ELSE first.at) - first.started

RecentStarts(now, beats) ==
  Cardinality({run \in {beats[i].run : i \in DOMAIN beats} \ {None} :
                 \E i \in DOMAIN beats : /\ beats[i].run = run
                                         /\ \A j \in 1..(i - 1) : beats[j].run # run
                                         /\ AgeAt(beats[i]) >= 0
                                         /\ now - (beats[i].at - AgeAt(beats[i])) <= RestartWindow})

(* Rule 6: refused sign-ins first reported inside the window, each once a  *)
(* process.                                                                *)
RefusalsWithin(now, beats, window) ==
  LET Fresh(i) == beats[i].refusals \ UNION {beats[j].refusals : j \in {k \in 1..(i - 1) : beats[k].run = beats[i].run}}
      inside == {i \in DOMAIN beats : beats[i].run # None /\ now - beats[i].at <= window}
  IN  Cardinality(UNION {{<<beats[i].run, seq>> : seq \in Fresh(i)} : i \in inside})

SignInFailures(s, r) ==
  LET beats == s.rigs[r].beats
  IN  \/ RefusalsWithin(s.now, beats, SignInFailureWindow) >= SignInFailuresToAlert
      \/ IsOpen(s, "sign_in_failures", Rig(r)) /\ RefusalsWithin(s.now, beats, SignInFailureClear) > 0

(* Rules 12, 17 and 18, on the last heartbeat that is no goodbye.          *)
Skew(live) == IF live.at >= live.sent THEN live.at - live.sent ELSE live.sent - live.at

HighSince(since, live, open) == since # None /\ (open \/ live.at - since >= FootprintFor)

RigProperties(s, r, live) ==
  When(live.sent # None
       /\ Skew(live) >= (IF IsOpen(s, "clock_skew", Rig(r)) THEN ClockSkewClear ELSE ClockSkewAlert),
       Finding("clock_skew", Rig(r), "urgent"))
  \cup When(\E attached \in {LastSent(s.rigs[r].beats, LAMBDA h : ~h.bye /\ SimConnected(h))} :
              IF attached # None THEN attached.missing ELSE IsOpen(s, "missing_variables", Rig(r)),
            Finding("missing_variables", Rig(r), "warning"))
  \cup When(live.memory \/ HighSince(HoldingSince(s.rigs[r].beats, live, LAMBDA h : h.cpu), live,
                                     IsOpen(s, "footprint_high", Rig(r))),
            Finding("footprint_high", Rig(r), "warning"))

(* Rule 11: every alert open on the rig holds while its build is outdated. *)
OutdatedAgent(s, r, state) ==
  LET naming == {alert[2] : alert \in {a \in s.open : a[1] = "agent_outdated" /\ FlapScope(a[2]) = Rig(r)}}
  IN  {Finding("agent_outdated", subject, "warning") :
         subject \in {outdated \in naming \cup When(Live(s.now, s.rigs[r].seen, state), Append(Rig(r), s.version)) :
                        state.version # s.version}}

(* What a standing goodbye leaves: the properties already reported.        *)
WhileRunning(s, r, state, properties) ==
  IF state.bye THEN {f \in properties : IsOpen(s, f.rule, Rig(r))}
  ELSE properties
       \cup When(/\ s.rigs[r].seat # None /\ ~SimConnected(state)
                 /\ state.at - Max({s.rigs[r].seat,
                                    HoldingSince(s.rigs[r].beats, state, LAMBDA h : ~SimConnected(h))})
                    >= SimDisconnectedAfter,
                 Finding("sim_disconnected", Rig(r), "urgent"))
       \cup When(state.fault, Finding("telemetry_faulted", Rig(r), "urgent"))
       \cup When(state.unsaved, Finding("checkout_not_saved", Rig(r), "warning"))

StateFindings(s, r, beats, state, live) ==
  When(state.parked > 0, [Finding("laps_refused", Rig(r), "urgent") EXCEPT !.level = state.parked])
  \cup When(LapsStuck(beats, state), Finding("laps_stuck", Rig(r), "urgent"))
  \cup When(RecentStarts(s.now, beats) >= RestartsToAlert, Finding("agent_restarting", Rig(r), "urgent"))
  \cup When(SignInFailures(s, r), Finding("sign_in_failures", Rig(r), "warning"))
  \cup OutdatedAgent(s, r, state)
  \cup WhileRunning(s, r, state, IF live = None THEN {} ELSE RigProperties(s, r, live))

ReportFindings(s, r) ==
  UNION {StateFindings(s, r, s.rigs[r].beats, state, LastSent(s.rigs[r].beats, LAMBDA h : ~h.bye)) :
           state \in {RigState(s.rigs[r].beats)} \ {None}}
-----------------------------------------------------------------------------
(* Rules 5a, 5b, 7, 13, 14: seats and stored laps.  A lap: id, rig, at,    *)
(* when the site stored it; driver, or None; combo, time, valid, reason    *)
(* and cause.                                                              *)

UnownedSince(now, mine, owned, window) ==
  Cardinality({i \in DOMAIN mine : /\ mine[i].cause = "nobody_checked_in"
                                   /\ \A at \in owned : mine[i].at > at
                                   /\ now - mine[i].at <= window})

UnattributedAmong(s, r, mine, owned) ==
  \/ UnownedSince(s.now, mine, owned, UnattributedWindow) >= UnattributedToAlert
  \/ IsOpen(s, "unattributed_laps", Rig(r)) /\ UnownedSince(s.now, mine, owned, UnattributedClear) > 0

UnattributedLaps(s, r) ==
  \E mine \in {SelectSeq(s.laps, LAMBDA lap : lap.rig = r)} :
    UnattributedAmong(s, r, mine, {mine[i].at : i \in {j \in DOMAIN mine : mine[j].driver # None}})

(* Rule 7: the newest definitive signal, a wrong one on a tie.             *)
SessionSignal(s, r, state, right) ==
  IF s.rigs[r].seat # None /\ Live(s.now, s.rigs[r].seen, state) /\ InSession(state) /\ state.sim # s.combo
  THEN {[at |-> state.at, from |-> "session", wrong |-> TRUE]}
  ELSE IF right # None THEN {[at |-> right.at, from |-> "session", wrong |-> FALSE]} ELSE {}

(* recent: which of the laps count, the latest the last.                   *)
LapSignals(laps, recent) ==
  When(/\ Cardinality(recent) >= ComboRejectedLaps
       /\ \A i \in recent : laps[i].reason = "combo" \/ Cardinality({j \in recent : j > i}) >= ComboRejectedLaps,
       [at |-> laps[Max(recent)].at, from |-> "laps", wrong |-> TRUE])
  \cup {[at |-> laps[i].at, from |-> "laps", wrong |-> FALSE] : i \in {j \in recent : laps[j].valid}}

ComboSignals(s, r) ==
  SessionSignal(s, r, RigState(s.rigs[r].beats), LastSent(s.rigs[r].beats, LAMBDA h : h.sim = s.combo))
  \cup LapSignals(s.laps, {i \in DOMAIN s.laps : s.laps[i].rig = r /\ s.now - s.laps[i].at <= ComboRejectedWindow})

Deciding(signals) == {g \in signals : g.wrong /\ \A other \in signals : other.at <= g.at}

WrongComboFinding(r, severity, deciding) ==
  [Finding("wrong_combo", Rig(r), severity) EXCEPT
     !.evidence = IF \E g \in deciding : g.from = "laps" THEN "laps" ELSE "session"]

UrgentIn(eventMode) == IF eventMode.on THEN "urgent" ELSE "warning"

WrongCombo(s, r) ==
  {WrongComboFinding(r, UrgentIn(EventMode(s)), deciding) :
     deciding \in {d \in {Deciding(ComboSignals(s, r))} :
                   d # {} /\ s.combo # None /\ (IsLive(s, r) \/ IsOpen(s, "wrong_combo", Rig(r)))}}

LongStints(s, r) ==
  When(/\ s.rigs[r].seat # None /\ s.now - s.rigs[r].seat > LongStint
       /\ IsLive(s, r) \/ IsOpen(s, "long_stint", Rig(r)),
       Finding("long_stint", Rig(r), "warning"))

SeatAndLapFindings(s, r) ==
  When(UnattributedLaps(s, r), Finding("unattributed_laps", Rig(r), UrgentIn(EventMode(s))))
  \cup LongStints(s, r) \cup WrongCombo(s, r)

(* Rule 13: the latest move off a rig that still races, for the window.    *)
StillRacing(state, move) == state # None /\ ~state.bye /\ state.at > move.at /\ InSession(state)

Latest(moves) == {move \in moves : \A other \in moves : other.from = move.from => other.at <= move.at}

DriverMoves(s) ==
  {Finding("driver_moved", Rig(move.from), "warning") :
     move \in {m \in Latest({move \in s.moves : s.now - move.at <= MoveWindow}) :
                 /\ s.rigs[m.from].seat = None
                 /\ \/ StillRacing(RigState(s.rigs[m.from].beats), m)
                    \/ IsOpen(s, "driver_moved", Rig(m.from))}}

(* Rule 14: far under the best of enough other drivers before it.          *)
Ranks(lap) == lap.valid /\ lap.driver # None

OthersBefore(s, lap) ==
  {[driver |-> best.driver, time |-> best.time] : best \in
     {b \in s.bests : b.combo = lap.combo /\ b.driver # lap.driver}
     \cup {other \in Range(s.laps) : /\ Ranks(other) /\ other.at < lap.at
                                     /\ other.combo = lap.combo /\ other.driver # lap.driver}}

FarUnder(lap, others) ==
  /\ Cardinality({best.driver : best \in others}) >= FastLapMinOthers
  /\ 100 * lap.time < FastLapPercent * Min({best.time : best \in others})

FastLaps(s) ==
  {Finding("fast_lap", Append(Rig(lap.rig), lap.id), "warning") :
     lap \in {l \in Range(s.laps) : Ranks(l) /\ FarUnder(l, OthersBefore(s, l))}}
-----------------------------------------------------------------------------
(* Rules 4, 8a and 8b: the venue and its boards.                           *)

NoFeaturedCombo(s) ==
  When(/\ s.combo = None
       /\ EventMode(s).on \/ \E r \in DOMAIN s.rigs : IsLive(s, r) /\ InSession(RigState(s.rigs[r].beats)),
       Finding("no_featured_combo", Venue, "urgent"))

Newest(displays) == {b \in displays : \A other \in displays : other.seen <= b.seen}

BoardFindings(s) ==
  {Finding("board_dark", Board(b.mode), "urgent") :
     b \in {n \in Newest(EventDisplays(s)) : /\ BoardState(n, s.now) = "dark"
                                             /\ EventMode(s) # [on |-> FALSE, cause |-> "override"]}}
  \cup {Finding("board_feed_failing", Board(b.mode), "urgent") :
          b \in {t \in BoardsToday(s) : BoardState(t, s.now) = "live" /\ t.failures >= FeedFailuresToAlert}}

EvaluateRules(s) ==
  Silence(s)
  \cup (UNION {ReportFindings(s, r) \cup SeatAndLapFindings(s, r) : r \in DOMAIN s.rigs})
  \cup DriverMoves(s) \cup FastLaps(s) \cup NoFeaturedCombo(s) \cup BoardFindings(s)
-----------------------------------------------------------------------------
(* What the staff page makes of it (rig-health.ts, flow.ts).  alerts are   *)
(* the open ones: rule, subject and the severity they stand at.            *)

IsFor(alert, f) == alert.rule = f.rule /\ alert.subject = f.subject

ShownFindings(findings, alerts) ==
  {IF \E a \in alerts : IsFor(a, f) /\ a.severity = "urgent" THEN [f EXCEPT !.severity = "urgent"] ELSE f :
     f \in findings}
  \cup {[Finding(a.rule, a.subject, a.severity) EXCEPT !.evidence = a.evidence] :
          a \in {o \in alerts : \A f \in findings : ~IsFor(o, f)}}

OnRig(findings, r) == {f \in findings : FlapScope(f.subject) = Rig(r)}

IsRunning(s, r) ==
  /\ s.rigs[r].seen # None /\ QuietFor(s, r) <= SilentAfter
  /\ ~SaidGoodbye(RigState(s.rigs[r].beats))

TileColour(s, r, mine) ==
  IF \E f \in mine : f.severity = "urgent" THEN "red-flashing"
  ELSE IF mine # {} THEN "red"
  ELSE IF ~IsRunning(s, r) THEN "grey"
  ELSE IF s.rigs[r].seat # None THEN "green" ELSE "yellow"

(* Where a finding is drawn: a node, an edge (0: none), a mark, or nowhere *)
(* on a lane.                                                              *)
At(node, edge) == [node |-> node, edge |-> edge, mark |-> "none"]
Marked(mark)   == [node |-> "none", edge |-> 0, mark |-> mark]

RulePlace ==
  [sim_disconnected |-> At("iracing", 1),  telemetry_faulted |-> At("iracing", 1),
   missing_variables |-> At("iracing", 1), driver_moved |-> At("iracing", 0),
   agent_restarting |-> At("agent", 0),    footprint_high |-> At("agent", 0),
   checkout_not_saved |-> At("agent", 0),  agent_outdated |-> At("agent", 0),
   sign_in_failures |-> At("agent", 0),    long_stint |-> At("agent", 0),
   rig_silent |-> At("agent", 2),          clock_skew |-> At("network", 2),
   laps_stuck |-> At("none", 3),           laps_refused |-> At("none", 3),
   unattributed_laps |-> Marked("feed"),   fast_lap |-> Marked("review"),
   venue_silent |-> At("none", 0),         no_featured_combo |-> At("feed", 5),
   board_dark |-> At("board", 6),          board_feed_failing |-> At("board", 6)]

PlaceOf(f) ==
  IF f.rule # "wrong_combo" THEN RulePlace[f.rule]
  ELSE IF f.evidence = "session" THEN At("iracing", 1) ELSE Marked("feed")

RigNodes == <<"iracing", "agent", "network">>

(* The worst finding on a part colours it.                                 *)
Coloured(found, base) ==
  IF \E f \in found : f.severity = "urgent" THEN "red" ELSE IF found # {} THEN "yellow" ELSE base

(* The edge drawn broken: the first red one, or else the first yellow one. *)
FirstBroken(colours) ==
  IF \E e \in DOMAIN colours : colours[e] = "red"
  THEN Min({e \in DOMAIN colours : colours[e] = "red"})
  ELSE IF \E e \in DOMAIN colours : colours[e] = "yellow"
  THEN Min({e \in DOMAIN colours : colours[e] = "yellow"}) ELSE 0

(* A chain of nodes, the edge e running into the node after the e-th.  A   *)
(* part is faded when it lies past a red edge and nothing was found on it. *)
FadedFindings(colours, broken, found) ==
  {p \in DOMAIN found : broken # 0 /\ colours[broken] = "red" /\ p > broken}

Faded(colours, broken, found) ==
  {p \in DOMAIN found : broken # 0 /\ colours[broken] = "red" /\ p > broken /\ found[p] = {}}

ChainBroken(found, foundOn, base, colours, broken) ==
  [nodes       |-> [i \in DOMAIN found |-> Coloured(found[i], base[i])],
   edges       |-> colours,
   broken      |-> broken,
   dimmedNodes |-> Faded(colours, broken, found),
   dimmedEdges |-> Faded(colours, broken, foundOn)]

ChainColoured(found, foundOn, base, colours) ==
  ChainBroken(found, foundOn, base, colours, FirstBroken(colours))

Chain(found, foundOn, base) ==
  ChainColoured(found, foundOn, base, [e \in DOMAIN foundOn |-> Coloured(foundOn[e], base[e])])

OnIf(running) == IF running THEN "green" ELSE "grey"

LaneBase(s, r, state) ==
  [i \in DOMAIN RigNodes |->
     OnIf(IsRunning(s, r) /\ (RigNodes[i] = "iracing" => state # None /\ SimConnected(state)))]

(* mine: the findings shown on the rig.                                    *)
Lane(s, r, mine) ==
  [chain |-> Chain([i \in DOMAIN RigNodes |-> {f \in mine : PlaceOf(f).node = RigNodes[i]}],
                   [e \in DOMAIN RigNodes |-> {f \in mine : PlaceOf(f).edge = e}],
                   LaneBase(s, r, RigState(s.rigs[r].beats))),
   marks |-> [m \in {"feed", "review"} |-> Coloured({f \in mine : PlaceOf(f).mark = m}, "none")]]
=============================================================================
