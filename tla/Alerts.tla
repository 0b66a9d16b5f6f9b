------------------------------- MODULE Alerts -------------------------------
(***************************************************************************)
(* The life of a monitor alert and of its posts to the venue's channel     *)
(* (lib/monitor/run.ts, lib/monitor/store.ts): the alerts of one rule on   *)
(* one rig, for the rules whose subject is the rig and whose alerts say so *)
(* when they recover.                                                      *)
(*                                                                         *)
(* Evaluations are one transaction each, one at a time.  What an           *)
(* evaluation won the right to post goes out after it commits, so a slow   *)
(* run is still posting while later ones evaluate, and any run may die.    *)
(* Time moves at any step, as long as no run outlasts RunFor.              *)
(***************************************************************************)
EXTENDS MonitorRuns, Integers, Sequences, FiniteSets

CONSTANTS
  Levels,             \* how bad a finding can be: severity and level as one scale
  EvaluationInterval, \* EVALUATION_INTERVAL
  ResolveAfterAbsent, \* RESOLVE_AFTER_ABSENT
  FlappingRefires,    \* FLAPPING_REFIRES
  FlappingWindow,     \* FLAPPING_WINDOW
  RunFor              \* how long a run can last before the platform stops it

ASSUME AlertsAssumption ==
  /\ Levels \subseteq Nat \ {0}
  /\ {EvaluationInterval, RunFor, RetryAfter, MaxAlerts, MaxTime, MaxFailures} \subseteq Nat
  /\ {ResolveAfterAbsent, RetryFor, FlappingRefires, FlappingWindow} \subseteq Nat \ {0}
  /\ RunFor < FlappingWindow
  /\ None \notin Nat

(* A run is what it won, still has to post, and has to record.             *)
VARIABLES
  lastEvaluated,  \* monitor_state.last_evaluated_at; 0: null
  channel         \* every message the channel has shown

vars == <<now, lastEvaluated, alerts, runs, channel, failures>>
-----------------------------------------------------------------------------
(* The row of an alert.  notified and recoveryNotified stand for           *)
(* notified_at and recovery_notified_at being set.                         *)
AlertRows == [level : Levels, opened : Nat, absent : Nat, resolved : Nat \cup {None},
              refires : Nat, notified : BOOLEAN, attempted : Nat, until : Nat,
              recoveryNotified : BOOLEAN, recoveryAttempted : Nat]

(* A message is an alert's opening at the level it had when it was read,   *)
(* the line that stands for it when it starts a mute, or its recovery.     *)
Messages == [id : Nat, kind : {"opening", "line", "recovery"}, level : Levels]

Stages == {"idle", "won", "posting", "retrying", "retryingRecoveries"}

RunStates == [at : Stages, started : Nat, announce : SUBSET Nat, recover : SUBSET Nat,
              queue : SUBSET Messages, sent : Messages \cup {None}]

Idle == [at |-> "idle", started |-> 0, announce |-> {}, recover |-> {}, queue |-> {}, sent |-> None]

TypeOK ==
  /\ now \in Nat
  /\ lastEvaluated \in Nat
  /\ alerts \in Seq(AlertRows)
  /\ runs \in [Runs -> RunStates]
  /\ channel \in SUBSET Messages
  /\ failures \in Nat

Init ==
  /\ now = 1
  /\ lastEvaluated = 0
  /\ alerts = <<>>
  /\ runs = [r \in Runs |-> Idle]
  /\ channel = {}
  /\ failures = 0

Tick ==
  /\ now < MaxTime
  /\ \A r \in Runs : runs[r].at # "idle" => now < runs[r].started + RunFor
  /\ now' = now + 1
  /\ UNCHANGED <<lastEvaluated, alerts, runs, channel, failures>>

-----------------------------------------------------------------------------
(* The rows.                                                               *)

Latest   == Len(alerts)
Standing == alerts # <<>> /\ alerts[Latest].resolved = None
Muted(a) == a.refires >= FlappingRefires /\ a.until > now + RetryFor

(* The openings the flapping window still counts, and the deadline of the  *)
(* mute they are in.                                                       *)
Earlier       == {i \in DOMAIN alerts : alerts[i].opened + FlappingWindow > now}
MuteDeadlines == {alerts[i].until : i \in {j \in Earlier : Muted(alerts[j])}}

Row(level, refires, attempted, until) ==
  [level |-> level, opened |-> now, absent |-> 0, resolved |-> None,
   refires |-> refires, notified |-> FALSE, attempted |-> attempted, until |-> until,
   recoveryNotified |-> FALSE, recoveryAttempted |-> 0]

(* moveSeverity, levelRose: a rise reopens the window of the opening's     *)
(* post, unless the alert is muted; anything else is recorded quietly.     *)
RisesEvenIfMuted(a, level) == level > a.level

Rises(a, level) == level > a.level /\ ~Muted(a)

Moved(a, level) ==
  IF Rises(a, level)
  THEN [a EXCEPT !.level = level, !.notified = FALSE, !.attempted = now,
                 !.until = now + RetryFor]
  ELSE [a EXCEPT !.level = level]

-----------------------------------------------------------------------------
(* The evaluation: one transaction under the lock of monitor_state.        *)

Claims(r, announce, recover) ==
  /\ runs[r].at = "idle"
  /\ lastEvaluated + EvaluationInterval < now
  /\ lastEvaluated' = now
  /\ runs' = [runs EXCEPT ![r] =
                [Idle EXCEPT !.started = now,
                             !.at = IF announce \cup recover = {} THEN "posting" ELSE "won",
                             !.announce = announce, !.recover = recover]]
  /\ UNCHANGED <<now, channel, failures>>

(* A finding whose alert is open.                                          *)
Persists(r, level) ==
  /\ Standing
  /\ Claims(r, IF Rises(alerts[Latest], level) THEN {Latest} ELSE {}, {})
  /\ alerts' = [alerts EXCEPT ![Latest] = [Moved(@, level) EXCEPT !.absent = 0]]

Inserts(r, row, announce) ==
  /\ ~Standing
  /\ Latest < MaxAlerts
  /\ Claims(r, announce, {})
  /\ alerts' = Append(alerts, row)

(* A finding without one: an opening of its own, the opening that starts a *)
(* mute, or one inside a mute, which is due when the mute ends.            *)
OpensAlone(r, level) ==
  /\ MuteDeadlines = {}
  /\ Cardinality(Earlier) < FlappingRefires
  /\ Inserts(r, Row(level, Cardinality(Earlier), now, now + RetryFor), {Latest + 1})

StartsMute(r, level) ==
  /\ MuteDeadlines = {}
  /\ Cardinality(Earlier) >= FlappingRefires
  /\ Inserts(r, Row(level, Cardinality(Earlier), now, now + FlappingWindow + RetryFor),
             {Latest + 1})

OpensMuted(r, level) ==
  \E deadline \in MuteDeadlines :
    /\ \A other \in MuteDeadlines : other <= deadline
    /\ LET refires == IF Cardinality(Earlier) > FlappingRefires THEN Cardinality(Earlier)
                      ELSE FlappingRefires
           due     == deadline - RetryFor
       IN Inserts(r, Row(level, refires, due, deadline),
                  IF due > now THEN {} ELSE {Latest + 1})

(* No finding: the open alert counts one more absence, and resolves at     *)
(* ResolveAfterAbsent of them.                                             *)
Absent(a) ==
  IF a.absent + 1 >= ResolveAfterAbsent
  THEN [a EXCEPT !.absent = @ + 1, !.resolved = now, !.recoveryAttempted = now]
  ELSE [a EXCEPT !.absent = @ + 1]

FindsItAbsent(r) ==
  /\ Standing
  /\ Claims(r, {}, IF Absent(alerts[Latest]).resolved # None /\ alerts[Latest].notified
                   THEN {Latest} ELSE {})
  /\ alerts' = [alerts EXCEPT ![Latest] = Absent(@)]

FindsNothing(r) ==
  /\ ~Standing
  /\ Claims(r, {}, {})
  /\ UNCHANGED alerts

-----------------------------------------------------------------------------
(* The posts: what the run won, then what earlier runs could not deliver.  *)

OpeningMessage(i) ==
  [id |-> i, kind |-> IF Muted(alerts[i]) THEN "line" ELSE "opening",
   level |-> alerts[i].level]

RecoveryMessage(i) == [id |-> i, kind |-> "recovery", level |-> alerts[i].level]

(* The run has posted and recorded all it had, and goes on to a stage.     *)
Enters(r, from, to, messages) ==
  /\ runs[r].at = from
  /\ runs[r].queue = {}
  /\ runs[r].sent = None
  /\ runs' = [runs EXCEPT ![r] = IF to = "idle" THEN Idle
                                  ELSE [@ EXCEPT !.at = to, !.queue = messages]]
  /\ UNCHANGED <<now, lastEvaluated, channel, failures>>

(* One evaluation wins an opening or a recovery of its rule and rig, never *)
(* both.  The rows are read after it commits.                              *)
ReadsWon(r) ==
  /\ runs[r].at = "won"
  /\ runs' = [runs EXCEPT ![r] =
                [Idle EXCEPT !.at = "posting", !.started = runs[r].started,
                             !.queue = {OpeningMessage(i) : i \in runs[r].announce}
                                         \cup {RecoveryMessage(i) : i \in runs[r].recover}]]
  /\ UNCHANGED <<now, lastEvaluated, alerts, channel, failures>>

(* An alert that closed inside its mute closed before its opening was due. *)
OpeningIsDueOnceClosed(a) ==
  /\ ~a.notified
  /\ a.attempted + RetryAfter < now
  /\ a.until > now

OpeningIsDue(a) ==
  /\ ~a.notified
  /\ a.attempted + RetryAfter < now
  /\ a.until > now
  /\ a.resolved = None \/ a.resolved + RetryFor >= a.until

RecoveryIsDueUntold(a) ==
  /\ a.resolved # None
  /\ ~a.recoveryNotified
  /\ a.recoveryAttempted + RetryAfter < now
  /\ a.resolved + RetryFor > now

RecoveryIsDue(a) ==
  /\ a.resolved # None
  /\ ~a.recoveryNotified
  /\ a.notified
  /\ a.recoveryAttempted + RetryAfter < now
  /\ a.resolved + RetryFor > now

ClaimsAnnounceRetries(r) ==
  LET due == {i \in DOMAIN alerts : OpeningIsDue(alerts[i])} IN
  /\ Enters(r, "posting", "retrying", {OpeningMessage(i) : i \in due})
  /\ alerts' = [i \in DOMAIN alerts |->
                  IF i \in due THEN [alerts[i] EXCEPT !.attempted = now] ELSE alerts[i]]

ClaimsRecoveryRetries(r) ==
  LET due == {i \in DOMAIN alerts : RecoveryIsDue(alerts[i])} IN
  /\ Enters(r, "retrying", IF due = {} THEN "idle" ELSE "retryingRecoveries",
            {RecoveryMessage(i) : i \in due})
  /\ alerts' = [i \in DOMAIN alerts |->
                  IF i \in due THEN [alerts[i] EXCEPT !.recoveryAttempted = now]
                  ELSE alerts[i]]

Finishes(r) ==
  /\ Enters(r, "retryingRecoveries", "idle", {})
  /\ UNCHANGED alerts

(* A post of deliver: Discord takes it and says so, or the post fails -    *)
(* refused, or shown without an answer in time.                            *)
Posts(r, m, sent) ==
  /\ runs[r].sent = None
  /\ m \in runs[r].queue
  /\ runs' = [runs EXCEPT ![r].queue = @ \ {m}, ![r].sent = sent]
  /\ UNCHANGED <<now, lastEvaluated, alerts>>

PostIsTaken(r, m) ==
  /\ Posts(r, m, m)
  /\ channel' = channel \cup {m}
  /\ UNCHANGED failures

Fails ==
  /\ failures < MaxFailures
  /\ failures' = failures + 1

PostTimesOut(r, m) ==
  /\ Posts(r, m, None)
  /\ channel' = channel \cup {m}
  /\ Fails

PostIsRefused(r, m) ==
  /\ Posts(r, m, None)
  /\ UNCHANGED channel
  /\ Fails

(* markAnnounced, markRecoveryAnnounced.  A flapping line only moves the   *)
(* next attempt to the end of the mute.                                    *)
Marked(a, m) ==
  CASE m.kind = "opening"  -> [a EXCEPT !.notified = TRUE]
    [] m.kind = "line"     -> [a EXCEPT !.attempted = a.until - RetryFor]
    [] m.kind = "recovery" -> [a EXCEPT !.recoveryNotified = TRUE]

Records(r) ==
  /\ runs[r].sent # None
  /\ alerts' = [alerts EXCEPT ![runs[r].sent.id] = Marked(@, runs[r].sent)]
  /\ runs' = [runs EXCEPT ![r].sent = None]
  /\ UNCHANGED <<now, lastEvaluated, channel, failures>>

(* The function the run is in stops, or a query of it fails.               *)
Dies(r) ==
  /\ runs[r].at # "idle"
  /\ runs' = [runs EXCEPT ![r] = Idle]
  /\ Fails
  /\ UNCHANGED <<now, lastEvaluated, alerts, channel>>

-----------------------------------------------------------------------------
Evaluates(r) ==
  \/ \E level \in Levels :
       Persists(r, level) \/ OpensAlone(r, level) \/ StartsMute(r, level) \/ OpensMuted(r, level)
  \/ FindsItAbsent(r) \/ FindsNothing(r)

Delivers(r) ==
  \/ ReadsWon(r) \/ ClaimsAnnounceRetries(r) \/ ClaimsRecoveryRetries(r)
  \/ Finishes(r)
  \/ \E m \in runs[r].queue : PostIsTaken(r, m) \/ PostTimesOut(r, m) \/ PostIsRefused(r, m)
  \/ Records(r)

Next ==
  \/ Tick
  \/ \E r \in Runs : Evaluates(r) \/ Delivers(r) \/ Dies(r)

Spec == Init /\ [][Next]_vars

-----------------------------------------------------------------------------
(* Properties.                                                             *)

Shown(i, kind) == \E m \in channel : m.id = i /\ m.kind = kind

(* A recovery is only ever shown for an alert whose opening was: one that  *)
(* came and went while Discord was down never arrives as a lone recovery.  *)
NoLoneRecovery ==
  \A m \in channel : m.kind = "recovery" => Shown(m.id, "opening")

(* Whatever opens while a mute lasts joins it: the muted alerts share one  *)
(* deadline, so that the mute ends once, an hour after its line.           *)
MutesShareADeadline ==
  \A i, j \in DOMAIN alerts :
    Muted(alerts[i]) /\ Muted(alerts[j]) => alerts[i].until = alerts[j].until

(* A mute holds what it holds until it ends: while an alert is muted its   *)
(* deadline stands, rises and retries included, and neither its opening    *)
(* nor its recovery is shown.                                              *)
MuteHolds ==
  [][\A i \in DOMAIN alerts : Muted(alerts[i]) =>
       /\ alerts'[i].until = alerts[i].until
       /\ \A m \in channel' \ channel : m.id = i => m.kind = "line"]_vars

(* An alert that closed inside its mute is never shown after it.           *)
ClosedInsideMute(a) ==
  a.refires >= FlappingRefires /\ a.resolved # None /\ a.resolved + RetryFor < a.until

ClosedInMuteStaysQuiet ==
  \A i \in DOMAIN alerts : ClosedInsideMute(alerts[i]) =>
    ~Shown(i, "opening") /\ ~Shown(i, "recovery")
=============================================================================
