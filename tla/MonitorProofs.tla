---------------------------- MODULE MonitorProofs -----------------------------
(***************************************************************************)
(* Proofs about the rig monitor, for any windows, levels and number of     *)
(* runs.                                                                   *)
(*                                                                         *)
(* Of Alerts: no recovery without its opening, one deadline to a mute, and *)
(* nothing of a muted alert shown but its line.  An alert that is neither  *)
(* muted nor closed inside its mute (Free) stays so, because only a rise   *)
(* moves a deadline, and it moves it to where no mute is.  Whatever a run  *)
(* won, queued or posted of a Free alert is therefore still right when it  *)
(* is shown or recorded.  That the opening of a mute is read before the    *)
(* mute ends rests on RunFor < FlappingWindow.                             *)
(*                                                                         *)
(* Of Issues (from ToFile on): one issue to a fault, an alert named once,  *)
(* and a recovery the last word on what was known of.  A run is done with  *)
(* its diagnoses and its recoveries before they can be claimed again, so   *)
(* what it claimed is its own; the lock of a rule belongs to the one run that      *)
(* files its alerts, so what it found of them is still so when it acts     *)
(* (FilingSound); and an alert that nothing files any more (Settled) stays *)
(* so, which is what a comment that all is over rests on.                  *)
(***************************************************************************)
EXTENDS Alerts, Issues, FiniteSetTheorems, WellFoundedInduction, TLAPS

Free(a) == ~Muted(a) /\ ~ClosedInsideMute(a)

(* A deadline leaves room for the retries, and a mute is one window long.  *)
RowSound(i) ==
  /\ alerts[i].until >= RetryFor
  /\ alerts[i].opened <= now
  /\ Muted(alerts[i]) => alerts[i].until <= alerts[i].opened + FlappingWindow + RetryFor
  /\ alerts[i].notified => Free(alerts[i]) /\ Shown(i, "opening")

MessageSound(m) ==
  /\ m.id \in DOMAIN alerts
  /\ m.kind # "line" => Free(alerts[m.id])
  /\ m.kind = "recovery" => Shown(m.id, "opening")

(* An opening a run won was below the flapping limit, starts a mute that   *)
(* outlasts the run, or is a rise.                                         *)
WonOpening(r, i) ==
  /\ i \in DOMAIN alerts
  /\ \/ alerts[i].refires < FlappingRefires
     \/ alerts[i].until >= runs[r].started + FlappingWindow + RetryFor
     \/ Free(alerts[i])

WonRecovery(i) ==
  /\ i \in DOMAIN alerts
  /\ Free(alerts[i])
  /\ Shown(i, "opening")

RunSound(r) ==
  /\ runs[r].at # "idle" => now <= runs[r].started + RunFor
  /\ \A i \in runs[r].announce : WonOpening(r, i)
  /\ \A i \in runs[r].recover : WonRecovery(i)
  /\ \A m \in runs[r].queue : MessageSound(m)
  /\ runs[r].sent # None => runs[r].sent \in channel

IInv ==
  /\ TypeOK
  /\ MutesShareADeadline
  /\ \A i \in DOMAIN alerts : RowSound(i)
  /\ \A m \in channel : MessageSound(m)
  /\ \A r \in Runs : RunSound(r)

-----------------------------------------------------------------------------
(* What any step does to the rows.                                         *)

(* A row keeps its past: it may be rewritten in place, close, or, unmuted  *)
(* and open, be given a deadline of one retry window.                      *)
Grows(a, b) ==
  /\ b.refires = a.refires
  /\ b.opened = a.opened
  /\ \/ b.until = a.until /\ b.resolved = a.resolved
     \/ b.until = a.until /\ a.resolved = None /\ b.resolved = now
     \/ ~Muted(a) /\ b.until = now + RetryFor /\ b.resolved = None

Evolves ==
  /\ DOMAIN alerts \subseteq DOMAIN alerts'
  /\ \A i \in DOMAIN alerts : Grows(alerts[i], alerts'[i])
  /\ channel \subseteq channel'
  /\ now' = now \/ now' = now + 1

LEMMA Windows ==
  /\ RunFor \in Nat
  /\ RetryFor \in Nat /\ RetryFor > 0
  /\ FlappingWindow \in Nat /\ FlappingWindow > RunFor
  /\ FlappingRefires \in Nat
  /\ None \notin Nat
BY AlertsAssumption

LEMMA EarlierIsCounted ==
  ASSUME TypeOK PROVE Cardinality(Earlier) \in Nat
<1>1. Earlier \subseteq 1..Len(alerts)
  BY DEF Earlier, TypeOK
<1>2. IsFiniteSet(1..Len(alerts))
  BY FS_Interval DEF TypeOK
<1> QED BY <1>1, <1>2, FS_Subset, FS_CardinalityType

LEMMA RowIsTyped ==
  ASSUME TypeOK, NEW level \in Levels, NEW refires \in Nat, NEW attempted \in Nat,
         NEW until \in Nat
  PROVE  Row(level, refires, attempted, until) \in AlertRows
BY DEF Row, AlertRows, TypeOK

LEMMA DeadlinesLieAhead ==
  ASSUME TypeOK, NEW deadline \in MuteDeadlines
  PROVE  /\ deadline \in Nat
         /\ deadline - RetryFor \in Nat
         /\ deadline - RetryFor > now
<1>1. PICK i \in DOMAIN alerts : Muted(alerts[i]) /\ deadline = alerts[i].until
  BY DEF MuteDeadlines, Earlier
<1>2. alerts[i] \in AlertRows
  BY DEF TypeOK
<1>3. now \in Nat /\ alerts[i].until \in Nat
  BY <1>2 DEF AlertRows, TypeOK
<1> QED BY <1>1, <1>3, Windows DEF Muted

LEMMA MovedGrows ==
  ASSUME TypeOK, NEW a \in AlertRows, NEW level \in Levels, a.resolved = None
  PROVE  LET b == [Moved(a, level) EXCEPT !.absent = 0] IN
         /\ b \in AlertRows
         /\ Grows(a, b)
         /\ b.resolved = None
         /\ Rises(a, level) => b.until = now + RetryFor
         /\ b.notified => a.notified
<1>1. now \in Nat /\ now + RetryFor \in Nat
  BY Windows DEF TypeOK
<1>2. CASE Rises(a, level)
  BY <1>1, <1>2 DEF Moved, Rises, Grows, AlertRows
<1>3. CASE ~Rises(a, level)
  BY <1>3 DEF Moved, Grows, AlertRows
<1> QED BY <1>2, <1>3

LEMMA AbsentGrows ==
  ASSUME TypeOK, NEW a \in AlertRows, a.resolved = None
  PROVE  /\ Absent(a) \in AlertRows
         /\ Grows(a, Absent(a))
         /\ Absent(a).notified = a.notified
         /\ Absent(a).until = a.until
<1>1. now \in Nat /\ a.absent + 1 \in Nat
  BY DEF AlertRows, TypeOK
<1>2. CASE a.absent + 1 >= ResolveAfterAbsent
  <2> DEFINE b == [a EXCEPT !.absent = a.absent + 1, !.resolved = now,
                            !.recoveryAttempted = now]
  <2>1. Absent(a) = b
    BY <1>2 DEF Absent
  <2>2. b \in AlertRows
    BY <1>1 DEF AlertRows
  <2>3. b.refires = a.refires /\ b.opened = a.opened /\ b.until = a.until
        /\ b.notified = a.notified /\ b.resolved = now
    BY DEF AlertRows
  <2> HIDE DEF b
  <2> QED BY <2>1, <2>2, <2>3 DEF Grows
<1>3. CASE ~(a.absent + 1 >= ResolveAfterAbsent)
  BY <1>1, <1>3 DEF Absent, Grows, AlertRows
<1> QED BY <1>2, <1>3

LEMMA MarkedGrows ==
  ASSUME TypeOK, NEW a \in AlertRows, NEW m \in Messages, a.until >= RetryFor
  PROVE  /\ Marked(a, m) \in AlertRows
         /\ Grows(a, Marked(a, m))
         /\ Marked(a, m).until = a.until
         /\ Marked(a, m).notified => a.notified \/ m.kind = "opening"
<1>1. a.until - RetryFor \in Nat
  BY Windows DEF AlertRows
<1>2. m.kind \in {"opening", "line", "recovery"}
  BY DEF Messages
<1>3. CASE m.kind = "opening"
  BY <1>3 DEF Marked, Grows, AlertRows
<1>4. CASE m.kind = "line"
  BY <1>1, <1>4 DEF Marked, Grows, AlertRows
<1>5. CASE m.kind = "recovery"
  BY <1>5 DEF Marked, Grows, AlertRows
<1> QED BY <1>2, <1>3, <1>4, <1>5

LEMMA RunIdles == Idle \in RunStates
BY Windows DEF Idle, RunStates, Stages

LEMMA UnchangedGrows ==
  ASSUME UNCHANGED alerts PROVE \A i \in DOMAIN alerts : Grows(alerts[i], alerts'[i])
BY DEF Grows

(* One row is rewritten.                                                   *)
LEMMA OneRowGrows ==
  ASSUME TypeOK, NEW i \in DOMAIN alerts, NEW b \in AlertRows, Grows(alerts[i], b),
         alerts' = [alerts EXCEPT ![i] = b]
  PROVE  /\ alerts' \in Seq(AlertRows)
         /\ DOMAIN alerts' = DOMAIN alerts
         /\ alerts'[i] = b
         /\ \A j \in DOMAIN alerts : j # i => alerts'[j] = alerts[j]
         /\ \A j \in DOMAIN alerts : Grows(alerts[j], alerts'[j])
<1>1. alerts \in Seq(AlertRows)
  BY DEF TypeOK
<1>2. /\ alerts' \in Seq(AlertRows)
      /\ DOMAIN alerts' = DOMAIN alerts
      /\ alerts'[i] = b
      /\ \A j \in DOMAIN alerts : j # i => alerts'[j] = alerts[j]
  BY <1>1
<1> QED BY <1>2 DEF Grows

(* One row is added.                                                       *)
LEMMA OneMoreRow ==
  ASSUME TypeOK, NEW row \in AlertRows, alerts' = Append(alerts, row)
  PROVE  /\ alerts' \in Seq(AlertRows)
         /\ Latest \in Nat
         /\ DOMAIN alerts' = DOMAIN alerts \cup {Latest + 1}
         /\ Latest + 1 \notin DOMAIN alerts
         /\ alerts'[Latest + 1] = row
         /\ \A j \in DOMAIN alerts : alerts'[j] = alerts[j]
         /\ \A j \in DOMAIN alerts : Grows(alerts[j], alerts'[j])
<1>1. alerts \in Seq(AlertRows)
  BY DEF TypeOK
<1>2. /\ alerts' \in Seq(AlertRows)
      /\ Latest \in Nat
      /\ DOMAIN alerts' = DOMAIN alerts \cup {Latest + 1}
      /\ Latest + 1 \notin DOMAIN alerts
      /\ alerts'[Latest + 1] = row
      /\ \A j \in DOMAIN alerts : alerts'[j] = alerts[j]
  BY <1>1 DEF Latest
<1> QED BY <1>2 DEF Grows

(* The claim of an evaluation begins a run and touches no other.           *)
LEMMA ClaimBeginsARun ==
  ASSUME TypeOK, NEW r \in Runs, NEW announce \in SUBSET Nat, NEW recover \in SUBSET Nat,
         Claims(r, announce, recover)
  PROVE  /\ now' = now /\ channel' = channel /\ failures' = failures
         /\ lastEvaluated' \in Nat
         /\ runs' \in [Runs -> RunStates]
         /\ runs'[r].started = now
         /\ runs'[r].announce = announce
         /\ runs'[r].recover = recover
         /\ runs'[r].queue = {}
         /\ runs'[r].sent = None
         /\ \A q \in Runs \ {r} : runs'[q] = runs[q]
<1> DEFINE run == [Idle EXCEPT !.started = now,
                               !.at = IF announce \cup recover = {} THEN "posting" ELSE "won",
                               !.announce = announce, !.recover = recover]
<1>1. now \in Nat /\ runs \in [Runs -> RunStates]
  BY DEF TypeOK
<1>2. run \in RunStates
  BY <1>1, Windows DEF RunStates, Stages, Idle
<1>3. runs' = [runs EXCEPT ![r] = run]
  BY DEF Claims
<1>4. /\ run.started = now /\ run.announce = announce /\ run.recover = recover
      /\ run.queue = {} /\ run.sent = None
  BY DEF Idle
<1> HIDE DEF run
<1>5. runs' \in [Runs -> RunStates] /\ runs'[r] = run /\ \A q \in Runs \ {r} : runs'[q] = runs[q]
  BY <1>1, <1>2, <1>3
<1> QED BY <1>1, <1>4, <1>5 DEF Claims

(* A run that enters a stage has its messages to post and nothing else.    *)
LEMMA EntersAStage ==
  ASSUME TypeOK, NEW r \in Runs, NEW from \in Stages \ {"idle"}, NEW to \in Stages,
         NEW messages \in SUBSET Messages, Enters(r, from, to, messages)
  PROVE  /\ now' = now /\ channel' = channel /\ failures' = failures
         /\ lastEvaluated' = lastEvaluated
         /\ runs' \in [Runs -> RunStates]
         /\ runs'[r].at # "idle" => runs[r].at # "idle" /\ runs'[r].started = runs[r].started
         /\ runs'[r].announce \subseteq runs[r].announce
         /\ runs'[r].announce # {} => runs'[r].started = runs[r].started
         /\ runs'[r].recover \subseteq runs[r].recover
         /\ runs'[r].queue \subseteq messages
         /\ runs'[r].sent = None
         /\ \A q \in Runs \ {r} : runs'[q] = runs[q]
<1>1. runs \in [Runs -> RunStates] /\ runs[r] \in RunStates
  BY DEF TypeOK
<1>2. CASE to = "idle"
  <2>1. runs' = [runs EXCEPT ![r] = Idle]
    BY <1>2 DEF Enters
  <2>2. runs' \in [Runs -> RunStates] /\ runs'[r] = Idle /\ \A q \in Runs \ {r} : runs'[q] = runs[q]
    BY <1>1, <2>1, RunIdles
  <2> QED BY <2>2 DEF Enters, Idle
<1>3. CASE to # "idle"
  <2> DEFINE run == [runs[r] EXCEPT !.at = to, !.queue = messages]
  <2>1. runs' = [runs EXCEPT ![r] = run]
    BY <1>3 DEF Enters
  <2>2. run \in RunStates /\ run.queue = messages /\ run.sent = runs[r].sent
        /\ run.announce = runs[r].announce /\ run.recover = runs[r].recover
        /\ run.started = runs[r].started
    BY <1>1 DEF RunStates
  <2> HIDE DEF run
  <2>3. runs' \in [Runs -> RunStates] /\ runs'[r] = run /\ \A q \in Runs \ {r} : runs'[q] = runs[q]
    BY <1>1, <2>1, <2>2
  <2> QED BY <2>2, <2>3 DEF Enters
<1> QED BY <1>2, <1>3

-----------------------------------------------------------------------------
(* What lasts through any step.                                            *)

LEMMA RowsAreTyped ==
  ASSUME TypeOK, NEW i \in DOMAIN alerts
  PROVE  /\ alerts[i] \in AlertRows
         /\ i \in Nat
         /\ now \in Nat
         /\ alerts[i].opened \in Nat
         /\ alerts[i].until \in Nat
         /\ alerts[i].refires \in Nat
         /\ alerts[i].resolved \in Nat \cup {None}
<1>1. alerts[i] \in AlertRows /\ i \in Nat /\ now \in Nat
  BY DEF TypeOK
<1> QED BY <1>1 DEF AlertRows

LEMMA FreeLasts ==
  ASSUME TypeOK, Evolves, NEW i \in DOMAIN alerts, Free(alerts[i])
  PROVE  Free(alerts[i])'
<1>1. Grows(alerts[i], alerts'[i]) /\ now \in Nat /\ now' \in Nat /\ now' >= now
  BY DEF Evolves, TypeOK
<1> QED BY <1>1, RowsAreTyped, Windows DEF Free, Grows, Muted, ClosedInsideMute

(* No step mutes an alert, nor moves the deadline of a muted one.          *)
LEMMA MutesAreOld ==
  ASSUME TypeOK, Evolves, NEW i \in DOMAIN alerts, Muted(alerts[i])'
  PROVE  Muted(alerts[i]) /\ alerts'[i].until = alerts[i].until
<1>1. Grows(alerts[i], alerts'[i]) /\ now \in Nat /\ now' \in Nat /\ now' >= now
  BY DEF Evolves, TypeOK
<1> QED BY <1>1, RowsAreTyped, Windows DEF Grows, Muted

LEMMA MutedKeepsItsDeadline ==
  ASSUME TypeOK, Evolves, NEW i \in DOMAIN alerts, Muted(alerts[i])
  PROVE  alerts'[i].until = alerts[i].until
BY DEF Evolves, Grows

LEMMA ShownLasts ==
  ASSUME Evolves, NEW i, NEW kind, Shown(i, kind) PROVE Shown(i, kind)'
BY DEF Evolves, Shown

LEMMA MessageLasts ==
  ASSUME TypeOK, Evolves, NEW m, MessageSound(m) PROVE MessageSound(m)'
BY FreeLasts, ShownLasts DEF MessageSound, Evolves

LEMMA RecoveryLasts ==
  ASSUME TypeOK, Evolves, NEW i, WonRecovery(i) PROVE WonRecovery(i)'
BY FreeLasts, ShownLasts DEF WonRecovery, Evolves

LEMMA OpeningLasts ==
  ASSUME TypeOK, Evolves, NEW r \in Runs, NEW i, WonOpening(r, i),
         runs'[r].started = runs[r].started
  PROVE  WonOpening(r, i)'
<1>1. i \in DOMAIN alerts /\ i \in DOMAIN alerts' /\ Grows(alerts[i], alerts'[i])
  BY DEF WonOpening, Evolves
<1>2. CASE Free(alerts[i])
  BY <1>1, <1>2, FreeLasts DEF WonOpening
<1>3. CASE ~Free(alerts[i])
  <2>1. CASE alerts'[i].until = alerts[i].until
    BY <1>1, <1>3, <2>1 DEF WonOpening, Grows
  <2>2. CASE alerts'[i].until # alerts[i].until
    <3>1. now \in Nat /\ now' \in Nat /\ now' >= now
      BY DEF Evolves, TypeOK
    <3>2. ~Muted(alerts[i])' /\ alerts'[i].resolved = None
      BY <1>1, <2>2, <3>1, RowsAreTyped, Windows DEF Grows, Muted
    <3> QED BY <1>1, <3>2 DEF WonOpening, Free, ClosedInsideMute
  <2> QED BY <2>1, <2>2
<1> QED BY <1>2, <1>3

LEMMA RowLasts ==
  ASSUME TypeOK, Evolves, NEW i \in DOMAIN alerts, RowSound(i),
         alerts'[i].notified => \/ alerts[i].notified
                                \/ Free(alerts[i]) /\ Shown(i, "opening")
  PROVE  RowSound(i)'
<1>1. Grows(alerts[i], alerts'[i]) /\ now \in Nat /\ now' \in Nat /\ now' >= now
  BY DEF Evolves, TypeOK
<1>2. (alerts[i].until >= RetryFor /\ alerts[i].opened <= now)'
  BY <1>1, RowsAreTyped, Windows DEF RowSound, Grows
<1>3. (Muted(alerts[i]) => alerts[i].until <= alerts[i].opened + FlappingWindow + RetryFor)'
  BY <1>1, MutesAreOld DEF RowSound, Grows
<1>4. (alerts[i].notified => Free(alerts[i]) /\ Shown(i, "opening"))'
  BY FreeLasts, ShownLasts DEF RowSound
<1> QED BY <1>2, <1>3, <1>4 DEF RowSound

LEMMA RunLasts ==
  ASSUME TypeOK, Evolves, NEW r \in Runs, RunSound(r), runs'[r] = runs[r],
         runs[r].at # "idle" => now' <= runs[r].started + RunFor
  PROVE  RunSound(r)'
<1>1. (\A i \in runs[r].announce : WonOpening(r, i))'
  BY OpeningLasts DEF RunSound
<1>2. (\A i \in runs[r].recover : WonRecovery(i))'
  BY RecoveryLasts DEF RunSound
<1>3. (\A m \in runs[r].queue : MessageSound(m))'
  BY MessageLasts DEF RunSound
<1>4. (runs[r].sent # None => runs[r].sent \in channel)'
  BY DEF RunSound, Evolves
<1> QED BY <1>1, <1>2, <1>3, <1>4 DEF RunSound

LEMMA SameMutes ==
  ASSUME IInv, Evolves, DOMAIN alerts' = DOMAIN alerts PROVE MutesShareADeadline'
<1>1. SUFFICES ASSUME NEW i \in DOMAIN alerts, NEW j \in DOMAIN alerts,
                      Muted(alerts[i])', Muted(alerts[j])'
               PROVE  alerts'[i].until = alerts'[j].until
  BY DEF MutesShareADeadline
<1> QED BY <1>1, MutesAreOld DEF IInv, MutesShareADeadline

(* A step of a run keeps the invariant if what it makes anew is sound.     *)
LEMMA RunStep ==
  ASSUME IInv, TypeOK', Evolves, now' = now, MutesShareADeadline',
         NEW r \in Runs, RunSound(r)', \A q \in Runs \ {r} : runs'[q] = runs[q],
         \A i \in DOMAIN alerts' :
           \/ i \in DOMAIN alerts /\ (alerts'[i].notified => alerts[i].notified)
           \/ RowSound(i)',
         \A m \in channel' : m \in channel \/ MessageSound(m)'
  PROVE  IInv'
<1>1. \A i \in DOMAIN alerts' : RowSound(i)'
  BY RowLasts DEF IInv
<1>2. \A m \in channel' : MessageSound(m)'
  BY MessageLasts DEF IInv
<1>3. ASSUME NEW q \in Runs \ {r} PROVE RunSound(q)'
  <2>1. RunSound(q) /\ (runs[q].at # "idle" => now' <= runs[q].started + RunFor)
    BY DEF IInv, RunSound
  <2> QED BY <2>1, RunLasts DEF IInv
<1> QED BY <1>1, <1>2, <1>3 DEF IInv

-----------------------------------------------------------------------------
(* The evaluation.                                                         *)

LEMMA StandingIsLast ==
  ASSUME TypeOK, Standing
  PROVE  /\ Latest \in DOMAIN alerts
         /\ Latest \in Nat
         /\ alerts[Latest] \in AlertRows
         /\ alerts[Latest].resolved = None
<1>1. alerts \in Seq(AlertRows) /\ alerts # <<>>
  BY DEF TypeOK, Standing
<1>2. Latest \in DOMAIN alerts /\ Latest \in Nat
  BY <1>1 DEF Latest
<1> QED BY <1>1, <1>2 DEF Standing

LEMMA PersistsKeeps ==
  ASSUME IInv, NEW r \in Runs, NEW level \in Levels, Persists(r, level) PROVE IInv'
<1> DEFINE a == alerts[Latest]
           b == [Moved(a, level) EXCEPT !.absent = 0]
           announce == IF Rises(a, level) THEN {Latest} ELSE {}
<1>1. TypeOK
  BY DEF IInv
<1>2. Latest \in DOMAIN alerts /\ Latest \in Nat /\ a \in AlertRows /\ a.resolved = None
  BY <1>1, StandingIsLast DEF Persists
<1>3. /\ b \in AlertRows /\ Grows(a, b) /\ b.resolved = None
      /\ Rises(a, level) => b.until = now + RetryFor
      /\ b.notified => a.notified
  BY <1>1, <1>2, MovedGrows
<1>4. alerts' = [alerts EXCEPT ![Latest] = b]
  BY DEF Persists
<1>5. Claims(r, announce, {}) /\ announce \in SUBSET Nat /\ {} \in SUBSET Nat
  BY <1>2 DEF Persists
<1> HIDE DEF b
<1>6. /\ alerts' \in Seq(AlertRows)
      /\ DOMAIN alerts' = DOMAIN alerts
      /\ alerts'[Latest] = b
      /\ \A j \in DOMAIN alerts : j # Latest => alerts'[j] = alerts[j]
      /\ \A j \in DOMAIN alerts : Grows(alerts[j], alerts'[j])
  BY <1>1, <1>2, <1>3, <1>4, OneRowGrows
<1>7. /\ now' = now /\ channel' = channel /\ failures' = failures
      /\ lastEvaluated' \in Nat
      /\ runs' \in [Runs -> RunStates]
      /\ runs'[r].started = now
      /\ runs'[r].announce = announce /\ runs'[r].recover = {}
      /\ runs'[r].queue = {} /\ runs'[r].sent = None
      /\ \A q \in Runs \ {r} : runs'[q] = runs[q]
  <2> HIDE DEF announce
  <2> QED BY <1>1, <1>5, ClaimBeginsARun
<1>8. TypeOK'
  BY <1>1, <1>6, <1>7 DEF TypeOK
<1>9. Evolves
  BY <1>6, <1>7 DEF Evolves
<1>10. \A i \in announce : WonOpening(r, i)'
  BY <1>2, <1>3, <1>6, <1>7, <1>1, Windows
  DEF WonOpening, Free, Muted, ClosedInsideMute, TypeOK
<1>11. RunSound(r)'
  BY <1>1, <1>7, <1>10, Windows DEF RunSound, TypeOK
<1>12. \A i \in DOMAIN alerts : alerts'[i].notified => alerts[i].notified
  BY <1>3, <1>6
<1>13. MutesShareADeadline'
  BY <1>6, <1>9, SameMutes
<1> QED BY <1>6, <1>7, <1>8, <1>9, <1>11, <1>12, <1>13, RunStep

LEMMA FindsItAbsentKeeps ==
  ASSUME IInv, NEW r \in Runs, FindsItAbsent(r) PROVE IInv'
<1> DEFINE a == alerts[Latest]
           b == Absent(a)
           recover == IF b.resolved # None /\ a.notified THEN {Latest} ELSE {}
<1>1. TypeOK
  BY DEF IInv
<1>2. Latest \in DOMAIN alerts /\ Latest \in Nat /\ a \in AlertRows /\ a.resolved = None
  BY <1>1, StandingIsLast DEF FindsItAbsent
<1>3. b \in AlertRows /\ Grows(a, b) /\ b.notified = a.notified
  BY <1>1, <1>2, AbsentGrows
<1>4. alerts' = [alerts EXCEPT ![Latest] = b]
  BY DEF FindsItAbsent
<1>5. Claims(r, {}, recover) /\ recover \in SUBSET Nat /\ {} \in SUBSET Nat
  BY <1>2 DEF FindsItAbsent
<1> HIDE DEF b
<1>6. /\ alerts' \in Seq(AlertRows)
      /\ DOMAIN alerts' = DOMAIN alerts
      /\ alerts'[Latest] = b
      /\ \A j \in DOMAIN alerts : j # Latest => alerts'[j] = alerts[j]
      /\ \A j \in DOMAIN alerts : Grows(alerts[j], alerts'[j])
  BY <1>1, <1>2, <1>3, <1>4, OneRowGrows
<1>7. /\ now' = now /\ channel' = channel /\ failures' = failures
      /\ lastEvaluated' \in Nat
      /\ runs' \in [Runs -> RunStates]
      /\ runs'[r].started = now
      /\ runs'[r].announce = {} /\ runs'[r].recover = recover
      /\ runs'[r].queue = {} /\ runs'[r].sent = None
      /\ \A q \in Runs \ {r} : runs'[q] = runs[q]
  <2> HIDE DEF recover
  <2> QED BY <1>1, <1>5, ClaimBeginsARun
<1>8. TypeOK'
  BY <1>1, <1>6, <1>7 DEF TypeOK
<1>9. Evolves
  BY <1>6, <1>7 DEF Evolves
<1>10. \A i \in recover : WonRecovery(i)
  BY <1>2 DEF IInv, RowSound, WonRecovery
<1>11. RunSound(r)'
  <2>1. \A i \in recover : WonRecovery(i)'
    BY <1>1, <1>9, <1>10, RecoveryLasts
  <2> QED BY <1>1, <1>7, <2>1, Windows DEF RunSound, TypeOK
<1>12. \A i \in DOMAIN alerts : alerts'[i].notified => alerts[i].notified
  BY <1>3, <1>6
<1>13. MutesShareADeadline'
  BY <1>6, <1>9, SameMutes
<1> QED BY <1>6, <1>7, <1>8, <1>9, <1>11, <1>12, <1>13, RunStep

LEMMA FindsNothingKeeps ==
  ASSUME IInv, NEW r \in Runs, FindsNothing(r) PROVE IInv'
<1>1. TypeOK /\ alerts' = alerts /\ Claims(r, {}, {}) /\ {} \in SUBSET Nat
  BY DEF IInv, FindsNothing
<1>2. /\ now' = now /\ channel' = channel /\ failures' = failures
      /\ lastEvaluated' \in Nat
      /\ runs' \in [Runs -> RunStates]
      /\ runs'[r].started = now
      /\ runs'[r].announce = {} /\ runs'[r].recover = {}
      /\ runs'[r].queue = {} /\ runs'[r].sent = None
      /\ \A q \in Runs \ {r} : runs'[q] = runs[q]
  BY <1>1, ClaimBeginsARun
<1>3. TypeOK'
  BY <1>1, <1>2 DEF TypeOK
<1>4. Evolves
  BY <1>1, <1>2, UnchangedGrows DEF Evolves
<1>5. RunSound(r)'
  BY <1>1, <1>2, Windows DEF RunSound, TypeOK
<1>6. MutesShareADeadline'
  BY <1>1, <1>4, SameMutes
<1> QED BY <1>1, <1>2, <1>3, <1>4, <1>5, <1>6, RunStep

(* Without a mute's deadline in the window nothing is muted.               *)
LEMMA NothingIsMuted ==
  ASSUME IInv, MuteDeadlines = {}, NEW i \in DOMAIN alerts PROVE ~Muted(alerts[i])
<1>1. SUFFICES ASSUME Muted(alerts[i]) PROVE FALSE
  OBVIOUS
<1>2. alerts[i].opened + FlappingWindow > now
  BY <1>1, RowsAreTyped, Windows DEF IInv, RowSound, Muted
<1> QED BY <1>1, <1>2 DEF MuteDeadlines, Earlier

LEMMA InsertKeeps ==
  ASSUME IInv, NEW r \in Runs, NEW row \in AlertRows, NEW announce \in SUBSET {Latest + 1},
         Inserts(r, row, announce),
         row.until >= RetryFor, row.opened = now, ~row.notified,
         Muted(row) => /\ row.until <= now + FlappingWindow + RetryFor
                       /\ \A j \in DOMAIN alerts : Muted(alerts[j]) => alerts[j].until = row.until,
         announce # {} => \/ row.refires < FlappingRefires
                          \/ row.until >= now + FlappingWindow + RetryFor
  PROVE  IInv'
<1>0. PICK n : n = Latest + 1
  OBVIOUS
<1>1. TypeOK /\ alerts' = Append(alerts, row) /\ Claims(r, announce, {}) /\ {} \in SUBSET Nat
  BY DEF IInv, Inserts
<1>2. /\ alerts' \in Seq(AlertRows)
      /\ Latest \in Nat
      /\ DOMAIN alerts' = DOMAIN alerts \cup {n}
      /\ n \notin DOMAIN alerts
      /\ alerts'[n] = row
      /\ \A j \in DOMAIN alerts : alerts'[j] = alerts[j]
      /\ \A j \in DOMAIN alerts : Grows(alerts[j], alerts'[j])
  BY <1>0, <1>1, OneMoreRow
<1>3. announce \in SUBSET {n} /\ announce \in SUBSET Nat
  BY <1>0, <1>2
<1>4. /\ now' = now /\ channel' = channel /\ failures' = failures
      /\ lastEvaluated' \in Nat
      /\ runs' \in [Runs -> RunStates]
      /\ runs'[r].started = now
      /\ runs'[r].announce = announce /\ runs'[r].recover = {}
      /\ runs'[r].queue = {} /\ runs'[r].sent = None
      /\ \A q \in Runs \ {r} : runs'[q] = runs[q]
  BY <1>1, <1>3, ClaimBeginsARun
<1>5. TypeOK'
  BY <1>1, <1>2, <1>4 DEF TypeOK
<1>6. Evolves
  BY <1>2, <1>4 DEF Evolves
<1>7. RunSound(r)'
  <2>1. \A i \in announce : WonOpening(r, i)'
    BY <1>2, <1>3, <1>4 DEF WonOpening
  <2>2. (now <= runs[r].started + RunFor)'
    BY <1>1, <1>4, Windows DEF TypeOK
  <2> QED BY <1>4, <2>1, <2>2 DEF RunSound
<1>8. RowSound(n)'
  BY <1>1, <1>2, <1>4 DEF RowSound, Muted, TypeOK
<1>9. MutesShareADeadline'
  <2>1. SUFFICES ASSUME NEW i \in DOMAIN alerts', NEW j \in DOMAIN alerts',
                        Muted(alerts[i])', Muted(alerts[j])'
                 PROVE  alerts'[i].until = alerts'[j].until
    BY DEF MutesShareADeadline
  <2>2. \A k \in DOMAIN alerts' : Muted(alerts[k])' => Muted(alerts'[k])
    BY <1>4 DEF Muted
  <2>3. \A k \in DOMAIN alerts : Muted(alerts[k])' /\ Muted(row) => alerts'[k].until = row.until
    BY <1>2, <2>2
  <2>4. CASE i \in DOMAIN alerts /\ j \in DOMAIN alerts
    BY <1>2, <2>1, <2>2, <2>4 DEF IInv, MutesShareADeadline
  <2>5. CASE i = n \/ j = n
    BY <1>2, <2>1, <2>2, <2>3, <2>5
  <2> QED BY <1>2, <2>4, <2>5
<1> QED BY <1>2, <1>4, <1>5, <1>6, <1>7, <1>8, <1>9, RunStep

(* The row an opening adds is fixed (PICK) before the step is taken.        *)
LEMMA OpensAloneKeeps ==
  ASSUME IInv, NEW r \in Runs, NEW level \in Levels, OpensAlone(r, level) PROVE IInv'
<1> DEFINE refires == Cardinality(Earlier)
           row == Row(level, refires, now, now + RetryFor)
<1>1. TypeOK /\ now \in Nat /\ now + RetryFor \in Nat /\ refires \in Nat
  BY EarlierIsCounted, Windows DEF IInv, TypeOK
<1>2. row \in AlertRows
  BY <1>1, RowIsTyped
<1>3. Inserts(r, row, {Latest + 1}) /\ refires < FlappingRefires
  BY DEF OpensAlone
<1>4. /\ row.until = now + RetryFor /\ row.opened = now /\ row.notified = FALSE
      /\ row.refires = refires
  BY DEF Row
<1>5. ~Muted(row) /\ row.until >= RetryFor
  BY <1>1, <1>4, Windows DEF Muted
<1>6. PICK added : added = row
  OBVIOUS
<1>7. PICK announce : announce = {Latest + 1}
  OBVIOUS
<1> HIDE DEF row, refires
<1> QED BY <1>2, <1>3, <1>4, <1>5, <1>6, <1>7, InsertKeeps

LEMMA StartsMuteKeeps ==
  ASSUME IInv, NEW r \in Runs, NEW level \in Levels, StartsMute(r, level) PROVE IInv'
<1> DEFINE refires == Cardinality(Earlier)
           until == now + FlappingWindow + RetryFor
           row == Row(level, refires, now, until)
<1>1. TypeOK /\ now \in Nat /\ until \in Nat /\ refires \in Nat
  BY EarlierIsCounted, Windows DEF IInv, TypeOK
<1>2. row \in AlertRows
  BY <1>1, RowIsTyped
<1>3. Inserts(r, row, {Latest + 1}) /\ MuteDeadlines = {}
  BY DEF StartsMute
<1>4. row.until = until /\ row.opened = now /\ row.notified = FALSE
  BY DEF Row
<1>5. row.until >= RetryFor /\ row.until <= until /\ row.until >= until
  BY <1>1, <1>4, Windows
<1>6. \A j \in DOMAIN alerts : ~Muted(alerts[j])
  BY <1>3, NothingIsMuted
<1>7. PICK added : added = row
  OBVIOUS
<1>8. PICK announce : announce = {Latest + 1}
  OBVIOUS
<1> HIDE DEF row
<1> QED BY <1>2, <1>3, <1>4, <1>5, <1>6, <1>7, <1>8, InsertKeeps

LEMMA OpensMutedKeeps ==
  ASSUME IInv, NEW r \in Runs, NEW level \in Levels, OpensMuted(r, level) PROVE IInv'
<1> DEFINE refires == IF Cardinality(Earlier) > FlappingRefires THEN Cardinality(Earlier)
                      ELSE FlappingRefires
<1>1. PICK deadline \in MuteDeadlines :
        Inserts(r, Row(level, refires, deadline - RetryFor, deadline),
                IF deadline - RetryFor > now THEN {} ELSE {Latest + 1})
  BY DEF OpensMuted
<1>2. TypeOK /\ now \in Nat /\ refires \in Nat
  BY EarlierIsCounted, Windows DEF IInv, TypeOK
<1>3. deadline \in Nat /\ deadline - RetryFor \in Nat /\ deadline - RetryFor > now
  BY <1>2, DeadlinesLieAhead
<1> DEFINE row == Row(level, refires, deadline - RetryFor, deadline)
<1>4. row \in AlertRows
  BY <1>2, <1>3, RowIsTyped
<1>5. Inserts(r, row, {})
  BY <1>1, <1>3
<1>6. row.until = deadline /\ row.opened = now /\ row.notified = FALSE
  BY DEF Row
<1>7. PICK i \in DOMAIN alerts : Muted(alerts[i]) /\ deadline = alerts[i].until
  BY DEF MuteDeadlines, Earlier
<1>8. \A j \in DOMAIN alerts : Muted(alerts[j]) => alerts[j].until = deadline
  BY <1>7 DEF IInv, MutesShareADeadline
<1>9. deadline >= RetryFor /\ deadline <= now + FlappingWindow + RetryFor
  BY <1>2, <1>3, <1>7, RowsAreTyped, Windows DEF IInv, RowSound
<1>10. PICK added : added = row
  OBVIOUS
<1> HIDE DEF row
<1> QED BY <1>4, <1>5, <1>6, <1>8, <1>9, <1>10, InsertKeeps

-----------------------------------------------------------------------------
(* The posts.                                                              *)

(* What a run reads to post it may say, if the alert is not closed inside  *)
(* a mute.                                                                 *)
LEMMA OpeningIsSound ==
  ASSUME TypeOK, NEW i \in DOMAIN alerts, Muted(alerts[i]) \/ ~ClosedInsideMute(alerts[i])
  PROVE  OpeningMessage(i) \in Messages /\ MessageSound(OpeningMessage(i))
<1>1. OpeningMessage(i) \in Messages
  BY RowsAreTyped DEF OpeningMessage, Messages, AlertRows
<1>2. MessageSound(OpeningMessage(i))
  BY DEF OpeningMessage, MessageSound, Free
<1> QED BY <1>1, <1>2

LEMMA RecoveryIsSound ==
  ASSUME TypeOK, NEW i, WonRecovery(i)
  PROVE  RecoveryMessage(i) \in Messages /\ MessageSound(RecoveryMessage(i))
<1>1. i \in DOMAIN alerts
  BY DEF WonRecovery
<1>2. RecoveryMessage(i) \in Messages
  BY <1>1, RowsAreTyped DEF RecoveryMessage, Messages, AlertRows
<1>3. MessageSound(RecoveryMessage(i))
  BY <1>1 DEF RecoveryMessage, MessageSound, WonRecovery
<1> QED BY <1>2, <1>3

LEMMA ReadsWonKeeps ==
  ASSUME IInv, NEW r \in Runs, ReadsWon(r) PROVE IInv'
<1> DEFINE queue == {OpeningMessage(i) : i \in runs[r].announce}
                      \cup {RecoveryMessage(i) : i \in runs[r].recover}
           run == [Idle EXCEPT !.at = "posting", !.started = runs[r].started, !.queue = queue]
<1>1. TypeOK /\ runs \in [Runs -> RunStates] /\ runs[r].started \in Nat /\ now \in Nat
  BY DEF IInv, TypeOK, RunStates
<1>2. RunSound(r) /\ runs[r].at # "idle" /\ now <= runs[r].started + RunFor
  BY DEF IInv, RunSound, ReadsWon
<1>3. ASSUME NEW i \in runs[r].announce
      PROVE  OpeningMessage(i) \in Messages /\ MessageSound(OpeningMessage(i))
  <2>1. i \in DOMAIN alerts /\ WonOpening(r, i)
    BY <1>2 DEF RunSound, WonOpening
  <2>2. CASE alerts[i].refires < FlappingRefires
    BY <1>1, <2>1, <2>2, RowsAreTyped, Windows, OpeningIsSound DEF ClosedInsideMute
  <2>3. CASE alerts[i].refires >= FlappingRefires
             /\ alerts[i].until >= runs[r].started + FlappingWindow + RetryFor
    <3>1. Muted(alerts[i])
      BY <1>1, <1>2, <2>1, <2>3, RowsAreTyped, Windows DEF Muted
    <3> QED BY <1>1, <2>1, <3>1, OpeningIsSound
  <2>4. CASE Free(alerts[i])
    BY <1>1, <2>1, <2>4, OpeningIsSound DEF Free
  <2>5. alerts[i].refires < FlappingRefires \/ alerts[i].refires >= FlappingRefires
    BY <1>1, <2>1, RowsAreTyped, Windows
  <2> QED BY <2>1, <2>2, <2>3, <2>4, <2>5 DEF WonOpening
<1>4. \A i \in runs[r].recover :
        RecoveryMessage(i) \in Messages /\ MessageSound(RecoveryMessage(i))
  BY <1>1, <1>2, RecoveryIsSound DEF RunSound
<1>5. queue \in SUBSET Messages /\ \A m \in queue : MessageSound(m)
  BY <1>3, <1>4
<1> HIDE DEF queue
<1>6. run \in RunStates /\ run.started = runs[r].started /\ run.announce = {}
      /\ run.recover = {} /\ run.queue = queue /\ run.sent = None
  BY <1>1, <1>5, RunIdles DEF RunStates, Stages, Idle
<1>7. runs' = [runs EXCEPT ![r] = run]
  BY DEF ReadsWon, queue
<1>8. UNCHANGED <<now, lastEvaluated, alerts, channel, failures>>
  BY DEF ReadsWon
<1> HIDE DEF run
<1>9. runs' \in [Runs -> RunStates] /\ runs'[r] = run /\ \A q \in Runs \ {r} : runs'[q] = runs[q]
  BY <1>1, <1>6, <1>7
<1>10. TypeOK'
  BY <1>1, <1>8, <1>9 DEF TypeOK
<1>11. Evolves
  BY <1>8, UnchangedGrows DEF Evolves
<1>12. (\A m \in runs[r].queue : MessageSound(m))'
  BY <1>1, <1>5, <1>6, <1>9, <1>11, MessageLasts
<1>13. RunSound(r)'
  BY <1>2, <1>6, <1>8, <1>9, <1>12 DEF RunSound
<1>14. MutesShareADeadline'
  BY <1>8, <1>11, SameMutes
<1> QED BY <1>8, <1>9, <1>10, <1>11, <1>13, <1>14, RunStep

(* A claim of retries stamps the rows it is to post and queues messages    *)
(* that are sound.                                                         *)
LEMMA RetriesKeep ==
  ASSUME IInv, NEW r \in Runs, NEW from \in Stages \ {"idle"}, NEW to \in Stages,
         NEW messages \in SUBSET Messages, Enters(r, from, to, messages),
         \A m \in messages : MessageSound(m),
         alerts' \in Seq(AlertRows), DOMAIN alerts' = DOMAIN alerts,
         \A i \in DOMAIN alerts :
           Grows(alerts[i], alerts'[i]) /\ alerts'[i].notified = alerts[i].notified
  PROVE  IInv'
<1>1. TypeOK /\ RunSound(r)
  BY DEF IInv
<1>2. /\ now' = now /\ channel' = channel /\ failures' = failures
      /\ lastEvaluated' = lastEvaluated
      /\ runs' \in [Runs -> RunStates]
      /\ runs'[r].at # "idle" => runs[r].at # "idle" /\ runs'[r].started = runs[r].started
      /\ runs'[r].announce \subseteq runs[r].announce
      /\ runs'[r].announce # {} => runs'[r].started = runs[r].started
      /\ runs'[r].recover \subseteq runs[r].recover
      /\ runs'[r].queue \subseteq messages
      /\ runs'[r].sent = None
      /\ \A q \in Runs \ {r} : runs'[q] = runs[q]
  BY <1>1, EntersAStage
<1>3. TypeOK'
  BY <1>1, <1>2 DEF TypeOK
<1>4. Evolves
  BY <1>2 DEF Evolves
<1>5. (\A m \in runs[r].queue : MessageSound(m))'
  BY <1>1, <1>2, <1>4, MessageLasts
<1>6. (\A i \in runs[r].recover : WonRecovery(i))'
  BY <1>1, <1>2, <1>4, RecoveryLasts DEF RunSound
<1>7. (\A i \in runs[r].announce : WonOpening(r, i))'
  BY <1>1, <1>2, <1>4, OpeningLasts DEF RunSound
<1>8. RunSound(r)'
  BY <1>1, <1>2, <1>5, <1>6, <1>7 DEF RunSound
<1>9. MutesShareADeadline'
  BY <1>4, SameMutes
<1> QED BY <1>2, <1>3, <1>4, <1>8, <1>9, RunStep

LEMMA ClaimsAnnounceRetriesKeeps ==
  ASSUME IInv, NEW r \in Runs, ClaimsAnnounceRetries(r) PROVE IInv'
<1> DEFINE due == {i \in DOMAIN alerts : OpeningIsDue(alerts[i])}
<1>1. TypeOK /\ now \in Nat /\ alerts \in Seq(AlertRows)
  BY DEF IInv, TypeOK
<1>2. ASSUME NEW i \in due
      PROVE  OpeningMessage(i) \in Messages /\ MessageSound(OpeningMessage(i))
  <2>1. i \in DOMAIN alerts /\ ~ClosedInsideMute(alerts[i])
    BY <1>1, <1>2, RowsAreTyped, Windows DEF OpeningIsDue, ClosedInsideMute
  <2> QED BY <1>1, <2>1, OpeningIsSound
<1>3. PICK messages : messages = {OpeningMessage(i) : i \in due}
  OBVIOUS
<1>4. messages \in SUBSET Messages /\ \A m \in messages : MessageSound(m)
  BY <1>2, <1>3
<1>5. Enters(r, "posting", "retrying", messages)
  BY <1>3 DEF ClaimsAnnounceRetries
<1>6. alerts' = [i \in DOMAIN alerts |->
                   IF i \in due THEN [alerts[i] EXCEPT !.attempted = now] ELSE alerts[i]]
  BY DEF ClaimsAnnounceRetries
<1>7. ASSUME NEW i \in DOMAIN alerts
      PROVE  /\ alerts'[i] \in AlertRows
             /\ Grows(alerts[i], alerts'[i])
             /\ alerts'[i].notified = alerts[i].notified
  <2>1. alerts[i] \in AlertRows
    BY <1>1
  <2>2. alerts'[i] = [alerts[i] EXCEPT !.attempted = now] \/ alerts'[i] = alerts[i]
    BY <1>6
  <2> QED BY <1>1, <2>1, <2>2 DEF Grows, AlertRows
<1>8. DOMAIN alerts' = DOMAIN alerts /\ alerts' \in Seq(AlertRows)
  BY <1>1, <1>6, <1>7
<1>9. "posting" \in Stages \ {"idle"} /\ "retrying" \in Stages
  BY DEF Stages
<1> QED BY <1>4, <1>5, <1>7, <1>8, <1>9, RetriesKeep

LEMMA ClaimsRecoveryRetriesKeeps ==
  ASSUME IInv, NEW r \in Runs, ClaimsRecoveryRetries(r) PROVE IInv'
<1> DEFINE due == {i \in DOMAIN alerts : RecoveryIsDue(alerts[i])}
<1>1. TypeOK /\ now \in Nat /\ alerts \in Seq(AlertRows)
  BY DEF IInv, TypeOK
<1>2. ASSUME NEW i \in due
      PROVE  RecoveryMessage(i) \in Messages /\ MessageSound(RecoveryMessage(i))
  <2>1. WonRecovery(i)
    BY <1>2 DEF IInv, RowSound, RecoveryIsDue, WonRecovery
  <2> QED BY <1>1, <2>1, RecoveryIsSound
<1>3. PICK messages : messages = {RecoveryMessage(i) : i \in due}
  OBVIOUS
<1>4. messages \in SUBSET Messages /\ \A m \in messages : MessageSound(m)
  BY <1>2, <1>3
<1>5. PICK to \in {"idle", "retryingRecoveries"} : Enters(r, "retrying", to, messages)
  BY <1>3 DEF ClaimsRecoveryRetries
<1>6. alerts' = [i \in DOMAIN alerts |->
                   IF i \in due THEN [alerts[i] EXCEPT !.recoveryAttempted = now] ELSE alerts[i]]
  BY DEF ClaimsRecoveryRetries
<1>7. ASSUME NEW i \in DOMAIN alerts
      PROVE  /\ alerts'[i] \in AlertRows
             /\ Grows(alerts[i], alerts'[i])
             /\ alerts'[i].notified = alerts[i].notified
  <2>1. alerts[i] \in AlertRows
    BY <1>1
  <2>2. alerts'[i] = [alerts[i] EXCEPT !.recoveryAttempted = now] \/ alerts'[i] = alerts[i]
    BY <1>6
  <2> QED BY <1>1, <2>1, <2>2 DEF Grows, AlertRows
<1>8. DOMAIN alerts' = DOMAIN alerts /\ alerts' \in Seq(AlertRows)
  BY <1>1, <1>6, <1>7
<1>9. "retrying" \in Stages \ {"idle"} /\ to \in Stages
  BY DEF Stages
<1> QED BY <1>4, <1>5, <1>7, <1>8, <1>9, RetriesKeep

LEMMA FinishesKeeps ==
  ASSUME IInv, NEW r \in Runs, Finishes(r) PROVE IInv'
<1>1. alerts' = alerts /\ Enters(r, "retryingRecoveries", "idle", {})
  BY DEF Finishes
<1>2. \A i \in DOMAIN alerts : Grows(alerts[i], alerts'[i])
  BY <1>1, UnchangedGrows
<1>3. "retryingRecoveries" \in Stages \ {"idle"} /\ "idle" \in Stages /\ {} \in SUBSET Messages
  BY DEF Stages
<1>4. alerts' \in Seq(AlertRows)
  BY <1>1 DEF IInv, TypeOK
<1> QED BY <1>1, <1>2, <1>3, <1>4, RetriesKeep

(* A post takes a sound message from the queue; the channel shows that one *)
(* or nothing new.                                                         *)
LEMMA PostsKeeps ==
  ASSUME IInv, NEW r \in Runs, NEW m \in runs[r].queue, NEW sent \in {m, None},
         Posts(r, m, sent), channel' \in {channel, channel \cup {m}},
         sent # None => m \in channel', failures' \in Nat
  PROVE  IInv'
<1> DEFINE run == [runs[r] EXCEPT !.queue = @ \ {m}, !.sent = sent]
<1>1. TypeOK /\ RunSound(r) /\ runs \in [Runs -> RunStates] /\ runs[r] \in RunStates
  BY DEF IInv, TypeOK
<1>2. m \in Messages /\ MessageSound(m)
  BY <1>1 DEF RunSound, RunStates
<1>3. run \in RunStates /\ run.queue \subseteq runs[r].queue /\ run.sent = sent
      /\ run.at = runs[r].at /\ run.started = runs[r].started
      /\ run.announce = runs[r].announce /\ run.recover = runs[r].recover
  BY <1>1, <1>2 DEF RunStates
<1>4. runs' = [runs EXCEPT ![r] = run] /\ UNCHANGED <<now, lastEvaluated, alerts>>
  BY DEF Posts
<1> HIDE DEF run
<1>5. runs' \in [Runs -> RunStates] /\ runs'[r] = run /\ \A q \in Runs \ {r} : runs'[q] = runs[q]
  BY <1>1, <1>3, <1>4
<1>6. TypeOK'
  BY <1>1, <1>2, <1>4, <1>5 DEF TypeOK
<1>7. Evolves
  BY <1>4, UnchangedGrows DEF Evolves
<1>8. (\A n \in runs[r].queue : MessageSound(n))'
  BY <1>1, <1>3, <1>5, <1>7, MessageLasts DEF RunSound
<1>9. (\A i \in runs[r].recover : WonRecovery(i))'
  BY <1>1, <1>3, <1>5, <1>7, RecoveryLasts DEF RunSound
<1>10. (\A i \in runs[r].announce : WonOpening(r, i))'
  BY <1>1, <1>3, <1>5, <1>7, OpeningLasts DEF RunSound
<1>11. RunSound(r)'
  BY <1>1, <1>3, <1>4, <1>5, <1>8, <1>9, <1>10 DEF RunSound
<1>12. MessageSound(m)'
  BY <1>1, <1>2, <1>7, MessageLasts
<1>13. MutesShareADeadline'
  BY <1>4, <1>7, SameMutes
<1> QED BY <1>4, <1>5, <1>6, <1>7, <1>11, <1>12, <1>13, RunStep

LEMMA RecordsKeeps ==
  ASSUME IInv, NEW r \in Runs, Records(r) PROVE IInv'
<1>1. PICK m : m = runs[r].sent
  OBVIOUS
<1>2. PICK i : i = m.id
  OBVIOUS
<1> DEFINE b == Marked(alerts[i], m)
           run == [runs[r] EXCEPT !.sent = None]
<1>3. TypeOK /\ RunSound(r) /\ runs \in [Runs -> RunStates] /\ runs[r] \in RunStates
  BY DEF IInv, TypeOK
<1>4. m \in channel /\ m \in Messages /\ MessageSound(m)
  BY <1>1, <1>3 DEF IInv, TypeOK, RunSound, Records
<1>5. i \in DOMAIN alerts /\ alerts[i] \in AlertRows /\ RowSound(i)
  BY <1>2, <1>3, <1>4, RowsAreTyped DEF MessageSound, IInv
<1>6. /\ b \in AlertRows /\ Grows(alerts[i], b)
      /\ b.notified => alerts[i].notified \/ m.kind = "opening"
  BY <1>3, <1>4, <1>5, MarkedGrows DEF RowSound
<1>7. /\ alerts' = [alerts EXCEPT ![i] = b]
      /\ runs' = [runs EXCEPT ![r] = run]
      /\ UNCHANGED <<now, lastEvaluated, channel, failures>>
  BY <1>1, <1>2 DEF Records
<1>8. run \in RunStates /\ run.sent = None
      /\ run.at = runs[r].at /\ run.started = runs[r].started /\ run.queue = runs[r].queue
      /\ run.announce = runs[r].announce /\ run.recover = runs[r].recover
  BY <1>3 DEF RunStates
<1> HIDE DEF run, b
<1>9. runs' \in [Runs -> RunStates] /\ runs'[r] = run /\ \A q \in Runs \ {r} : runs'[q] = runs[q]
  BY <1>3, <1>7, <1>8
<1>10. /\ alerts' \in Seq(AlertRows)
       /\ DOMAIN alerts' = DOMAIN alerts
       /\ alerts'[i] = b
       /\ \A j \in DOMAIN alerts : j # i => alerts'[j] = alerts[j]
       /\ \A j \in DOMAIN alerts : Grows(alerts[j], alerts'[j])
  BY <1>3, <1>5, <1>6, <1>7, OneRowGrows
<1>11. TypeOK'
  BY <1>3, <1>7, <1>9, <1>10 DEF TypeOK
<1>12. Evolves
  BY <1>7, <1>10 DEF Evolves
<1>13. m.kind = "opening" => Free(alerts[i]) /\ Shown(i, "opening")
  BY <1>2, <1>4 DEF MessageSound, Shown
<1>14. RowSound(i)'
  BY <1>3, <1>5, <1>6, <1>10, <1>12, <1>13, RowLasts
<1>15. (\A n \in runs[r].queue : MessageSound(n))'
  BY <1>3, <1>8, <1>9, <1>12, MessageLasts DEF RunSound
<1>16. (\A j \in runs[r].recover : WonRecovery(j))'
  BY <1>3, <1>8, <1>9, <1>12, RecoveryLasts DEF RunSound
<1>17. (\A j \in runs[r].announce : WonOpening(r, j))'
  BY <1>3, <1>8, <1>9, <1>12, OpeningLasts DEF RunSound
<1>18. RunSound(r)'
  BY <1>3, <1>7, <1>8, <1>9, <1>15, <1>16, <1>17 DEF RunSound
<1>19. MutesShareADeadline'
  BY <1>10, <1>12, SameMutes
<1> QED BY <1>7, <1>9, <1>10, <1>11, <1>12, <1>14, <1>18, <1>19, RunStep

LEMMA DiesKeeps ==
  ASSUME IInv, NEW r \in Runs, Dies(r) PROVE IInv'
<1>1. TypeOK /\ runs \in [Runs -> RunStates]
  BY DEF IInv, TypeOK
<1>2. runs' = [runs EXCEPT ![r] = Idle] /\ UNCHANGED <<now, lastEvaluated, alerts, channel>>
  BY DEF Dies
<1>3. runs' \in [Runs -> RunStates] /\ runs'[r] = Idle /\ \A q \in Runs \ {r} : runs'[q] = runs[q]
  BY <1>1, <1>2, RunIdles
<1>4. TypeOK'
  BY <1>1, <1>2, <1>3 DEF TypeOK, Dies, Fails
<1>5. Evolves
  BY <1>2, UnchangedGrows DEF Evolves
<1>6. RunSound(r)'
  BY <1>3 DEF RunSound, Idle
<1>7. MutesShareADeadline'
  BY <1>2, <1>5, SameMutes
<1> QED BY <1>2, <1>3, <1>4, <1>5, <1>6, <1>7, RunStep

LEMMA TickKeeps ==
  ASSUME IInv, Tick PROVE IInv'
<1>1. TypeOK /\ now \in Nat
  BY DEF IInv, TypeOK
<1>2. now' = now + 1 /\ UNCHANGED <<lastEvaluated, alerts, runs, channel, failures>>
  BY DEF Tick
<1>3. TypeOK'
  BY <1>1, <1>2 DEF TypeOK
<1>4. Evolves
  BY <1>2, UnchangedGrows DEF Evolves
<1>5. \A i \in DOMAIN alerts' : RowSound(i)'
  BY <1>1, <1>2, <1>4, RowLasts DEF IInv
<1>6. \A m \in channel' : MessageSound(m)'
  BY <1>1, <1>2, <1>4, MessageLasts DEF IInv
<1>7. ASSUME NEW r \in Runs PROVE RunSound(r)'
  <2>1. runs[r].at # "idle" => now' <= runs[r].started + RunFor
    <3>1. runs[r].started \in Nat
      BY <1>1 DEF TypeOK, RunStates
    <3> QED BY <1>1, <1>2, <3>1, Windows DEF Tick
  <2> QED BY <1>1, <1>2, <1>4, <2>1, RunLasts DEF IInv
<1>8. MutesShareADeadline'
  BY <1>2, <1>4, SameMutes
<1> QED BY <1>3, <1>5, <1>6, <1>7, <1>8 DEF IInv

LEMMA StutterKeeps ==
  ASSUME IInv, UNCHANGED vars PROVE IInv'
BY DEF IInv, vars, TypeOK, MutesShareADeadline, RowSound, MessageSound, RunSound, WonOpening,
       WonRecovery, Free, ClosedInsideMute, Muted, Shown

-----------------------------------------------------------------------------
(* The theorems.                                                           *)

LEMMA InitHolds == Init => IInv
<1> SUFFICES ASSUME Init PROVE IInv
  OBVIOUS
<1>1. DOMAIN alerts = {} /\ channel = {} /\ alerts \in Seq(AlertRows)
  BY DEF Init
<1>2. TypeOK
  BY <1>1, RunIdles DEF Init, TypeOK
<1>3. \A r \in Runs : RunSound(r)
  BY DEF Init, RunSound, Idle
<1> QED BY <1>1, <1>2, <1>3 DEF IInv, MutesShareADeadline

LEMMA NextKeeps ==
  ASSUME IInv, Next PROVE IInv'
<1>1. CASE Tick
  BY <1>1, TickKeeps
<1>2. ASSUME NEW r \in Runs, Evaluates(r) PROVE IInv'
  BY <1>2, PersistsKeeps, OpensAloneKeeps, StartsMuteKeeps, OpensMutedKeeps,
     FindsItAbsentKeeps, FindsNothingKeeps DEF Evaluates
<1>3. ASSUME NEW r \in Runs, NEW m \in runs[r].queue,
             PostIsTaken(r, m) \/ PostTimesOut(r, m) \/ PostIsRefused(r, m)
      PROVE  IInv'
  <2>1. failures \in Nat
    BY DEF IInv, TypeOK
  <2>2. CASE PostIsTaken(r, m)
    BY <2>1, <2>2, PostsKeeps DEF PostIsTaken
  <2>3. CASE PostTimesOut(r, m)
    BY <2>1, <2>3, PostsKeeps DEF PostTimesOut, Fails
  <2>4. CASE PostIsRefused(r, m)
    BY <2>1, <2>4, PostsKeeps DEF PostIsRefused, Fails
  <2> QED BY <1>3, <2>2, <2>3, <2>4
<1>4. ASSUME NEW r \in Runs, Delivers(r) PROVE IInv'
  BY <1>3, <1>4, ReadsWonKeeps, ClaimsAnnounceRetriesKeeps, ClaimsRecoveryRetriesKeeps,
     FinishesKeeps, RecordsKeeps DEF Delivers
<1>5. ASSUME NEW r \in Runs, Dies(r) PROVE IInv'
  BY <1>5, DiesKeeps
<1> QED BY <1>1, <1>2, <1>4, <1>5 DEF Next

(* The inductive invariant: what runs won, queued and posted stays right.  *)
THEOREM Invariance == Spec => []IInv
<1>1. IInv /\ [Next]_vars => IInv'
  BY NextKeeps, StutterKeeps
<1> QED BY InitHolds, <1>1, PTL DEF Spec

(* Every variable keeps its type.                                          *)
THEOREM TypeCorrect == Spec => []TypeOK
<1>1. IInv => TypeOK
  BY DEF IInv
<1> QED BY Invariance, <1>1, PTL

(* A recovery is only ever shown for an alert whose opening was.           *)
THEOREM RecoveriesFollowOpenings == Spec => []NoLoneRecovery
<1>1. IInv => NoLoneRecovery
  BY DEF IInv, MessageSound, NoLoneRecovery
<1> QED BY Invariance, <1>1, PTL

(* The alerts of a mute share its deadline.                                *)
THEOREM OneDeadline == Spec => []MutesShareADeadline
<1>1. IInv => MutesShareADeadline
  BY DEF IInv
<1> QED BY Invariance, <1>1, PTL

(* An alert that closed inside its mute is never shown.                    *)
THEOREM ClosedStaysQuiet == Spec => []ClosedInMuteStaysQuiet
<1>1. IInv => ClosedInMuteStaysQuiet
  BY DEF IInv, MessageSound, Free, ClosedInMuteStaysQuiet, Shown
<1> QED BY Invariance, <1>1, PTL

(* What is newly shown of a muted alert is its line.                       *)
LEMMA OnlyLinesInAMute ==
  ASSUME IInv, Next, NEW i \in DOMAIN alerts, Muted(alerts[i]),
         NEW m \in channel' \ channel, m.id = i
  PROVE  m.kind = "line"
<1>1. SUFFICES \E r \in Runs : m \in runs[r].queue
  BY DEF IInv, RunSound, MessageSound, Free
<1>2. CASE Tick
  BY <1>2 DEF Tick
<1>3. ASSUME NEW r \in Runs, Evaluates(r) PROVE channel' = channel
  BY <1>3 DEF Evaluates, Persists, OpensAlone, StartsMute, OpensMuted, Inserts, FindsItAbsent,
              FindsNothing, Claims
<1>4. ASSUME NEW r \in Runs, Delivers(r)
      PROVE  channel' = channel \/ \E n \in runs[r].queue : channel' = channel \cup {n}
  BY <1>4 DEF Delivers, ReadsWon, ClaimsAnnounceRetries, ClaimsRecoveryRetries, Finishes, Enters,
              PostIsTaken, PostTimesOut, PostIsRefused, Records
<1>5. ASSUME NEW r \in Runs, Dies(r) PROVE channel' = channel
  BY <1>5 DEF Dies
<1> QED BY <1>2, <1>3, <1>4, <1>5 DEF Next

(* The deadline of a muted alert stands.                                   *)
LEMMA MutedDeadlineStands ==
  ASSUME IInv, Next, NEW i \in DOMAIN alerts, Muted(alerts[i])
  PROVE  alerts'[i].until = alerts[i].until
<1>1. TypeOK /\ alerts \in Seq(AlertRows) /\ alerts[i] \in AlertRows
  BY RowsAreTyped DEF IInv, TypeOK
<1>2. CASE UNCHANGED alerts
  BY <1>2
<1>3. ASSUME NEW r \in Runs, NEW level \in Levels, Persists(r, level)
      PROVE  alerts'[i].until = alerts[i].until
  <2>1. CASE i = Latest
    <3>1. ~Rises(alerts[i], level)
      BY DEF Rises
    <3>2. Moved(alerts[i], level) = [alerts[i] EXCEPT !.level = level]
      BY <3>1 DEF Moved
    <3> QED BY <1>1, <1>3, <2>1, <3>2 DEF Persists, AlertRows
  <2>2. CASE i # Latest
    BY <1>1, <1>3, <2>2 DEF Persists
  <2> QED BY <2>1, <2>2
<1>4. ASSUME NEW r \in Runs, NEW row, NEW announce, Inserts(r, row, announce)
      PROVE  alerts'[i] = alerts[i]
  BY <1>1, <1>4 DEF Inserts
<1>5. ASSUME NEW r \in Runs, FindsItAbsent(r) PROVE alerts'[i].until = alerts[i].until
  <2>1. CASE i = Latest
    <3>1. Absent(alerts[i]).until = alerts[i].until
      BY <1>1, <1>5, <2>1, StandingIsLast, AbsentGrows DEF FindsItAbsent
    <3> QED BY <1>1, <1>5, <2>1, <3>1 DEF FindsItAbsent
  <2>2. CASE i # Latest
    BY <1>1, <1>5, <2>2 DEF FindsItAbsent
  <2> QED BY <2>1, <2>2
<1>6. ASSUME NEW r \in Runs, Evaluates(r) PROVE alerts'[i].until = alerts[i].until
  <2>1. CASE FindsNothing(r)
    BY <1>2, <2>1 DEF FindsNothing
  <2>2. CASE \E level \in Levels :
               OpensAlone(r, level) \/ StartsMute(r, level) \/ OpensMuted(r, level)
    BY <1>4, <2>2 DEF OpensAlone, StartsMute, OpensMuted
  <2> QED BY <1>3, <1>5, <1>6, <2>1, <2>2 DEF Evaluates
<1>7. ASSUME NEW r \in Runs, Records(r) PROVE alerts'[i].until = alerts[i].until
  <2>1. PICK m : m = runs[r].sent
    OBVIOUS
  <2>2. m \in Messages
    BY <1>7, <2>1 DEF IInv, TypeOK, RunSound, Records
  <2>3. Marked(alerts[i], m).until = alerts[i].until
    BY <1>1, <2>2, MarkedGrows DEF IInv, RowSound
  <2>4. alerts' = [alerts EXCEPT ![m.id] = Marked(@, m)]
    BY <1>7, <2>1 DEF Records
  <2> QED BY <1>1, <2>3, <2>4
<1>8. ASSUME NEW r \in Runs, ClaimsAnnounceRetries(r) PROVE alerts'[i].until = alerts[i].until
  BY <1>1, <1>8 DEF ClaimsAnnounceRetries, AlertRows
<1>9. ASSUME NEW r \in Runs, ClaimsRecoveryRetries(r) PROVE alerts'[i].until = alerts[i].until
  BY <1>1, <1>9 DEF ClaimsRecoveryRetries, AlertRows
<1>10. ASSUME NEW r \in Runs, Delivers(r) PROVE alerts'[i].until = alerts[i].until
  BY <1>2, <1>7, <1>8, <1>9, <1>10
  DEF Delivers, ReadsWon, Finishes, PostIsTaken, PostTimesOut, PostIsRefused, Posts
<1> QED BY <1>2, <1>6, <1>10 DEF Next, Tick, Dies

(* While an alert is muted its deadline stands and only its line is shown. *)
THEOREM MutesHold == Spec => MuteHolds
<1> DEFINE Holds == \A i \in DOMAIN alerts : Muted(alerts[i]) =>
                      /\ alerts'[i].until = alerts[i].until
                      /\ \A m \in channel' \ channel : m.id = i => m.kind = "line"
<1>1. IInv /\ [Next]_vars => [Holds]_vars
  BY MutedDeadlineStands, OnlyLinesInAMute
<1> HIDE DEF Holds
<1>2. Spec => [][Holds]_vars
  BY Invariance, <1>1, PTL DEF Spec
<1> QED BY <1>2 DEF MuteHolds, Holds

-----------------------------------------------------------------------------
(* An alert the diagnosis handed to the owner of the software; one of      *)
(* those without an issue.                                                 *)
ToFile(a)  == a \in DOMAIN alerts /\ alerts[a].status = "done" /\ OfSoftware(alerts[a])
Unfiled(a) == ToFile(a) /\ alerts[a].issue = None

InDiagnosis(r, a) == At(r, "diagnosing") /\ a \in runs[r].todo
InRecovery(r, a)  == runs[r].stage \in Recovered /\ a \in runs[r].todo

(* Nothing files it any more: it is on an issue, it is not the software's, *)
(* or it was over before a diagnosis said whose it is.                     *)
Settled(o) ==
  \/ alerts[o].issue # None
  \/ alerts[o].status = "done" /\ ~OfSoftware(alerts[o])
  \/ /\ alerts[o].status # "done" /\ alerts[o].resolved # None
     /\ \A r \in Runs : ~InDiagnosis(r, o)

SettledOf(rule, o) == o \in DOMAIN alerts /\ (alerts[o].rule = rule => Settled(o))

OfRule(rule) == {a \in DOMAIN alerts : alerts[a].rule = rule}
AllFiled(n)  == \A a \in issues[n].names : alerts[a].issue # None

(* The issue of an alert is one of its rule, and everything that issue was *)
(* opened for is filed.                                                    *)
RowsFiled ==
  \A a \in DOMAIN alerts :
    alerts[a].issue # None =>
      /\ alerts[a].issue \in DOMAIN issues
      /\ issues[alerts[a].issue].rule = alerts[a].rule
      /\ AllFiled(alerts[a].issue)

(* An issue is opened for alerts of its rule, and what a comment that it   *)
(* is over knew of its rule is settled.                                    *)
IssueSound(n) ==
  /\ issues[n].names \subseteq OfRule(issues[n].rule)
  /\ \A i \in DOMAIN issues[n].comments :
       issues[n].comments[i].kind = "recovery" =>
         \A o \in issues[n].comments[i].knew : SettledOf(issues[n].rule, o)

(* A run is at its diagnoses for as long as that can take.                 *)
Timely(run) ==
  /\ run.stage = "diagnosing" => run.begun <= now /\ now <= run.begun + DiagnosesFor
  /\ run.stage \in Recovered => run.begun <= now

InTime(r) == Timely(runs[r])

(* A diagnosis a run claimed is its own for as long as it is at it; a      *)
(* recovery, for RETRY_AFTER.                                              *)
Apart(s, t) == s + RetryAfter < t \/ t + RetryAfter < s

Late(r) == now - runs[r].begun > RetryAfter

DiagnosisSound(r, a) ==
  InDiagnosis(r, a) =>
    /\ a \in DOMAIN alerts /\ alerts[a].status = "pending"
    /\ alerts[a].at # None /\ alerts[a].at >= runs[r].begun
    /\ \A q \in Runs : InDiagnosis(q, a) => q = r

RecoverySound(r, a) ==
  InRecovery(r, a) =>
    /\ a \in DOMAIN alerts /\ alerts[a].issue # None
    /\ alerts[a].saying # None /\ alerts[a].saying >= runs[r].begun
    /\ \A q \in Runs : InRecovery(q, a) => q = r \/ Apart(runs[q].begun, runs[r].begun)
    /\ \A o \in runs[r].knew : SettledOf(alerts[a].rule, o)

(* Whom the comments written within RETRY_AFTER of their claim name.       *)
SaidInTime(n) ==
  UNION {issues[n].comments[i].names : i \in {j \in CommentsOf(n, "recovery") : ~issues[n].comments[j].slow}}

SayingSound(r) ==
  At(r, "saying") =>
    /\ runs[r].naming # {} /\ runs[r].naming \subseteq OfIssue(r)
    /\ Late(r) \/ runs[r].naming \cap SaidInTime(IssueOf(r)) = {}

QueueSound(r) == runs[r].stage \in {"filing"} \cup Filing => \A a \in runs[r].todo : ToFile(a)

(* A run that files holds its rule's lock; what it files has no issue, and *)
(* what it found of its rule's alerts and issues still stands.             *)
Clear(r) ==
  \A p \in OfRule(runs[r].rule), a \in runs[r].ids :
    alerts[p].issue # None => alerts[p].opened - alerts[a].opened \notin -RefireWindow..RefireWindow

NoneSince(r) ==
  \A n \in DOMAIN issues, a \in runs[r].ids :
    issues[n].rule = runs[r].rule => issues[n].created < alerts[a].opened - MarkerLookback

Target(r) ==
  /\ runs[r].number \in DOMAIN issues
  /\ issues[runs[r].number].rule = runs[r].rule
  /\ \/ runs[r].found = issues[runs[r].number].names
     \/ runs[r].found = {} /\ AllFiled(runs[r].number)
     \/ runs[r].found = {} /\ At(r, "recording") /\ issues[runs[r].number].names = runs[r].ids

Joins(r) ==
  /\ runs[r].naming \subseteq runs[r].ids
  /\ runs[r].naming \cap runs[r].found = {}
  /\ runs[r].naming \cap Named(runs[r].number, "refire") = {}

FilingSound(r) ==
  runs[r].stage \in Filing =>
    /\ runs[r].rule \in Rules /\ holder[runs[r].rule] = r
    /\ runs[r].ids # {}
    /\ \A a \in runs[r].ids : Unfiled(a) /\ alerts[a].rule = runs[r].rule
    /\ runs[r].stage \in {"looking", "opening"} => runs[r].found = {} /\ Clear(r)
    /\ At(r, "opening") => NoneSince(r)
    /\ runs[r].stage \notin {"looking", "opening"} => Target(r)
    /\ runs[r].stage \in {"reopening", "commenting"} => Joins(r)

HandoffInv ==
  /\ IssuesTypeOK
  /\ RowsFiled
  /\ \A n \in DOMAIN issues : IssueSound(n)
  /\ \A r \in Runs : InTime(r) /\ SayingSound(r) /\ QueueSound(r) /\ FilingSound(r)
  /\ \A r \in Runs, a \in Nat : DiagnosisSound(r, a) /\ RecoverySound(r, a)
  /\ NamedOnce
  /\ NothingJoinsAfterRecovery

-----------------------------------------------------------------------------
(* What a step leaves of a row and of an issue.                            *)
RowKept(a) ==
  /\ a \in DOMAIN alerts'
  /\ alerts'[a].rule = alerts[a].rule /\ alerts'[a].opened = alerts[a].opened
  /\ alerts[a].issue # None => alerts'[a].issue = alerts[a].issue
  /\ alerts[a].resolved # None => alerts'[a].resolved # None
  /\ alerts[a].status = "done" => alerts'[a].status = "done" /\ alerts'[a].software = alerts[a].software

RowsKept == \A a \in DOMAIN alerts : RowKept(a)

(* Nothing is filed.                                                       *)
NothingFiled ==
  /\ \A a \in DOMAIN alerts : alerts'[a].issue = alerts[a].issue
  /\ \A a \in DOMAIN alerts' \ DOMAIN alerts : alerts'[a].issue = None

IssueKept(n) ==
  /\ n \in DOMAIN issues'
  /\ issues'[n].rule = issues[n].rule /\ issues'[n].names = issues[n].names
  /\ issues'[n].created = issues[n].created

IssuesKept == \A n \in DOMAIN issues : IssueKept(n)

IssuesSilent ==
  /\ IssuesKept
  /\ DOMAIN issues' = DOMAIN issues
  /\ \A n \in DOMAIN issues : issues'[n].comments = issues[n].comments

SettledStay == \A rule \in Rules, o \in Nat : SettledOf(rule, o) => SettledOf(rule, o)'

IssuesSound ==
  /\ \A n \in DOMAIN issues : IssueSound(n)
  /\ NamedOnce
  /\ NothingJoinsAfterRecovery

LEMMA HandoffWindows ==
  /\ RetryAfter \in Nat /\ RetryFor \in Nat /\ DiagnosisStale \in Nat
  /\ DiagnosesFor \in Nat
  /\ RefireWindow \in Nat /\ MarkerLookback \in Nat
  /\ DiagnosesFor < DiagnosisStale
  /\ None \notin Nat /\ None \notin Runs
BY IssuesAssumption

(* The least of a set of numbers, and the largest of a bounded one.        *)
LEMMA LeastIsIn ==
  ASSUME NEW S \in SUBSET Nat, S # {}
  PROVE  Min(S) \in S /\ \A y \in S : Min(S) <= y
<1>1. PICK i \in S : \A j \in S : ~(<<j, i>> \in OpToRel(<, Nat))
  BY NatLessThanWellFounded, WFMin
<1>2. ASSUME NEW j \in S PROVE i <= j
  <2> SUFFICES ASSUME j < i PROVE FALSE
    OBVIOUS
  <2>1. <<j, i>> \in OpToRel(<, Nat)
    BY DEF OpToRel
  <2> QED BY <1>1, <2>1
<1> QED BY <1>2 DEF Min

LEMMA LargestIsIn ==
  ASSUME NEW n \in Nat, NEW S \in SUBSET Nat, S # {}, \A x \in S : x <= n
  PROVE  Max(S) \in S /\ \A y \in S : y <= Max(S)
<1> DEFINE T == {n - i : i \in S}
<1>1. T \in SUBSET Nat /\ T # {}
  <2>1. \A i \in S : n - i \in Nat
    OBVIOUS
  <2> QED BY <2>1
<1>2. \E x \in T : \A y \in T : ~(<<y, x>> \in OpToRel(<, Nat))
  <2> HIDE DEF T
  <2> QED BY <1>1, NatLessThanWellFounded, WFMin
<1>3. PICK i \in S : \A j \in S : ~(<<n - j, n - i>> \in OpToRel(<, Nat))
  BY <1>2
<1>4. ASSUME NEW j \in S PROVE j <= i
  <2> SUFFICES ASSUME i < j PROVE FALSE
    OBVIOUS
  <2>1. n - j \in Nat /\ n - i \in Nat /\ n - j < n - i
    OBVIOUS
  <2>2. <<n - j, n - i>> \in OpToRel(<, Nat)
    BY <2>1 DEF OpToRel
  <2> QED BY <1>3, <2>2
<1> QED BY <1>4 DEF Max

LEMMA HandoffTypes ==
  ASSUME IssuesTypeOK
  PROVE  /\ \A a \in DOMAIN alerts :
              /\ a \in Nat /\ alerts[a] \in AlertRecords /\ alerts[a].rule \in Rules
              /\ alerts[a].opened \in Nat /\ alerts[a].issue \in Times
         /\ \A n \in DOMAIN issues :
              /\ n \in Nat /\ issues[n] \in IssueRecords /\ issues[n].rule \in Rules
              /\ issues[n].names \in SUBSET Nat /\ issues[n].created \in Nat
              /\ issues[n].comments \in Seq(Comments)
         /\ \A q \in Runs :
              /\ runs[q] \in RunRecords /\ runs[q].begun \in Nat /\ runs[q].todo \in SUBSET Nat
              /\ runs[q].ids \in SUBSET Nat /\ runs[q].naming \in SUBSET Nat
<1>1. \A a \in DOMAIN alerts : a \in Nat /\ alerts[a] \in AlertRecords
  BY DEF IssuesTypeOK
<1>2. \A n \in DOMAIN issues : n \in Nat /\ issues[n] \in IssueRecords
  BY DEF IssuesTypeOK
<1>3. \A q \in Runs : runs[q] \in RunRecords
  BY DEF IssuesTypeOK
<1> QED BY <1>1, <1>2, <1>3 DEF AlertRecords, IssueRecords, RunRecords

(* Sequences rewritten in place, and with one more at the end.             *)
LEMMA RewrittenRows ==
  ASSUME alerts \in Seq(AlertRecords), alerts' \in [DOMAIN alerts -> AlertRecords]
  PROVE  alerts' \in Seq(AlertRecords) /\ DOMAIN alerts' = DOMAIN alerts
OBVIOUS

(* A run that moves leaves the others where they were.                     *)
LEMMA RunMoves ==
  ASSUME runs \in [Runs -> RunRecords], NEW r \in Runs, NEW to \in RunRecords, Becomes(r, to)
  PROVE  /\ runs' \in [Runs -> RunRecords]
         /\ runs'[r] = to
         /\ \A q \in Runs \ {r} : runs'[q] = runs[q]
BY DEF Becomes

(* What is settled stays so while rows keep their past and no diagnosis    *)
(* takes up an alert that is over.                                         *)
LEMMA SettledStays ==
  ASSUME IssuesTypeOK, RowsKept,
         \A o \in DOMAIN alerts :
           alerts[o].status # "done" /\ alerts[o].resolved # None /\ (\A q \in Runs : ~InDiagnosis(q, o))
             => alerts'[o].status # "done" /\ \A q \in Runs : ~InDiagnosis(q, o)'
  PROVE  SettledStay
<1> SUFFICES ASSUME NEW rule \in Rules, NEW o \in Nat, SettledOf(rule, o) PROVE SettledOf(rule, o)'
  BY DEF SettledStay
<1>1. o \in DOMAIN alerts /\ RowKept(o)
  BY DEF SettledOf, RowsKept
<1>2. o \in DOMAIN alerts' /\ alerts'[o].rule = alerts[o].rule
  BY <1>1 DEF RowKept
<1>3. ASSUME alerts[o].rule = rule PROVE Settled(o)'
  <2>1. Settled(o)
    BY <1>3 DEF SettledOf
  <2>2. CASE alerts[o].issue # None
    BY <1>1, <2>2 DEF Settled, RowKept
  <2>3. CASE alerts[o].status = "done" /\ ~OfSoftware(alerts[o])
    BY <1>1, <2>3 DEF Settled, RowKept, OfSoftware
  <2>4. CASE alerts[o].status # "done" /\ alerts[o].resolved # None /\ \A q \in Runs : ~InDiagnosis(q, o)
    BY <1>1, <2>4 DEF Settled, RowKept
  <2> QED BY <2>1, <2>2, <2>3, <2>4 DEF Settled
<1> QED BY <1>2, <1>3 DEF SettledOf

-----------------------------------------------------------------------------
(* A step that files nothing under a rule, and opens no issue and names no *)
(* one that joins there.                                                   *)
RuleQuiet(rule) ==
  /\ \A p \in DOMAIN alerts' :
       alerts'[p].rule = rule /\ alerts'[p].issue # None => p \in DOMAIN alerts /\ alerts[p].issue # None
  /\ \A n \in DOMAIN issues' :
       issues'[n].rule = rule => n \in DOMAIN issues /\ Named(n, "refire")' = Named(n, "refire")
  /\ holder'[rule] = holder[rule]

(* What the others do leaves a run that files as sound as it was, as long  *)
(* as they keep off its rule.                                              *)
LEMMA ToFileStays ==
  ASSUME RowsKept, NEW a, ToFile(a) PROVE ToFile(a)'
BY DEF ToFile, RowsKept, RowKept, OfSoftware

LEMMA OfRuleStays ==
  ASSUME RowsKept, NEW rule, NEW a \in OfRule(rule) PROVE a \in OfRule(rule)'
BY DEF OfRule, RowsKept, RowKept

LEMMA AllFiledStays ==
  ASSUME RowsKept, IssuesKept, NEW n \in DOMAIN issues, IssueSound(n), AllFiled(n)
  PROVE  AllFiled(n)'
BY DEF RowsKept, RowKept, IssuesKept, IssueKept, IssueSound, AllFiled, OfRule

LEMMA QuietQueue ==
  ASSUME RowsKept, NEW q \in Runs, runs'[q] = runs[q], QueueSound(q)
  PROVE  QueueSound(q)'
BY ToFileStays DEF QueueSound

LEMMA QuietFiling ==
  ASSUME IssuesTypeOK, RowsKept, IssuesKept, NEW q \in Runs, runs'[q] = runs[q],
         \A n \in DOMAIN issues : IssueSound(n),
         FilingSound(q), runs[q].stage \in Filing => RuleQuiet(runs[q].rule)
  PROVE  FilingSound(q)'
<1> SUFFICES ASSUME runs[q].stage \in Filing PROVE FilingSound(q)'
  BY DEF FilingSound
<1> DEFINE rule == runs[q].rule
           ids  == runs[q].ids
           number == runs[q].number
<1>1. RuleQuiet(rule)
  OBVIOUS
<1>2. rule \in Rules /\ holder'[rule] = q /\ ids # {}
  BY <1>1 DEF FilingSound, RuleQuiet
<1>3. ASSUME NEW a \in ids PROVE Unfiled(a)' /\ alerts'[a].rule = rule
  <2>1. Unfiled(a) /\ alerts[a].rule = rule
    BY DEF FilingSound
  <2>2. ToFile(a)' /\ a \in DOMAIN alerts
    BY <2>1, ToFileStays DEF Unfiled, ToFile
  <2>3. alerts'[a].rule = rule /\ alerts'[a].opened = alerts[a].opened /\ a \in DOMAIN alerts'
    BY <2>1, <2>2 DEF RowsKept, RowKept
  <2>4. alerts'[a].issue = None
    BY <1>1, <2>1, <2>3 DEF RuleQuiet, Unfiled
  <2> QED BY <2>2, <2>3, <2>4 DEF Unfiled
<1>4. ASSUME runs[q].stage \in {"looking", "opening"} PROVE runs[q].found = {} /\ Clear(q)'
  <2>1. runs[q].found = {} /\ Clear(q)
    BY <1>4 DEF FilingSound
  <2>2. ASSUME NEW p \in OfRule(rule)', NEW a \in ids, alerts'[p].issue # None
        PROVE alerts'[p].opened - alerts'[a].opened \notin -RefireWindow..RefireWindow
    <3>1. p \in OfRule(rule) /\ alerts[p].issue # None
      BY <1>1, <2>2 DEF RuleQuiet, OfRule, RowsKept, RowKept
    <3>2. a \in DOMAIN alerts
      BY DEF FilingSound, Unfiled, ToFile
    <3>3. alerts'[p].opened = alerts[p].opened /\ alerts'[a].opened = alerts[a].opened
      BY <3>1, <3>2 DEF RowsKept, RowKept, OfRule
    <3> QED BY <2>1, <3>1, <3>3 DEF Clear
  <2> QED BY <2>1, <2>2 DEF Clear
<1>5. ASSUME At(q, "opening") PROVE NoneSince(q)'
  <2>1. NoneSince(q)
    BY <1>5 DEF FilingSound
  <2>2. ASSUME NEW n \in DOMAIN issues', NEW a \in ids, issues'[n].rule = rule
        PROVE issues'[n].created < alerts'[a].opened - MarkerLookback
    <3>1. n \in DOMAIN issues
      BY <1>1, <2>2 DEF RuleQuiet
    <3>2. issues'[n].created = issues[n].created /\ issues[n].rule = rule
      BY <2>2, <3>1 DEF IssuesKept, IssueKept
    <3>3. a \in DOMAIN alerts
      BY DEF FilingSound, Unfiled, ToFile
    <3>4. alerts'[a].opened = alerts[a].opened
      BY <3>3 DEF RowsKept, RowKept
    <3> QED BY <2>1, <3>1, <3>2, <3>4 DEF NoneSince
  <2> QED BY <2>2 DEF NoneSince
<1>6. ASSUME runs[q].stage \notin {"looking", "opening"} PROVE Target(q)'
  <2>1. Target(q)
    BY <1>6 DEF FilingSound
  <2>2. number \in DOMAIN issues /\ issues[number].rule = rule
    BY <2>1 DEF Target
  <2>3. number \in DOMAIN issues' /\ issues'[number].rule = rule /\ issues'[number].names = issues[number].names
    BY <2>2 DEF IssuesKept, IssueKept
  <2>4. AllFiled(number) => AllFiled(number)'
    BY <2>2, AllFiledStays
  <2> QED BY <2>1, <2>3, <2>4 DEF Target, At
<1>7. ASSUME runs[q].stage \in {"reopening", "commenting"} PROVE Joins(q)'
  <2>1. Joins(q) /\ Target(q)
    BY <1>7 DEF FilingSound
  <2>2. number \in DOMAIN issues /\ issues[number].rule = rule
    BY <2>1 DEF Target
  <2>3. number \in DOMAIN issues' /\ issues'[number].rule = rule
    BY <2>2 DEF IssuesKept, IssueKept
  <2>4. Named(number, "refire")' = Named(number, "refire")
    BY <1>1, <2>3 DEF RuleQuiet
  <2> QED BY <2>1, <2>4 DEF Joins
<1> QED BY <1>2, <1>3, <1>4, <1>5, <1>6, <1>7 DEF FilingSound, At

(* The alerts a run is about to name as recovered are still those of the   *)
(* one issue, and unnamed, unless the step named one of them or it is late. *)
LeavesUnsaid(q) ==
  At(q, "saying") =>
    \/ Late(q)
    \/ \A n \in DOMAIN issues : SaidInTime(n)' \cap runs[q].naming \subseteq SaidInTime(n)

LEMMA QuietSaying ==
  ASSUME IssuesTypeOK, RowsKept, NEW q \in Runs, runs'[q] = runs[q], SayingSound(q),
         \A a \in Nat : RecoverySound(q, a),
         LeavesUnsaid(q), RowsFiled, now' \in Nat, now' >= now
  PROVE  SayingSound(q)'
<1> SUFFICES ASSUME At(q, "saying")
             PROVE  /\ runs[q].naming # {} /\ runs[q].naming \subseteq OfIssue(q)'
                    /\ Late(q)' \/ runs[q].naming \cap SaidInTime(IssueOf(q))' = {}
  BY DEF SayingSound, At
<1>1. runs[q].todo \in SUBSET Nat /\ runs[q] \in RunRecords
  BY DEF IssuesTypeOK, RunRecords
<1>2. \A a \in runs[q].todo : a \in DOMAIN alerts /\ alerts[a].issue # None
  BY <1>1 DEF RecoverySound, InRecovery, At, Recovered
<1>3. \A a \in runs[q].todo : alerts'[a].issue = alerts[a].issue
  BY <1>2 DEF RowsKept, RowKept
<1>4. CASE runs[q].todo = {}
  BY <1>4 DEF SayingSound, OfIssue
<1>5. CASE runs[q].todo # {}
  <2>1. Min(runs[q].todo) \in runs[q].todo
    BY <1>1, <1>5, LeastIsIn
  <2>2. OfIssue(q)' = OfIssue(q)
    BY <1>3, <2>1 DEF OfIssue
  <2>3. Min(runs[q].todo) \in OfIssue(q) /\ OfIssue(q) \in SUBSET Nat
    BY <1>1, <2>1 DEF OfIssue
  <2>4. Min(OfIssue(q)) \in OfIssue(q)
    BY <2>3, LeastIsIn
  <2>5. Min(OfIssue(q)) \in runs[q].todo
    BY <2>4 DEF OfIssue
  <2>6. IssueOf(q)' = IssueOf(q)
    BY <1>3, <2>2, <2>5 DEF IssueOf
  <2>7. IssueOf(q) \in DOMAIN issues
    BY <1>2, <2>5 DEF IssueOf, RowsFiled
  <2>8. PICK n \in DOMAIN issues : n = IssueOf(q)
    BY <2>7
  <2>9. Late(q) \/ SaidInTime(n)' \cap runs[q].naming \subseteq SaidInTime(n)
    BY DEF LeavesUnsaid
  <2>10. SaidInTime(IssueOf(q))' = SaidInTime(n)'
    BY <2>6, <2>8 DEF SaidInTime, CommentsOf
  <2>11. Late(q) => Late(q)'
    BY <1>1, HandoffTypes, HandoffWindows DEF Late, IssuesTypeOK
  <2> QED BY <2>2, <2>8, <2>9, <2>10, <2>11 DEF SayingSound
<1> QED BY <1>4, <1>5

-----------------------------------------------------------------------------
(* The issues: as they were, one more, or one more comment.                *)
LEMMA SilentIssues ==
  ASSUME IssuesTypeOK, IssuesSound, RowsKept, IssuesSilent, SettledStay
  PROVE  /\ IssuesSound' /\ \A n \in DOMAIN issues : SaidInTime(n)' = SaidInTime(n)
         /\ \A n \in DOMAIN issues : \A kind : Named(n, kind)' = Named(n, kind)
<1>1. \A n \in DOMAIN issues : issues'[n].rule = issues[n].rule /\ issues'[n].names = issues[n].names
                               /\ issues'[n].comments = issues[n].comments
  BY DEF IssuesSilent, IssuesKept, IssueKept
<1>2. DOMAIN issues' = DOMAIN issues
  BY DEF IssuesSilent
<1>3. \A n \in DOMAIN issues : \A kind : Named(n, kind)' = Named(n, kind)
  BY <1>1 DEF Named, CommentsOf
<1>7. \A n \in DOMAIN issues : SaidInTime(n)' = SaidInTime(n)
  BY <1>1 DEF SaidInTime, CommentsOf
<1>4. ASSUME NEW n \in DOMAIN issues PROVE IssueSound(n)'
  <2>1. IssueSound(n)
    BY DEF IssuesSound
  <2>2. issues'[n].names \subseteq OfRule(issues[n].rule)'
    BY <1>1, <2>1, OfRuleStays DEF IssueSound
  <2>3. issues[n] \in IssueRecords
    BY DEF IssuesTypeOK
  <2>4. issues[n].rule \in Rules /\ issues[n].comments \in Seq(Comments)
    BY <2>3 DEF IssueRecords
  <2>5. ASSUME NEW i \in DOMAIN issues[n].comments, issues[n].comments[i].kind = "recovery",
               NEW o \in issues[n].comments[i].knew
        PROVE  SettledOf(issues[n].rule, o)'
    <3>1. SettledOf(issues[n].rule, o)
      BY <2>1, <2>5 DEF IssueSound
    <3>2. issues[n].comments[i] \in Comments
      BY <2>4
    <3>3. o \in Nat
      BY <3>2 DEF Comments
    <3>4. PICK rule \in Rules : rule = issues[n].rule
      BY <2>4
    <3>5. SettledOf(rule, o)'
      BY <3>1, <3>3, <3>4 DEF SettledStay
    <3>6. issues'[n].rule = rule
      BY <1>1, <3>4
    <3> QED BY <1>1, <3>5, <3>6 DEF SettledOf
  <2>6. issues'[n].rule = issues[n].rule
    BY <1>1
  <2> QED BY <1>1, <2>2, <2>5 DEF IssueSound, SettledOf, OfRule
<1>5. NamedOnce'
  BY <1>1, <1>2 DEF NamedOnce, IssuesSound
<1>6. NothingJoinsAfterRecovery'
  BY <1>1, <1>2 DEF NothingJoinsAfterRecovery, IssuesSound
<1> QED BY <1>2, <1>3, <1>4, <1>5, <1>6, <1>7 DEF IssuesSound

LEMMA IssueOpens ==
  ASSUME IssuesTypeOK, IssuesSound, RowsKept, SettledStay,
         NEW new \in IssueRecords, new.comments = <<>>, new.names \subseteq OfRule(new.rule),
         issues' = Append(issues, new)
  PROVE  /\ IssuesSound'
         /\ IssuesKept
         /\ issues' \in Seq(IssueRecords)
         /\ Len(issues) + 1 \in DOMAIN issues' /\ issues'[Len(issues) + 1] = new
         /\ DOMAIN issues' = DOMAIN issues \cup {Len(issues) + 1}
         /\ \A n \in DOMAIN issues : \A kind : Named(n, kind)' = Named(n, kind)
<1>0. PICK m : m = Len(issues) + 1
  OBVIOUS
<1>1. /\ issues' \in Seq(IssueRecords)
      /\ DOMAIN issues' = DOMAIN issues \cup {m}
      /\ m \notin DOMAIN issues
      /\ issues'[m] = new
      /\ \A n \in DOMAIN issues : issues'[n] = issues[n]
  BY <1>0 DEF IssuesTypeOK
<1>2. IssuesKept
  BY <1>1 DEF IssuesKept, IssueKept
<1>3. \A n \in DOMAIN issues : \A kind : Named(n, kind)' = Named(n, kind)
  BY <1>1 DEF Named, CommentsOf
<1>4. ASSUME NEW n \in DOMAIN issues PROVE IssueSound(n)'
  <2>1. IssueSound(n)
    BY DEF IssuesSound
  <2>2. issues'[n].names \subseteq OfRule(issues[n].rule)'
    BY <1>1, <2>1, OfRuleStays DEF IssueSound
  <2>3. issues[n] \in IssueRecords
    BY DEF IssuesTypeOK
  <2>4. issues[n].rule \in Rules /\ issues[n].comments \in Seq(Comments)
    BY <2>3 DEF IssueRecords
  <2>5. ASSUME NEW i \in DOMAIN issues[n].comments, issues[n].comments[i].kind = "recovery",
               NEW o \in issues[n].comments[i].knew
        PROVE  SettledOf(issues[n].rule, o)'
    <3>1. SettledOf(issues[n].rule, o)
      BY <2>1, <2>5 DEF IssueSound
    <3>2. issues[n].comments[i] \in Comments
      BY <2>4
    <3>3. o \in Nat
      BY <3>2 DEF Comments
    <3>4. PICK rule \in Rules : rule = issues[n].rule
      BY <2>4
    <3>5. SettledOf(rule, o)'
      BY <3>1, <3>3, <3>4 DEF SettledStay
    <3>6. issues'[n].rule = rule
      BY <1>1, <3>4
    <3> QED BY <1>1, <3>5, <3>6 DEF SettledOf
  <2> QED BY <1>1, <2>2, <2>5 DEF IssueSound, SettledOf, OfRule
<1>5. DOMAIN issues'[m].comments = {}
  BY <1>1
<1>6. IssueSound(m)'
  BY <1>1, <1>5, OfRuleStays DEF IssueSound, OfRule
<1>7. NamedOnce'
  BY <1>1, <1>5 DEF NamedOnce, IssuesSound
<1>8. NothingJoinsAfterRecovery'
  BY <1>1, <1>5 DEF NothingJoinsAfterRecovery, IssuesSound
<1>9. \A n \in DOMAIN issues' : IssueSound(n)'
  BY <1>1, <1>4, <1>6
<1>10. IssuesSound'
  BY <1>7, <1>8, <1>9 DEF IssuesSound
<1> QED BY <1>0, <1>1, <1>2, <1>3, <1>10

(* A comment: the one it adds is last, and says what it says.              *)
LEMMA CommentIsAdded ==
  ASSUME IssuesTypeOK, NEW n \in DOMAIN issues, NEW c \in Comments, Says(n, c)
  PROVE  /\ issues' \in Seq(IssueRecords)
         /\ DOMAIN issues' = DOMAIN issues
         /\ IssuesKept
         /\ \A k \in DOMAIN issues \ {n} : issues'[k] = issues[k]
         /\ DOMAIN issues[n].comments = 1..Len(issues[n].comments)
         /\ issues'[n].comments = Append(issues[n].comments, c)
         /\ DOMAIN issues'[n].comments = DOMAIN issues[n].comments \cup {Len(issues[n].comments) + 1}
         /\ Len(issues[n].comments) + 1 \notin DOMAIN issues[n].comments
         /\ issues'[n].comments[Len(issues[n].comments) + 1] = c
         /\ \A i \in DOMAIN issues[n].comments : issues'[n].comments[i] = issues[n].comments[i]
<1>1. issues \in Seq(IssueRecords) /\ issues[n] \in IssueRecords
  BY DEF IssuesTypeOK
<1> DEFINE says == issues[n].comments
           to == [issues[n] EXCEPT !.comments = Append(@, c)]
<1>2. says \in Seq(Comments)
  BY <1>1 DEF IssueRecords
<1>3. /\ Append(says, c) \in Seq(Comments)
      /\ DOMAIN says = 1..Len(says)
      /\ DOMAIN Append(says, c) = DOMAIN says \cup {Len(says) + 1}
      /\ Len(says) + 1 \notin DOMAIN says
      /\ Append(says, c)[Len(says) + 1] = c
      /\ \A i \in DOMAIN says : Append(says, c)[i] = says[i]
  BY <1>2
<1>4. /\ to \in IssueRecords /\ to.comments = Append(says, c)
      /\ to.rule = issues[n].rule /\ to.names = issues[n].names /\ to.created = issues[n].created
  BY <1>1, <1>3 DEF IssueRecords
<1>5. issues' = [issues EXCEPT ![n] = to]
  BY DEF Says
<1> HIDE DEF to
<1>6. /\ issues' \in Seq(IssueRecords)
      /\ DOMAIN issues' = DOMAIN issues
      /\ issues'[n] = to
      /\ \A k \in DOMAIN issues \ {n} : issues'[k] = issues[k]
  BY <1>1, <1>4, <1>5
<1>7. IssuesKept
  BY <1>4, <1>6 DEF IssuesKept, IssueKept
<1> QED BY <1>3, <1>4, <1>6, <1>7

(* A comment that names nobody again in time, and does not add to an issue whom a  *)
(* comment that it was over knew of.                                       *)
LEMMA CommentIsSound ==
  ASSUME IssuesTypeOK, IssuesSound, RowsKept, SettledStay,
         NEW n \in DOMAIN issues, NEW c \in Comments, Says(n, c),
         c.kind = "recovery" => c.slow \/ c.names \cap SaidInTime(n) = {},
         c.kind = "refire" => /\ c.names \cap Named(n, "refire") = {}
                              /\ c.names \cap issues[n].names = {}
                              /\ \A o \in c.names : ~SettledOf(issues[n].rule, o),
         c.kind = "recovery" => \A o \in c.knew : SettledOf(issues[n].rule, o)
  PROVE  /\ IssuesSound'
         /\ \A k \in DOMAIN issues : \A kind : k # n \/ kind # c.kind => Named(k, kind)' = Named(k, kind)
         /\ \A k \in DOMAIN issues : k # n \/ c.kind = "refire" => SaidInTime(k)' = SaidInTime(k)
         /\ SaidInTime(n)' \subseteq SaidInTime(n) \cup {a \in c.names : ~c.slow}
<1>0. PICK last : last = Len(issues[n].comments) + 1
  OBVIOUS
<1>1. /\ DOMAIN issues' = DOMAIN issues
      /\ IssuesKept
      /\ \A k \in DOMAIN issues \ {n} : issues'[k] = issues[k]
      /\ DOMAIN issues'[n].comments = DOMAIN issues[n].comments \cup {last}
      /\ last \notin DOMAIN issues[n].comments
      /\ issues'[n].comments[last] = c
      /\ \A i \in DOMAIN issues[n].comments : issues'[n].comments[i] = issues[n].comments[i]
      /\ \A i \in DOMAIN issues[n].comments : i < last
  <2>1. issues[n] \in IssueRecords
    BY DEF IssuesTypeOK
  <2>2. issues[n].comments \in Seq(Comments)
    BY <2>1 DEF IssueRecords
  <2>3. \A i \in DOMAIN issues[n].comments : i < last
    BY <1>0, <2>2
  <2> QED BY <1>0, <2>3, CommentIsAdded
<1>2. \A k \in DOMAIN issues : issues'[k].rule = issues[k].rule /\ issues'[k].names = issues[k].names
  BY <1>1 DEF IssuesKept, IssueKept
<1>3. ASSUME NEW k \in DOMAIN issues, NEW kind, k # n \/ kind # c.kind
      PROVE Named(k, kind)' = Named(k, kind)
  <2>1. CASE k # n
    BY <1>1, <2>1 DEF Named, CommentsOf
  <2>2. CASE k = n /\ kind # c.kind
    <3>1. CommentsOf(n, kind)' = CommentsOf(n, kind)
      BY <1>1, <2>2 DEF CommentsOf
    <3>2. \A i \in CommentsOf(n, kind) : issues'[n].comments[i] = issues[n].comments[i]
      BY <1>1 DEF CommentsOf
    <3> QED BY <2>2, <3>1, <3>2 DEF Named
  <2> QED BY <1>3, <2>1, <2>2
<1>4. /\ \A k \in DOMAIN issues : k # n \/ c.kind = "refire" => SaidInTime(k)' = SaidInTime(k)
      /\ SaidInTime(n)' \subseteq SaidInTime(n) \cup {a \in c.names : ~c.slow}
  <2>1. \A k \in DOMAIN issues \ {n} : SaidInTime(k)' = SaidInTime(k)
    BY <1>1 DEF SaidInTime, CommentsOf
  <2>2. \A i \in CommentsOf(n, "recovery") : i \in CommentsOf(n, "recovery")' /\ issues'[n].comments[i] = issues[n].comments[i]
    BY <1>1 DEF CommentsOf
  <2>3. \A i \in CommentsOf(n, "recovery")' : i \in CommentsOf(n, "recovery") \/ (i = last /\ c.kind = "recovery")
    BY <1>1 DEF CommentsOf
  <2>4. SaidInTime(n) \subseteq SaidInTime(n)'
    BY <2>2 DEF SaidInTime
  <2>5. SaidInTime(n)' \subseteq SaidInTime(n) \cup {a \in c.names : c.kind = "recovery" /\ ~c.slow}
    BY <1>1, <2>2, <2>3 DEF SaidInTime
  <2> QED BY <2>1, <2>4, <2>5
<1>5. ASSUME NEW k \in DOMAIN issues PROVE IssueSound(k)'
  <2>1. IssueSound(k)
    BY DEF IssuesSound
  <2>2. issues'[k].names \subseteq OfRule(issues[k].rule)'
    BY <1>2, <2>1, OfRuleStays DEF IssueSound
  <2>3. issues[k] \in IssueRecords
    BY DEF IssuesTypeOK
  <2>4. issues[k].rule \in Rules /\ issues[k].comments \in Seq(Comments)
    BY <2>3 DEF IssueRecords
  <2>5. PICK rule \in Rules : rule = issues[k].rule
    BY <2>4
  <2>6. ASSUME NEW o \in Nat, SettledOf(rule, o) PROVE SettledOf(rule, o)'
    BY <2>6 DEF SettledStay
  <2>7. ASSUME NEW i \in DOMAIN issues[k].comments, issues[k].comments[i].kind = "recovery",
               NEW o \in issues[k].comments[i].knew
        PROVE  SettledOf(rule, o)'
    <3>1. SettledOf(rule, o)
      BY <2>1, <2>5, <2>7 DEF IssueSound
    <3>2. issues[k].comments[i] \in Comments
      BY <2>4
    <3>3. o \in Nat
      BY <3>2 DEF Comments
    <3> QED BY <2>6, <3>1, <3>3
  <2>8. ASSUME k = n, c.kind = "recovery", NEW o \in c.knew PROVE SettledOf(rule, o)'
    <3>1. o \in Nat
      BY DEF Comments
    <3> QED BY <2>5, <2>6, <2>8, <3>1
  <2>9. issues'[k].rule = rule
    BY <1>2, <2>5
  <2>10. ASSUME NEW i \in DOMAIN issues'[k].comments, issues'[k].comments[i].kind = "recovery",
                NEW o \in issues'[k].comments[i].knew
         PROVE  SettledOf(rule, o)'
    BY <1>1, <2>7, <2>8, <2>10
  <2> QED BY <2>2, <2>5, <2>9, <2>10 DEF IssueSound, SettledOf, OfRule
<1>6. NamedOnce'
  <2>1. NamedOnce
    BY DEF IssuesSound
  <2>2. ASSUME NEW i \in DOMAIN issues[n].comments, issues[n].comments[i].kind = c.kind
        PROVE \/ issues[n].comments[i].names \cap c.names = {}
              \/ c.kind = "recovery" /\ (issues[n].comments[i].slow \/ c.slow)
    <3>1. CASE c.kind = "refire"
      BY <2>2, <3>1 DEF Named, CommentsOf
    <3>2. CASE c.kind = "recovery"
      BY <2>2, <3>2 DEF SaidInTime, CommentsOf
    <3> QED BY <3>1, <3>2 DEF Comments
  <2> DEFINE Once(k, i, j) ==
               LET says == issues'[k].comments
               IN  /\ i # j /\ says[i].kind = says[j].kind /\ says[i].names \cap says[j].names # {}
                        => says[i].kind = "recovery" /\ (says[i].slow \/ says[j].slow)
                   /\ says[i].kind = "refire" => says[i].names \cap issues'[k].names = {}
  <2>3. ASSUME NEW k \in DOMAIN issues, k # n,
               NEW i \in DOMAIN issues'[k].comments, NEW j \in DOMAIN issues'[k].comments
        PROVE Once(k, i, j)
    BY <1>1, <1>2, <2>1, <2>3 DEF NamedOnce
  <2>4. ASSUME NEW i \in DOMAIN issues'[n].comments, NEW j \in DOMAIN issues'[n].comments
        PROVE Once(n, i, j)
    <3>1. CASE i # last /\ j # last
      BY <1>1, <1>2, <2>1, <3>1 DEF NamedOnce
    <3>2. CASE i = last /\ j # last
      BY <1>1, <1>2, <2>2, <3>2
    <3>3. CASE i # last /\ j = last
      BY <1>1, <1>2, <2>1, <2>2, <3>3 DEF NamedOnce
    <3>4. CASE i = last /\ j = last
      BY <1>1, <1>2, <3>4
    <3> QED BY <3>1, <3>2, <3>3, <3>4
  <2> QED BY <1>1, <2>3, <2>4 DEF NamedOnce
<1>7. NothingJoinsAfterRecovery'
  <2>1. NothingJoinsAfterRecovery
    BY DEF IssuesSound
  <2>2. ASSUME NEW i \in DOMAIN issues[n].comments, issues[n].comments[i].kind = "recovery", c.kind = "refire"
        PROVE c.names \cap issues[n].comments[i].knew = {}
    BY <2>2 DEF IssuesSound, IssueSound
  <2>3. ASSUME NEW k \in DOMAIN issues,
               NEW i \in DOMAIN issues'[k].comments, NEW j \in DOMAIN issues'[k].comments,
               issues'[k].comments[i].kind = "recovery", issues'[k].comments[j].kind = "refire", i < j
        PROVE issues'[k].comments[j].names \cap issues'[k].comments[i].knew = {}
    <3>1. CASE k # n
      BY <1>1, <2>1, <2>3, <3>1 DEF NothingJoinsAfterRecovery
    <3>2. CASE k = n /\ i # last /\ j # last
      BY <1>1, <2>1, <2>3, <3>2 DEF NothingJoinsAfterRecovery
    <3>3. CASE k = n /\ i # last /\ j = last
      BY <1>1, <2>2, <2>3, <3>3
    <3>4. CASE k = n /\ i = last
      <4>1. j # last /\ j \in DOMAIN issues[n].comments
        BY <1>1, <2>3, <3>4
      <4>2. j < last
        BY <1>1, <4>1
      <4>3. last \in Nat /\ j \in Nat
        <5>1. issues[n] \in IssueRecords
          BY DEF IssuesTypeOK
        <5>2. issues[n].comments \in Seq(Comments)
          BY <5>1 DEF IssueRecords
        <5> QED BY <1>0, <4>1, <5>2
      <4> QED BY <2>3, <3>4, <4>2, <4>3
    <3> QED BY <3>1, <3>2, <3>3, <3>4
  <2> QED BY <1>1, <2>3 DEF NothingJoinsAfterRecovery
<1>8. IssuesSound'
  BY <1>1, <1>5, <1>6, <1>7 DEF IssuesSound
<1> QED BY <1>3, <1>4, <1>8

-----------------------------------------------------------------------------
LEMMA EndedIs ==
  Ended \in RunRecords /\ Ended.stage = "idle" /\ Ended.todo = {}
BY DEF Ended, RunRecords, Times

(* The rows.                                                               *)
LEMMA RowsFiledStay ==
  ASSUME RowsFiled, RowsKept, NothingFiled, IssuesKept, \A n \in DOMAIN issues : IssueSound(n)
  PROVE  RowsFiled'
<1> SUFFICES ASSUME NEW a \in DOMAIN alerts', alerts'[a].issue # None
             PROVE  /\ alerts'[a].issue \in DOMAIN issues'
                    /\ issues'[alerts'[a].issue].rule = alerts'[a].rule
                    /\ AllFiled(alerts[a].issue)'
  BY DEF RowsFiled
<1>1. a \in DOMAIN alerts /\ alerts'[a].issue = alerts[a].issue /\ alerts'[a].rule = alerts[a].rule
  BY DEF NothingFiled, RowsKept, RowKept
<1>2. PICK n \in DOMAIN issues : n = alerts[a].issue /\ issues[n].rule = alerts[a].rule /\ AllFiled(n)
  BY <1>1 DEF RowsFiled
<1>3. AllFiled(n)'
  BY <1>2, AllFiledStays
<1>4. n \in DOMAIN issues' /\ issues'[n].rule = issues[n].rule
  BY DEF IssuesKept, IssueKept
<1> QED BY <1>1, <1>2, <1>3, <1>4 DEF AllFiled

(* While a run files, nothing moves under another rule.                    *)
OthersIssues(rule) ==
  /\ IssuesKept
  /\ \A n \in DOMAIN issues' :
       issues'[n].rule # rule => n \in DOMAIN issues /\ Named(n, "refire")' = Named(n, "refire")

LEMMA FilingRuns ==
  ASSUME HandoffInv, NEW r \in Runs, runs[r].stage \in Filing
  PROVE  /\ runs[r] \in RunRecords /\ runs[r].rule \in Rules /\ holder[runs[r].rule] = r
         /\ \A q \in Runs \ {r} : runs[q].stage \in Filing => runs[q].rule # runs[r].rule
         /\ FilingSound(r) /\ QueueSound(r) /\ InTime(r)
BY DEF HandoffInv, FilingSound, IssuesTypeOK

LEMMA DiagnosesStay ==
  ASSUME \A q \in Runs, a \in Nat : DiagnosisSound(q, a), RowsKept,
         \A q \in Runs, a \in Nat :
           InDiagnosis(q, a)' => /\ InDiagnosis(q, a) /\ runs'[q].begun = runs[q].begun
                                 /\ alerts'[a].status = alerts[a].status /\ alerts'[a].at = alerts[a].at
  PROVE  \A q \in Runs, a \in Nat : DiagnosisSound(q, a)'
<1> SUFFICES ASSUME NEW q \in Runs, NEW a \in Nat, InDiagnosis(q, a)'
             PROVE  /\ a \in DOMAIN alerts' /\ alerts'[a].status = "pending"
                    /\ alerts'[a].at # None /\ alerts'[a].at >= runs'[q].begun
                    /\ \A p \in Runs : InDiagnosis(p, a)' => p = q
  BY DEF DiagnosisSound
<1>1. InDiagnosis(q, a) /\ DiagnosisSound(q, a)
  OBVIOUS
<1>2. a \in DOMAIN alerts
  BY <1>1 DEF DiagnosisSound
<1>3. a \in DOMAIN alerts'
  BY <1>2 DEF RowsKept, RowKept
<1> QED BY <1>1, <1>3 DEF DiagnosisSound

LEMMA RecoveriesStay ==
  ASSUME IssuesTypeOK, \A q \in Runs, a \in Nat : RecoverySound(q, a), RowsKept, SettledStay,
         \A q \in Runs, a \in Nat :
           InRecovery(q, a)' => /\ InRecovery(q, a) /\ runs'[q].begun = runs[q].begun
                                /\ runs'[q].knew = runs[q].knew /\ alerts'[a].saying = alerts[a].saying
  PROVE  \A q \in Runs, a \in Nat : RecoverySound(q, a)'
<1> SUFFICES ASSUME NEW q \in Runs, NEW a \in Nat, InRecovery(q, a)'
             PROVE  /\ a \in DOMAIN alerts' /\ alerts'[a].issue # None
                    /\ alerts'[a].saying # None /\ alerts'[a].saying >= runs'[q].begun
                    /\ \A p \in Runs : InRecovery(p, a)' => p = q \/ Apart(runs'[p].begun, runs'[q].begun)
                    /\ \A o \in runs'[q].knew : SettledOf(alerts[a].rule, o)'
  BY DEF RecoverySound, Apart
<1>1. InRecovery(q, a) /\ RecoverySound(q, a)
  OBVIOUS
<1>2. a \in DOMAIN alerts /\ alerts[a].issue # None
  BY <1>1 DEF RecoverySound
<1>3. a \in DOMAIN alerts' /\ alerts'[a].issue # None /\ alerts'[a].rule = alerts[a].rule
  BY <1>2 DEF RowsKept, RowKept
<1>4. ASSUME NEW o \in runs'[q].knew PROVE SettledOf(alerts[a].rule, o)'
  <2>1. o \in runs[q].knew /\ SettledOf(alerts[a].rule, o)
    BY <1>1 DEF RecoverySound
  <2>2. runs[q] \in RunRecords /\ alerts[a] \in AlertRecords
    BY <1>2 DEF IssuesTypeOK
  <2>3. o \in Nat /\ alerts[a].rule \in Rules
    BY <2>1, <2>2 DEF RunRecords, AlertRecords
  <2>4. PICK rule \in Rules : rule = alerts[a].rule
    BY <2>3
  <2>5. SettledOf(rule, o)'
    BY <2>1, <2>3, <2>4 DEF SettledStay
  <2> QED BY <1>3, <2>4, <2>5 DEF SettledOf
<1> QED BY <1>1, <1>3, <1>4 DEF RecoverySound

(* The runs that do not move.                                              *)
LEMMA QuietRuns ==
  ASSUME HandoffInv, RowsKept, IssuesKept, NEW q \in Runs, runs'[q] = runs[q],
         runs[q].stage \in Filing => RuleQuiet(runs[q].rule),
         LeavesUnsaid(q), now' \in Nat, now' >= now
  PROVE  SayingSound(q)' /\ QueueSound(q)' /\ FilingSound(q)'
<1>1. QueueSound(q)'
  BY QuietQueue DEF HandoffInv
<1>2. FilingSound(q)'
  BY QuietFiling DEF HandoffInv
<1>3. SayingSound(q)'
  BY QuietSaying DEF HandoffInv
<1> QED BY <1>1, <1>2, <1>3

(* A step of one run is sound when its own part is and it leaves the       *)
(* others alone.                                                           *)
LEMMA StepIsSound ==
  ASSUME HandoffInv, NEW r \in Runs, now' = now, IssuesTypeOK',
         RowsKept, RowsFiled', IssuesKept, IssuesSound',
         \A q \in Runs, a \in Nat : DiagnosisSound(q, a)' /\ RecoverySound(q, a)',
         \A q \in Runs \ {r} :
           /\ runs'[q] = runs[q]
           /\ runs[q].stage \in Filing => RuleQuiet(runs[q].rule)
           /\ LeavesUnsaid(q),
         InTime(r)', SayingSound(r)', QueueSound(r)', FilingSound(r)'
  PROVE  HandoffInv'
<1>1. ASSUME NEW q \in Runs \ {r} PROVE InTime(q)' /\ SayingSound(q)' /\ QueueSound(q)' /\ FilingSound(q)'
  <2>1. InTime(q)'
    BY DEF HandoffInv, InTime, Timely
  <2>2. now' \in Nat /\ now' >= now
    BY DEF HandoffInv, IssuesTypeOK
  <2> QED BY <2>1, <2>2, QuietRuns
<1>2. \A q \in Runs : InTime(q)' /\ SayingSound(q)' /\ QueueSound(q)' /\ FilingSound(q)'
  BY <1>1
<1> QED BY <1>2 DEF HandoffInv, IssuesSound

(* The end of a transaction: the alerts it records are on the issue, which *)
(* is one of their rule and was opened for nobody else who is unfiled.     *)
LEMMA FilesFile ==
  ASSUME HandoffInv, NEW r \in Runs, runs[r].stage \in Filing,
         NEW filed \in SUBSET OfRule(runs[r].rule), Files(r, filed),
         OthersIssues(runs[r].rule), issues' \in Seq(IssueRecords), now' = now,
         filed # {} => /\ runs[r].number \in DOMAIN issues'
                       /\ issues'[runs[r].number].rule = runs[r].rule
                       /\ \A a \in issues'[runs[r].number].names :
                            a \in DOMAIN alerts /\ (alerts[a].issue # None \/ a \in filed)
  PROVE  /\ RowsKept /\ RowsFiled' /\ SettledStay
         /\ alerts' \in Seq(AlertRecords) /\ runs' \in [Runs -> RunRecords]
         /\ holder' \in [Rules -> Runs \cup {None}]
         /\ \A q \in Runs \ {r} : runs'[q] = runs[q] /\ (runs[q].stage \in Filing => RuleQuiet(runs[q].rule))
         /\ InTime(r)' /\ SayingSound(r)' /\ QueueSound(r)' /\ FilingSound(r)'
         /\ \A q \in Runs, a \in Nat : DiagnosisSound(q, a)' /\ RecoverySound(q, a)'
<1> DEFINE to == IF runs[r].todo = {} THEN Ended ELSE [Ended EXCEPT !.stage = "filing", !.todo = runs[r].todo]
           rule == runs[r].rule
<1>1. IssuesTypeOK /\ RowsFiled
  BY DEF HandoffInv
<1>2. /\ runs[r] \in RunRecords /\ rule \in Rules /\ holder[rule] = r
      /\ \A q \in Runs \ {r} : runs[q].stage \in Filing => runs[q].rule # rule
      /\ FilingSound(r) /\ QueueSound(r) /\ InTime(r)
  BY FilingRuns
<1>3. /\ to \in RunRecords /\ to.stage \in {"idle", "filing"} /\ to.todo = runs[r].todo
  BY <1>2, HandoffWindows DEF Ended, RunRecords, Times
<1>4. Becomes(r, to)
  BY DEF Files
<1> HIDE DEF to
<1>5. runs' \in [Runs -> RunRecords] /\ runs'[r] = to /\ \A q \in Runs \ {r} : runs'[q] = runs[q]
  BY <1>1, <1>3, <1>4, RunMoves DEF IssuesTypeOK
<1>6. ASSUME NEW a \in DOMAIN alerts
      PROVE  /\ alerts[a] \in AlertRecords /\ alerts'[a] \in AlertRecords
             /\ a \in filed => alerts'[a].issue # None
             /\ a \notin filed => alerts'[a] = alerts[a]
             /\ alerts[a].issue # None => alerts'[a].issue = alerts[a].issue
             /\ alerts[a].issue = None /\ a \in filed => alerts'[a].issue = runs[r].number
             /\ alerts'[a].rule = alerts[a].rule /\ alerts'[a].opened = alerts[a].opened
             /\ alerts'[a].resolved = alerts[a].resolved /\ alerts'[a].status = alerts[a].status
             /\ alerts'[a].at = alerts[a].at /\ alerts'[a].software = alerts[a].software
             /\ alerts'[a].saying = alerts[a].saying
  <2>1. alerts[a] \in AlertRecords
    BY <1>1 DEF IssuesTypeOK
  <2>2. alerts'[a] = IF a \in filed /\ alerts[a].issue = None THEN [alerts[a] EXCEPT !.issue = runs[r].number]
                     ELSE alerts[a]
    BY DEF Files
  <2>3. CASE a \in filed /\ alerts[a].issue = None
    <3>1. runs[r].number \in Nat
      BY <2>3
    <3> DEFINE b == [alerts[a] EXCEPT !.issue = runs[r].number]
    <3>2. b \in AlertRecords
      BY <2>1, <3>1 DEF AlertRecords, Times
    <3>3. /\ b.issue = runs[r].number /\ b.issue # None
          /\ b.rule = alerts[a].rule /\ b.opened = alerts[a].opened /\ b.resolved = alerts[a].resolved
          /\ b.status = alerts[a].status /\ b.at = alerts[a].at /\ b.software = alerts[a].software
          /\ b.saying = alerts[a].saying
      BY <2>1, <3>1, HandoffWindows DEF AlertRecords
    <3>4. alerts'[a] = b
      BY <2>2, <2>3
    <3> HIDE DEF b
    <3> QED BY <2>1, <2>3, <3>2, <3>3, <3>4
  <2>4. CASE ~(a \in filed /\ alerts[a].issue = None)
    BY <2>1, <2>2, <2>4
  <2> QED BY <2>3, <2>4
<1>7. alerts' \in Seq(AlertRecords) /\ DOMAIN alerts' = DOMAIN alerts
  <2>1. alerts' \in [DOMAIN alerts -> AlertRecords]
    BY <1>6 DEF Files
  <2> QED BY <1>1, <2>1, RewrittenRows DEF IssuesTypeOK
<1>8. RowsKept
  BY <1>6, <1>7 DEF RowsKept, RowKept
<1>9. holder' \in [Rules -> Runs \cup {None}] /\ \A l \in Rules \ {rule} : holder'[l] = holder[l]
  BY <1>1, <1>2 DEF Files, IssuesTypeOK
<1>10. \A q \in Runs : runs'[q].stage \in {"diagnosing"} \cup Recovered => runs'[q] = runs[q]
  BY <1>3, <1>5 DEF Recovered
<1>11. SettledStay
  <2>1. \A o \in DOMAIN alerts : o \in Nat
    BY <1>1 DEF IssuesTypeOK
  <2>2. ASSUME NEW o \in DOMAIN alerts, alerts[o].status # "done", \A q \in Runs : ~InDiagnosis(q, o)
        PROVE  alerts'[o].status # "done" /\ \A q \in Runs : ~InDiagnosis(q, o)'
    <3>1. \A q \in Runs : ~InDiagnosis(q, o)'
      BY <1>10, <2>1, <2>2 DEF InDiagnosis, At
    <3>2. alerts'[o].status = alerts[o].status
      BY <1>6
    <3> QED BY <2>2, <3>1, <3>2
  <2> QED BY <1>1, <1>8, <2>2, SettledStays
<1>12. RowsFiled'
  <2> SUFFICES ASSUME NEW a \in DOMAIN alerts', alerts'[a].issue # None
               PROVE  \E n \in DOMAIN issues' : /\ n = alerts'[a].issue
                                                /\ issues'[n].rule = alerts'[a].rule
                                                /\ \A b \in issues'[n].names : alerts'[b].issue # None
    BY DEF RowsFiled, AllFiled
  <2>1. CASE alerts[a].issue # None
    <3>1. PICK n \in DOMAIN issues : n = alerts[a].issue /\ issues[n].rule = alerts[a].rule /\ AllFiled(n)
      BY <1>1, <1>7, <2>1 DEF RowsFiled
    <3>2. AllFiled(n)' /\ IssueKept(n)
      BY <1>8, <3>1, AllFiledStays DEF OthersIssues, IssuesKept, HandoffInv
    <3>3. alerts'[a].issue = n /\ alerts'[a].rule = alerts[a].rule
      BY <1>6, <1>7, <2>1, <3>1
    <3> QED BY <3>1, <3>2, <3>3 DEF IssueKept, AllFiled
  <2>2. CASE alerts[a].issue = None
    <3>1. a \in filed /\ alerts'[a].issue = runs[r].number
      BY <1>6, <1>7, <2>2
    <3>2. alerts'[a].rule = rule
      BY <1>6, <1>7, <3>1 DEF OfRule
    <3>3. ASSUME NEW b \in issues'[runs[r].number].names PROVE alerts'[b].issue # None
      <4>1. b \in DOMAIN alerts /\ (alerts[b].issue # None \/ b \in filed)
        BY <3>1
      <4> QED BY <1>6, <4>1
    <3> QED BY <3>1, <3>2, <3>3
  <2> QED BY <2>1, <2>2
<1>13. ASSUME NEW q \in Runs \ {r}, runs[q].stage \in Filing PROVE RuleQuiet(runs[q].rule)
  <2>1. runs[q].rule # rule /\ runs[q].rule \in Rules
    BY <1>2, <1>13 DEF HandoffInv, FilingSound
  <2>2. holder'[runs[q].rule] = holder[runs[q].rule]
    BY <1>9, <2>1
  <2>3. ASSUME NEW p \in DOMAIN alerts', alerts'[p].rule = runs[q].rule, alerts'[p].issue # None
        PROVE p \in DOMAIN alerts /\ alerts[p].issue # None
    BY <1>6, <1>7, <2>1, <2>3 DEF OfRule
  <2> QED BY <2>1, <2>2, <2>3 DEF RuleQuiet, OthersIssues
<1>14. InTime(r)' /\ SayingSound(r)' /\ FilingSound(r)'
  BY <1>2, <1>3, <1>5 DEF InTime, Timely, Recovered, SayingSound, FilingSound, At, Filing
<1>15. QueueSound(r)'
  BY <1>2, <1>3, <1>5, <1>8, ToFileStays DEF QueueSound
<1>16. \A q \in Runs, a \in Nat : DiagnosisSound(q, a)'
  <2>1. \A q \in Runs, a \in Nat : InDiagnosis(q, a) => a \in DOMAIN alerts
    BY DEF HandoffInv, DiagnosisSound
  <2>2. ASSUME NEW q \in Runs, NEW a \in Nat, InDiagnosis(q, a)'
        PROVE  /\ InDiagnosis(q, a) /\ runs'[q].begun = runs[q].begun
               /\ alerts'[a].status = alerts[a].status /\ alerts'[a].at = alerts[a].at
    <3>1. InDiagnosis(q, a) /\ runs'[q] = runs[q]
      BY <1>10, <2>2 DEF InDiagnosis, At
    <3>2. a \in DOMAIN alerts
      BY <2>1, <3>1
    <3> QED BY <1>6, <3>1, <3>2
  <2> QED BY <1>8, <2>2, DiagnosesStay DEF HandoffInv
<1>17. \A q \in Runs, a \in Nat : RecoverySound(q, a)'
  <2>1. \A q \in Runs, a \in Nat : InRecovery(q, a) => a \in DOMAIN alerts
    BY DEF HandoffInv, RecoverySound
  <2>2. ASSUME NEW q \in Runs, NEW a \in Nat, InRecovery(q, a)'
        PROVE  /\ InRecovery(q, a) /\ runs'[q].begun = runs[q].begun
               /\ runs'[q].knew = runs[q].knew /\ alerts'[a].saying = alerts[a].saying
    <3>1. InRecovery(q, a) /\ runs'[q] = runs[q]
      BY <1>10, <2>2 DEF InRecovery
    <3>2. a \in DOMAIN alerts
      BY <2>1, <3>1
    <3> QED BY <1>6, <3>1, <3>2
  <2> QED BY <1>1, <1>8, <1>11, <2>2, RecoveriesStay DEF HandoffInv
<1> QED BY <1>5, <1>7, <1>8, <1>9, <1>11, <1>12, <1>13, <1>14, <1>15, <1>16, <1>17

(* Steps that claim nothing: a run does part of what it claimed, or drops  *)
(* it.                                                                     *)
ClaimsShrink ==
  \A q \in Runs :
    /\ runs'[q].stage = "diagnosing" =>
         runs[q].stage = "diagnosing" /\ runs'[q].todo \subseteq runs[q].todo /\ runs'[q].begun = runs[q].begun
    /\ runs'[q].stage \in Recovered =>
         /\ runs[q].stage \in Recovered /\ runs'[q].todo \subseteq runs[q].todo
         /\ runs'[q].begun = runs[q].begun /\ runs'[q].knew = runs[q].knew

LEMMA ClaimsStaySound ==
  ASSUME HandoffInv, RowsKept, ClaimsShrink,
         \A a \in DOMAIN alerts : /\ alerts'[a].status = alerts[a].status /\ alerts'[a].at = alerts[a].at
                                  /\ alerts'[a].saying = alerts[a].saying
  PROVE  SettledStay /\ \A q \in Runs, a \in Nat : DiagnosisSound(q, a)' /\ RecoverySound(q, a)'
<1>1. IssuesTypeOK
  BY DEF HandoffInv
<1>2. \A q \in Runs, a \in Nat : InDiagnosis(q, a) => a \in DOMAIN alerts
  BY DEF HandoffInv, DiagnosisSound
<1>3. \A q \in Runs, a \in Nat : InRecovery(q, a) => a \in DOMAIN alerts
  BY DEF HandoffInv, RecoverySound
<1>4. SettledStay
  <2>1. ASSUME NEW o \in DOMAIN alerts, alerts[o].status # "done", \A q \in Runs : ~InDiagnosis(q, o)
        PROVE  alerts'[o].status # "done" /\ \A q \in Runs : ~InDiagnosis(q, o)'
    BY <2>1 DEF InDiagnosis, At, ClaimsShrink
  <2> QED BY <1>1, <2>1, SettledStays
<1>5. \A q \in Runs, a \in Nat : DiagnosisSound(q, a)'
  <2>1. ASSUME NEW q \in Runs, NEW a \in Nat, InDiagnosis(q, a)'
        PROVE  /\ InDiagnosis(q, a) /\ runs'[q].begun = runs[q].begun
               /\ alerts'[a].status = alerts[a].status /\ alerts'[a].at = alerts[a].at
    <3>1. InDiagnosis(q, a) /\ runs'[q].begun = runs[q].begun
      BY <2>1 DEF InDiagnosis, At, ClaimsShrink
    <3>2. a \in DOMAIN alerts
      BY <1>2, <3>1
    <3> QED BY <3>1, <3>2
  <2> QED BY <2>1, DiagnosesStay DEF HandoffInv
<1>6. \A q \in Runs, a \in Nat : RecoverySound(q, a)'
  <2>1. ASSUME NEW q \in Runs, NEW a \in Nat, InRecovery(q, a)'
        PROVE  /\ InRecovery(q, a) /\ runs'[q].begun = runs[q].begun
               /\ runs'[q].knew = runs[q].knew /\ alerts'[a].saying = alerts[a].saying
    <3>1. InRecovery(q, a) /\ runs'[q].begun = runs[q].begun /\ runs'[q].knew = runs[q].knew
      BY <2>1 DEF InRecovery, ClaimsShrink
    <3>2. a \in DOMAIN alerts
      BY <1>3, <3>1
    <3> QED BY <3>1, <3>2
  <2> QED BY <1>1, <1>4, <2>1, RecoveriesStay DEF HandoffInv
<1> QED BY <1>4, <1>5, <1>6

LEMMA RowsUnmoved ==
  ASSUME alerts' = alerts PROVE RowsKept /\ NothingFiled
BY DEF RowsKept, RowKept, NothingFiled

LEMMA IssuesUnmoved ==
  ASSUME UNCHANGED issues PROVE IssuesSilent /\ IssuesKept
BY DEF IssuesSilent, IssuesKept, IssueKept

(* A run that files takes its next step.                                   *)
LEMMA FilingMoves ==
  ASSUME HandoffInv, NEW r \in Runs, runs[r].stage \in Filing,
         NEW to \in RunRecords, Becomes(r, to), to.stage \in Filing,
         to.begun = runs[r].begun, to.todo = runs[r].todo,
         UNCHANGED <<now, alerts, holder>>, failures' \in Nat, happenings' \in Nat,
         OthersIssues(runs[r].rule), issues' \in Seq(IssueRecords),
         RowsKept /\ SettledStay => IssuesSound',
         \A n \in DOMAIN issues : SaidInTime(n)' = SaidInTime(n),
         FilingSound(r)'
  PROVE  HandoffInv'
<1>1. IssuesTypeOK /\ RowsFiled /\ \A n \in DOMAIN issues : IssueSound(n)
  BY DEF HandoffInv
<1>2. /\ \A q \in Runs \ {r} : runs[q].stage \in Filing => runs[q].rule # runs[r].rule
      /\ QueueSound(r) /\ InTime(r)
  BY FilingRuns
<1>3. runs' \in [Runs -> RunRecords] /\ runs'[r] = to /\ \A q \in Runs \ {r} : runs'[q] = runs[q]
  BY <1>1, RunMoves DEF IssuesTypeOK
<1>4. RowsKept /\ NothingFiled /\ IssuesKept
  BY RowsUnmoved DEF OthersIssues
<1>5. ClaimsShrink
  BY <1>3 DEF ClaimsShrink, Filing, Recovered
<1>6. SettledStay /\ \A q \in Runs, a \in Nat : DiagnosisSound(q, a)' /\ RecoverySound(q, a)'
  BY <1>4, <1>5, ClaimsStaySound
<1>7. RowsFiled'
  BY <1>1, <1>4, RowsFiledStay
<1>8. InTime(r)' /\ SayingSound(r)'
  BY <1>2, <1>3 DEF InTime, Timely, Recovered, SayingSound, At, Filing
<1>9. QueueSound(r)'
  BY <1>2, <1>3, <1>4, ToFileStays DEF QueueSound
<1>10. ASSUME NEW q \in Runs \ {r}, runs[q].stage \in Filing PROVE RuleQuiet(runs[q].rule)
  <2>1. runs[q].rule # runs[r].rule
    BY <1>2, <1>10
  <2> QED BY <2>1 DEF RuleQuiet, OthersIssues
<1>11. IssuesTypeOK'
  BY <1>1, <1>3 DEF IssuesTypeOK
<1> QED BY <1>3, <1>4, <1>6, <1>7, <1>8, <1>9, <1>10, <1>11, StepIsSound DEF LeavesUnsaid

(* The same, at the end of the transaction.                                *)
LEMMA FilingEnds ==
  ASSUME HandoffInv, NEW r \in Runs, runs[r].stage \in Filing,
         NEW filed \in SUBSET OfRule(runs[r].rule), Files(r, filed),
         UNCHANGED now, failures' \in Nat, happenings' \in Nat,
         OthersIssues(runs[r].rule), issues' \in Seq(IssueRecords),
         RowsKept /\ SettledStay => IssuesSound',
         \A n \in DOMAIN issues : SaidInTime(n)' = SaidInTime(n),
         filed # {} => /\ runs[r].number \in DOMAIN issues'
                       /\ issues'[runs[r].number].rule = runs[r].rule
                       /\ \A a \in issues'[runs[r].number].names :
                            a \in DOMAIN alerts /\ (alerts[a].issue # None \/ a \in filed)
  PROVE  HandoffInv'
<1>1. /\ RowsKept /\ RowsFiled' /\ SettledStay
      /\ alerts' \in Seq(AlertRecords) /\ runs' \in [Runs -> RunRecords]
      /\ holder' \in [Rules -> Runs \cup {None}]
      /\ \A q \in Runs \ {r} : runs'[q] = runs[q] /\ (runs[q].stage \in Filing => RuleQuiet(runs[q].rule))
      /\ InTime(r)' /\ SayingSound(r)' /\ QueueSound(r)' /\ FilingSound(r)'
      /\ \A q \in Runs, a \in Nat : DiagnosisSound(q, a)' /\ RecoverySound(q, a)'
  BY FilesFile
<1>2. IssuesTypeOK'
  BY <1>1 DEF HandoffInv, IssuesTypeOK
<1>3. IssuesKept
  BY DEF OthersIssues
<1> QED BY <1>1, <1>2, <1>3, StepIsSound DEF LeavesUnsaid

(* A step that opens no issue and adds no comment.                         *)
LEMMA IssuesAsTheyWere ==
  ASSUME HandoffInv, IssuesSilent, NEW rule
  PROVE  /\ OthersIssues(rule) /\ IssuesKept
         /\ RowsKept /\ SettledStay => IssuesSound'
         /\ RowsKept /\ SettledStay => \A n \in DOMAIN issues : \A kind : Named(n, kind)' = Named(n, kind)
         /\ \A n \in DOMAIN issues : SaidInTime(n)' = SaidInTime(n)
<1>1. IssuesTypeOK /\ IssuesSound
  BY DEF HandoffInv, IssuesSound
<1>2. \A n \in DOMAIN issues : SaidInTime(n)' = SaidInTime(n) /\ \A kind : Named(n, kind)' = Named(n, kind)
  BY DEF Named, SaidInTime, CommentsOf, IssuesSilent
<1>3. RowsKept /\ SettledStay => IssuesSound'
  BY <1>1, SilentIssues
<1>4. IssuesKept /\ DOMAIN issues' = DOMAIN issues
  BY DEF IssuesSilent
<1> QED BY <1>2, <1>3, <1>4 DEF OthersIssues

(* Whatever failed, what the found issue was opened for is on it.          *)
LEMMA GivingUpIsSound ==
  ASSUME HandoffInv, NEW r \in Runs, runs[r].stage \in Filing \ {"recording"}, GivesUp(r),
         UNCHANGED now, happenings' \in Nat,
         OthersIssues(runs[r].rule), issues' \in Seq(IssueRecords),
         RowsKept /\ SettledStay => IssuesSound',
         \A n \in DOMAIN issues : SaidInTime(n)' = SaidInTime(n)
  PROVE  HandoffInv'
<1>1. FilingSound(r) /\ IssuesTypeOK /\ \A n \in DOMAIN issues : IssueSound(n)
  BY DEF HandoffInv
<1>2. failures' \in Nat
  BY <1>1 DEF GivesUp, CallFails, IssuesTypeOK
<1>3. runs[r].found # {} => /\ Target(r)
                            /\ runs[r].found = issues[runs[r].number].names
  BY <1>1 DEF FilingSound, Target, At, Filing
<1>4. runs[r].found \in SUBSET OfRule(runs[r].rule)
  BY <1>1, <1>3 DEF Target, IssueSound
<1>5. runs[r].found # {} => /\ runs[r].number \in DOMAIN issues'
                            /\ issues'[runs[r].number].rule = runs[r].rule
                            /\ issues'[runs[r].number].names = runs[r].found
  BY <1>3 DEF Target, OthersIssues, IssuesKept, IssueKept
<1>6. \A a \in runs[r].found : a \in DOMAIN alerts
  BY <1>4 DEF OfRule
<1> QED BY <1>2, <1>4, <1>5, <1>6, FilingEnds DEF GivesUp

LEMMA RecordIsSound ==
  ASSUME HandoffInv, NEW r \in Runs, Record(r) PROVE HandoffInv'
<1> DEFINE filed == runs[r].ids \cup runs[r].found
<1>1. FilingSound(r) /\ IssuesTypeOK /\ \A n \in DOMAIN issues : IssueSound(n)
  BY DEF HandoffInv
<1>2. runs[r].stage = "recording" /\ Files(r, filed) /\ UNCHANGED <<now, issues, failures, happenings>>
  BY DEF Record, At
<1>3. Target(r)
  BY <1>1, <1>2 DEF FilingSound, Filing
<1>4. runs[r].found \subseteq issues[runs[r].number].names /\ runs[r].number \in DOMAIN issues
  BY <1>3 DEF Target
<1>5. issues[runs[r].number].names \subseteq OfRule(runs[r].rule)
  BY <1>1, <1>3, <1>4 DEF Target, IssueSound
<1>6. filed \in SUBSET OfRule(runs[r].rule)
  <2>1. runs[r].ids \subseteq OfRule(runs[r].rule)
    BY <1>1, <1>2 DEF FilingSound, Filing, Unfiled, ToFile, OfRule
  <2> QED BY <1>4, <1>5, <2>1
<1>7. \A a \in issues[runs[r].number].names : a \in DOMAIN alerts /\ (alerts[a].issue # None \/ a \in filed)
  BY <1>3, <1>5 DEF Target, OfRule, AllFiled
<1>8. IssuesSilent
  BY <1>2, IssuesUnmoved
<1>9. issues[runs[r].number].rule = runs[r].rule
  BY <1>3 DEF Target
<1>10. now' = now /\ failures' \in Nat /\ happenings' \in Nat /\ issues' = issues /\ issues' \in Seq(IssueRecords)
  BY <1>1, <1>2 DEF IssuesTypeOK
<1>11. runs[r].stage \in Filing
  BY <1>2 DEF Filing
<1> HIDE DEF filed
<1>12. /\ OthersIssues(runs[r].rule)
       /\ RowsKept /\ SettledStay => IssuesSound'
       /\ \A n \in DOMAIN issues : SaidInTime(n)' = SaidInTime(n)
  BY <1>8, IssuesAsTheyWere
<1> QED BY <1>2, <1>4, <1>6, <1>7, <1>9, <1>10, <1>11, <1>12, FilingEnds

-----------------------------------------------------------------------------
(* The steps of a filing.                                                  *)
LEMMA NewestMatchIs ==
  ASSUME IssuesTypeOK, NEW rule, NEW since
  PROVE  \/ /\ NewestMatch(rule, since) = None
            /\ \A n \in DOMAIN issues : ~(issues[n].rule = rule /\ issues[n].created >= since)
         \/ /\ NewestMatch(rule, since) \in DOMAIN issues
            /\ issues[NewestMatch(rule, since)].rule = rule
<1> DEFINE matches == {n \in DOMAIN issues : issues[n].rule = rule /\ issues[n].created >= since}
<1>1. CASE matches = {}
  BY <1>1 DEF NewestMatch
<1>2. CASE matches # {}
  <2>1. matches \in SUBSET Nat /\ Len(issues) \in Nat /\ \A n \in matches : n <= Len(issues)
    BY DEF IssuesTypeOK
  <2>2. Max(matches) \in matches
    BY <1>2, <2>1, LargestIsIn
  <2>3. NewestMatch(rule, since) = Max(matches)
    BY <1>2 DEF NewestMatch
  <2> QED BY <2>2, <2>3
<1> QED BY <1>1, <1>2

LEMMA FindIssueIsSound ==
  ASSUME HandoffInv, NEW r \in Runs, FindIssue(r) PROVE HandoffInv'
<1> DEFINE rule == runs[r].rule
           openings == {alerts[a].opened : a \in runs[r].ids}
           since == Min(openings) - MarkerLookback
           n == NewestMatch(rule, since)
<1>1. IssuesTypeOK /\ runs[r].stage = "looking" /\ runs[r].stage \in Filing /\ UNCHANGED <<now, issues, happenings>>
  BY DEF FindIssue, At, Filing, HandoffInv
<1>2. FilingSound(r) /\ runs[r] \in RunRecords
  BY <1>1, FilingRuns
<1>3. /\ rule \in Rules /\ holder[rule] = r /\ runs[r].ids # {} /\ runs[r].found = {} /\ Clear(r)
      /\ \A a \in runs[r].ids : Unfiled(a) /\ alerts[a].rule = rule
  BY <1>1, <1>2 DEF FilingSound
<1>4. issues' \in Seq(IssueRecords) /\ now' = now /\ happenings' \in Nat /\ failures \in Nat
  BY <1>1 DEF IssuesTypeOK
<1>5. /\ OthersIssues(rule) /\ IssuesKept
      /\ RowsKept /\ SettledStay => IssuesSound'
      /\ \A k \in DOMAIN issues : SaidInTime(k)' = SaidInTime(k)
  BY <1>1, IssuesUnmoved, IssuesAsTheyWere
<1>6. CASE GivesUp(r)
  BY <1>1, <1>4, <1>5, <1>6, GivingUpIsSound
<1>7. CASE ~GivesUp(r)
  <2> DEFINE to == IF n = None THEN [runs[r] EXCEPT !.stage = "opening"]
                   ELSE [runs[r] EXCEPT !.stage = "reading", !.number = n, !.found = issues[n].names]
  <2>1. Becomes(r, to) /\ UNCHANGED <<alerts, holder, failures>>
    BY <1>7 DEF FindIssue
  <2>2. \/ n = None /\ \A k \in DOMAIN issues : ~(issues[k].rule = rule /\ issues[k].created >= since)
        \/ n \in DOMAIN issues /\ issues[n].rule = rule
    BY <1>1, NewestMatchIs
  <2>3. \A a \in runs[r].ids : a \in DOMAIN alerts /\ alerts[a].opened \in Nat /\ since <= alerts[a].opened - MarkerLookback
        /\ since \in Int
    <3>1. \A a \in runs[r].ids : a \in DOMAIN alerts
      BY <1>3 DEF Unfiled, ToFile
    <3>2. \A a \in runs[r].ids : alerts[a].opened \in Nat
      BY <1>1, <3>1, HandoffTypes
    <3>3. openings \in SUBSET Nat /\ openings # {}
      BY <1>3, <3>2
    <3>4. Min(openings) \in openings /\ \A t \in openings : Min(openings) <= t
      BY <3>3, LeastIsIn
    <3>5. Min(openings) \in Nat
      BY <3>3, <3>4
    <3>6. ASSUME NEW a \in runs[r].ids PROVE since <= alerts[a].opened - MarkerLookback /\ since \in Int
      <4>1. alerts[a].opened \in openings /\ alerts[a].opened \in Nat
        BY <3>2
      <4>2. Min(openings) <= alerts[a].opened
        BY <3>4, <4>1
      <4> HIDE DEF openings
      <4> QED BY <3>5, <4>1, <4>2, HandoffWindows
    <3> QED BY <3>1, <3>2, <3>6
  <2> HIDE DEF n, since
  <2>4. CASE n = None
    <3> DEFINE next == [runs[r] EXCEPT !.stage = "opening"]
    <3>1. /\ next \in RunRecords /\ next.stage = "opening" /\ next.begun = runs[r].begun
          /\ next.todo = runs[r].todo /\ next.rule = rule /\ next.ids = runs[r].ids /\ next.found = {}
      BY <1>2, <1>3 DEF RunRecords, Filing
    <3>2. Becomes(r, next)
      BY <2>1, <2>4
    <3> HIDE DEF next
    <3>3. runs'[r] = next
      BY <1>1, <3>1, <3>2, RunMoves DEF IssuesTypeOK
    <3>4. \A k \in DOMAIN issues, a \in runs[r].ids :
            issues[k].rule = rule => issues[k].created < alerts[a].opened - MarkerLookback
      <4> SUFFICES ASSUME NEW k \in DOMAIN issues, NEW a \in runs[r].ids, issues[k].rule = rule
                   PROVE issues[k].created < alerts[a].opened - MarkerLookback
        OBVIOUS
      <4>1. issues[k] \in IssueRecords
        BY <1>1 DEF IssuesTypeOK
      <4>2. issues[k].created \in Nat
        BY <4>1 DEF IssueRecords
      <4>3. ~(issues[k].created >= since)
        BY <2>2, <2>4, HandoffWindows, <1>1 DEF IssuesTypeOK
      <4> QED BY <2>3, <4>2, <4>3, HandoffWindows
    <3>5. NoneSince(r)'
      BY <1>1, <2>1, <3>1, <3>3, <3>4 DEF NoneSince
    <3>6. Clear(r)'
      BY <1>3, <2>1, <3>1, <3>3 DEF Clear, OfRule
    <3>7. \A a \in runs[r].ids : Unfiled(a)' /\ alerts'[a].rule = rule
      BY <1>3, <2>1 DEF Unfiled, ToFile
    <3>8. FilingSound(r)'
      BY <1>3, <2>1, <3>1, <3>3, <3>5, <3>6, <3>7 DEF FilingSound, At
    <3>9. next.stage \in Filing
      BY <3>1 DEF Filing
    <3> QED BY <1>1, <1>4, <1>5, <2>1, <3>1, <3>2, <3>8, <3>9, FilingMoves
  <2>5. CASE n # None
    <3> DEFINE next == [runs[r] EXCEPT !.stage = "reading", !.number = n, !.found = issues[n].names]
    <3>1. n \in DOMAIN issues /\ n \in Nat /\ issues[n].rule = rule /\ issues[n].names \in SUBSET Nat
      <4>1. n \in DOMAIN issues /\ issues[n].rule = rule
        BY <2>2, <2>5
      <4> QED BY <1>1, <4>1, HandoffTypes
    <3>2. /\ next \in RunRecords /\ next.stage = "reading" /\ next.begun = runs[r].begun
          /\ next.todo = runs[r].todo /\ next.rule = rule /\ next.ids = runs[r].ids
          /\ next.number = n /\ next.found = issues[n].names
      BY <1>2, <1>3, <3>1 DEF RunRecords, Filing, Times
    <3>3. Becomes(r, next)
      BY <2>1, <2>5
    <3> HIDE DEF next
    <3>4. runs'[r] = next
      BY <1>1, <3>2, <3>3, RunMoves DEF IssuesTypeOK
    <3>5. Target(r)'
      BY <1>1, <3>1, <3>2, <3>4 DEF Target
    <3>6. \A a \in runs[r].ids : Unfiled(a)' /\ alerts'[a].rule = rule
      BY <1>3, <2>1 DEF Unfiled, ToFile
    <3>7. FilingSound(r)'
      BY <1>3, <2>1, <3>2, <3>4, <3>5, <3>6 DEF FilingSound, At
    <3>8. next.stage \in Filing
      BY <3>2 DEF Filing
    <3> QED BY <1>1, <1>4, <1>5, <2>1, <3>2, <3>3, <3>7, <3>8, FilingMoves
  <2> QED BY <2>4, <2>5
<1> QED BY <1>6, <1>7

LEMMA OpenIssueIsSound ==
  ASSUME HandoffInv, NEW r \in Runs, OpenIssue(r) PROVE HandoffInv'
<1> DEFINE rule == runs[r].rule
           ids == runs[r].ids
           new == RigAlertIssue(r)
<1>1. /\ IssuesTypeOK /\ IssuesSound /\ runs[r].stage = "opening" /\ runs[r].stage \in Filing
      /\ now' = now /\ happenings' \in Nat /\ failures \in Nat
  BY DEF OpenIssue, At, Filing, HandoffInv, IssuesTypeOK, IssuesSound
<1>2. FilingSound(r) /\ runs[r] \in RunRecords
  BY <1>1, FilingRuns
<1>3. /\ rule \in Rules /\ holder[rule] = r /\ ids # {} /\ runs[r].found = {}
      /\ \A a \in ids : Unfiled(a) /\ alerts[a].rule = rule
  BY <1>1, <1>2 DEF FilingSound
<1>4. CASE UNCHANGED issues /\ GivesUp(r)
  <2>1. /\ OthersIssues(rule) /\ issues' \in Seq(IssueRecords)
        /\ RowsKept /\ SettledStay => IssuesSound'
        /\ \A k \in DOMAIN issues : SaidInTime(k)' = SaidInTime(k)
    BY <1>1, <1>4, IssuesUnmoved, IssuesAsTheyWere DEF IssuesTypeOK
  <2> QED BY <1>1, <1>4, <2>1, GivingUpIsSound
<1>5. CASE issues' = Append(issues, new)
  <2>1. /\ new \in IssueRecords /\ new.rule = rule /\ new.names = ids /\ new.comments = <<>> /\ new.created \in Nat
    BY <1>1, <1>2, <1>3, HandoffTypes DEF RigAlertIssue, IssueRecords, IssuesTypeOK
  <2>2. new.names \subseteq OfRule(rule)
    BY <1>3, <2>1 DEF OfRule, Unfiled, ToFile
  <2>3. PICK m : m = Len(issues) + 1
    OBVIOUS
  <2> HIDE DEF new
  <2>4. /\ issues' \in Seq(IssueRecords)
        /\ DOMAIN issues' = DOMAIN issues \cup {m} /\ m \in Nat
        /\ issues'[m] = new
        /\ \A n \in DOMAIN issues : issues'[n] = issues[n]
    BY <1>1, <1>5, <2>1, <2>3 DEF IssuesTypeOK
  <2>5. RowsKept /\ SettledStay => IssuesSound'
    BY <1>1, <1>5, <2>1, <2>2, IssueOpens
  <2>6. \A n \in DOMAIN issues : SaidInTime(n)' = SaidInTime(n) /\ \A kind : Named(n, kind)' = Named(n, kind)
    BY <2>4 DEF Named, SaidInTime, CommentsOf
  <2>7. IssuesKept
    BY <2>4 DEF IssuesKept, IssueKept
  <2>8. OthersIssues(rule)
    BY <2>1, <2>4, <2>6, <2>7 DEF OthersIssues
  <2>9. CASE GivesUp(r)
    BY <1>1, <2>4, <2>5, <2>6, <2>8, <2>9, GivingUpIsSound
  <2>10. CASE ~GivesUp(r)
    <3> DEFINE next == [runs[r] EXCEPT !.stage = "recording", !.number = m]
    <3>1. UNCHANGED <<alerts, holder, failures>> /\ Becomes(r, next)
      BY <1>5, <2>3, <2>10 DEF OpenIssue
    <3>2. /\ next \in RunRecords /\ next.stage = "recording" /\ next.begun = runs[r].begun
          /\ next.todo = runs[r].todo /\ next.rule = rule /\ next.ids = ids
          /\ next.number = m /\ next.found = {}
      BY <1>2, <1>3, <2>4 DEF RunRecords, Filing, Times
    <3> HIDE DEF next
    <3>3. runs'[r] = next
      BY <1>1, <3>1, <3>2, RunMoves DEF IssuesTypeOK
    <3>4. Target(r)'
      BY <2>1, <2>4, <3>2, <3>3 DEF Target, At
    <3>5. \A a \in ids : Unfiled(a)' /\ alerts'[a].rule = rule
      BY <1>3, <3>1 DEF Unfiled, ToFile
    <3>6. FilingSound(r)'
      BY <1>3, <3>1, <3>2, <3>3, <3>4, <3>5 DEF FilingSound, At
    <3>7. next.stage \in Filing
      BY <3>2 DEF Filing
    <3> QED BY <1>1, <2>4, <2>5, <2>6, <2>8, <3>1, <3>2, <3>6, <3>7, FilingMoves
  <2> QED BY <2>9, <2>10
<1> QED BY <1>4, <1>5 DEF OpenIssue

LEMMA ReadCommentsIsSound ==
  ASSUME HandoffInv, NEW r \in Runs, ReadComments(r) PROVE HandoffInv'
<1> DEFINE rule == runs[r].rule
           joining == runs[r].ids \ (runs[r].found \cup Named(runs[r].number, "refire"))
           next == IF joining = {} THEN [runs[r] EXCEPT !.stage = "recording"]
                   ELSE [runs[r] EXCEPT !.stage = "reopening", !.naming = joining]
<1>1. /\ IssuesTypeOK /\ runs[r].stage = "reading" /\ runs[r].stage \in Filing /\ UNCHANGED issues
      /\ now' = now /\ happenings' \in Nat /\ failures \in Nat
  BY DEF ReadComments, At, Filing, HandoffInv, IssuesTypeOK
<1>2. FilingSound(r) /\ runs[r] \in RunRecords
  BY <1>1, FilingRuns
<1>3. /\ rule \in Rules /\ holder[rule] = r /\ runs[r].ids # {} /\ Target(r)
      /\ \A a \in runs[r].ids : Unfiled(a) /\ alerts[a].rule = rule
  BY <1>1, <1>2 DEF FilingSound
<1>4. /\ OthersIssues(rule) /\ issues' \in Seq(IssueRecords)
      /\ RowsKept /\ SettledStay => IssuesSound'
      /\ \A k \in DOMAIN issues : SaidInTime(k)' = SaidInTime(k)
  BY <1>1, IssuesUnmoved, IssuesAsTheyWere DEF IssuesTypeOK
<1>5. CASE GivesUp(r)
  BY <1>1, <1>4, <1>5, GivingUpIsSound
<1>6. CASE ~GivesUp(r)
  <2>1. UNCHANGED <<alerts, holder, failures>> /\ Becomes(r, next)
    BY <1>6 DEF ReadComments
  <2>2. /\ next \in RunRecords /\ next.begun = runs[r].begun
        /\ next.todo = runs[r].todo /\ next.rule = rule /\ next.ids = runs[r].ids
        /\ next.number = runs[r].number /\ next.found = runs[r].found
        /\ next.stage \in {"recording", "reopening"}
        /\ next.stage = "reopening" => next.naming = joining
    <3>1. joining \in SUBSET Nat
      BY <1>2 DEF RunRecords
    <3> HIDE DEF joining
    <3>2. CASE joining = {}
      BY <1>2, <3>2 DEF RunRecords, Filing
    <3>3. CASE joining # {}
      BY <1>2, <3>1, <3>3 DEF RunRecords, Filing
    <3> QED BY <3>2, <3>3
  <2> HIDE DEF next
  <2>3. runs'[r] = next
    BY <1>1, <2>1, <2>2, RunMoves DEF IssuesTypeOK
  <2>4. Target(r)'
    BY <1>1, <1>3, <2>1, <2>2, <2>3 DEF Target, At, AllFiled
  <2>5. \A a \in runs[r].ids : Unfiled(a)' /\ alerts'[a].rule = rule
    BY <1>3, <2>1 DEF Unfiled, ToFile
  <2>6. next.stage = "reopening" => Joins(r)'
    BY <1>1, <2>2, <2>3 DEF Joins, Named, CommentsOf
  <2>7. FilingSound(r)'
    BY <1>3, <2>1, <2>2, <2>3, <2>4, <2>5, <2>6 DEF FilingSound, At
  <2>8. next.stage \in Filing
    BY <2>2 DEF Filing
  <2> QED BY <1>1, <1>4, <2>1, <2>2, <2>7, <2>8, FilingMoves
<1> QED BY <1>5, <1>6

LEMMA ReopenIsSound ==
  ASSUME HandoffInv, NEW r \in Runs, Reopen(r) PROVE HandoffInv'
<1> DEFINE rule == runs[r].rule
           next == [runs[r] EXCEPT !.stage = "commenting"]
<1>1. /\ IssuesTypeOK /\ runs[r].stage = "reopening" /\ runs[r].stage \in Filing
      /\ now' = now /\ happenings' \in Nat /\ failures \in Nat
  BY DEF Reopen, At, Filing, HandoffInv, IssuesTypeOK
<1>2. FilingSound(r) /\ runs[r] \in RunRecords
  BY <1>1, FilingRuns
<1>3. /\ rule \in Rules /\ holder[rule] = r /\ runs[r].ids # {} /\ Target(r) /\ Joins(r)
      /\ \A a \in runs[r].ids : Unfiled(a) /\ alerts[a].rule = rule
  BY <1>1, <1>2 DEF FilingSound
<1>4. PICK n \in DOMAIN issues : n = runs[r].number
  BY <1>3 DEF Target
<1>5. \/ UNCHANGED issues
      \/ issues' = [issues EXCEPT ![n].open = TRUE]
  BY <1>4 DEF Reopen
<1>6. IssuesSilent /\ issues' \in Seq(IssueRecords)
  <2>1. CASE UNCHANGED issues
    BY <1>1, <2>1, IssuesUnmoved DEF IssuesTypeOK
  <2>2. CASE issues' = [issues EXCEPT ![n].open = TRUE]
    <3> DEFINE b == [issues[n] EXCEPT !.open = TRUE]
    <3>1. issues[n] \in IssueRecords
      BY <1>1, HandoffTypes
    <3>2. b \in IssueRecords /\ b.rule = issues[n].rule /\ b.names = issues[n].names
          /\ b.created = issues[n].created /\ b.comments = issues[n].comments
      BY <3>1 DEF IssueRecords
    <3>3. issues' = [issues EXCEPT ![n] = b]
      BY <2>2
    <3> HIDE DEF b
    <3>4. issues' \in Seq(IssueRecords) /\ DOMAIN issues' = DOMAIN issues /\ issues'[n] = b
          /\ \A k \in DOMAIN issues \ {n} : issues'[k] = issues[k]
      BY <1>1, <3>2, <3>3 DEF IssuesTypeOK
    <3> QED BY <3>2, <3>4 DEF IssuesSilent, IssuesKept, IssueKept
  <2> QED BY <1>5, <2>1, <2>2
<1>7. /\ OthersIssues(rule)
      /\ RowsKept /\ SettledStay => IssuesSound'
      /\ \A k \in DOMAIN issues : SaidInTime(k)' = SaidInTime(k)
  BY <1>6, IssuesAsTheyWere
<1>8. CASE GivesUp(r)
  BY <1>1, <1>6, <1>7, <1>8, GivingUpIsSound
<1>9. CASE ~GivesUp(r)
  <2>1. UNCHANGED <<alerts, holder, failures>> /\ Becomes(r, next)
    BY <1>9 DEF Reopen
  <2>2. /\ next \in RunRecords /\ next.begun = runs[r].begun
        /\ next.todo = runs[r].todo /\ next.rule = rule /\ next.ids = runs[r].ids
        /\ next.number = runs[r].number /\ next.found = runs[r].found
        /\ next.stage = "commenting" /\ next.naming = runs[r].naming
    BY <1>2 DEF RunRecords, Filing
  <2> HIDE DEF next
  <2>3. runs'[r] = next
    BY <1>1, <2>1, <2>2, RunMoves DEF IssuesTypeOK
  <2>4. /\ n \in DOMAIN issues' /\ issues'[n].rule = issues[n].rule /\ issues'[n].names = issues[n].names
        /\ issues'[n].comments = issues[n].comments
    BY <1>6 DEF IssuesSilent, IssuesKept, IssueKept
  <2>5. Target(r)'
    BY <1>1, <1>3, <1>4, <2>1, <2>2, <2>3, <2>4 DEF Target, At, AllFiled
  <2>6. \A a \in runs[r].ids : Unfiled(a)' /\ alerts'[a].rule = rule
    BY <1>3, <2>1 DEF Unfiled, ToFile
  <2>7. Joins(r)'
    BY <1>3, <1>4, <2>2, <2>3, <2>4 DEF Joins, Named, CommentsOf
  <2>8. FilingSound(r)'
    BY <1>3, <2>1, <2>2, <2>3, <2>5, <2>6, <2>7 DEF FilingSound, At
  <2>9. next.stage \in Filing
    BY <2>2 DEF Filing
  <2> QED BY <1>1, <1>6, <1>7, <2>1, <2>2, <2>8, <2>9, FilingMoves
<1> QED BY <1>8, <1>9

LEMMA CommentStepIsSound ==
  ASSUME HandoffInv, NEW r \in Runs, Comment(r) PROVE HandoffInv'
<1> DEFINE rule == runs[r].rule
           ids == runs[r].ids
           next == [runs[r] EXCEPT !.stage = "recording"]
<1>1. /\ IssuesTypeOK /\ IssuesSound /\ runs[r].stage = "commenting" /\ runs[r].stage \in Filing
      /\ now' = now /\ happenings' \in Nat /\ failures \in Nat
  BY DEF Comment, At, Filing, HandoffInv, IssuesTypeOK, IssuesSound
<1>2. FilingSound(r) /\ runs[r] \in RunRecords /\ runs[r].naming \in SUBSET Nat
  BY <1>1, FilingRuns, HandoffTypes
<1>3. /\ rule \in Rules /\ holder[rule] = r /\ ids # {} /\ Target(r) /\ Joins(r)
      /\ \A a \in ids : Unfiled(a) /\ alerts[a].rule = rule
  BY <1>1, <1>2 DEF FilingSound
<1>4. PICK n \in DOMAIN issues : n = runs[r].number /\ issues[n].rule = rule
  BY <1>3 DEF Target
<1>5. CASE UNCHANGED issues /\ GivesUp(r)
  <2>1. /\ OthersIssues(rule) /\ issues' \in Seq(IssueRecords)
        /\ RowsKept /\ SettledStay => IssuesSound'
        /\ \A k \in DOMAIN issues : SaidInTime(k)' = SaidInTime(k)
    BY <1>1, <1>5, IssuesUnmoved, IssuesAsTheyWere DEF IssuesTypeOK
  <2> QED BY <1>1, <1>5, <2>1, GivingUpIsSound
<1>6. CASE Says(n, RefireComment(r))
  <2> DEFINE c == RefireComment(r)
  <2>1. c \in Comments /\ c.kind = "refire" /\ c.names = runs[r].naming
    BY <1>2 DEF RefireComment, Comments
  <2>2. /\ c.names \cap Named(n, c.kind) = {}
        /\ c.names \cap issues[n].names = {}
        /\ \A o \in c.names : ~SettledOf(issues[n].rule, o)
    <3>1. c.names \cap Named(n, "refire") = {} /\ c.names \subseteq ids /\ c.names \cap runs[r].found = {}
      BY <1>3, <1>4, <2>1 DEF Joins
    <3>2. \A o \in c.names : /\ o \in DOMAIN alerts /\ alerts[o].rule = rule /\ alerts[o].issue = None
                             /\ alerts[o].status = "done" /\ OfSoftware(alerts[o])
      BY <1>3, <3>1 DEF Unfiled, ToFile
    <3>3. \A o \in c.names : ~SettledOf(issues[n].rule, o)
      BY <1>4, <3>2 DEF SettledOf, Settled
    <3>4. runs[r].found = issues[n].names \/ AllFiled(n)
      BY <1>1, <1>3, <1>4 DEF Target, At
    <3>5. c.names \cap issues[n].names = {}
      BY <3>1, <3>2, <3>4 DEF AllFiled
    <3> QED BY <2>1, <3>1, <3>3, <3>5
  <2> HIDE DEF c
  <2>3. /\ issues' \in Seq(IssueRecords) /\ DOMAIN issues' = DOMAIN issues /\ IssuesKept
        /\ \A k \in DOMAIN issues \ {n} : issues'[k] = issues[k]
    BY <1>1, <1>6, <2>1, CommentIsAdded DEF c
  <2>4. RowsKept /\ SettledStay => IssuesSound'
    BY <1>1, <1>6, <2>1, <2>2, CommentIsSound DEF c
  <2>5. \A k \in DOMAIN issues : SaidInTime(k)' = SaidInTime(k)
    <3>1. \A i \in DOMAIN issues'[n].comments :
            \/ i \in DOMAIN issues[n].comments /\ issues'[n].comments[i] = issues[n].comments[i]
            \/ issues'[n].comments[i].kind = "refire"
      BY <1>1, <1>6, <2>1, CommentIsAdded DEF c
    <3>2. \A i \in DOMAIN issues[n].comments :
            i \in DOMAIN issues'[n].comments /\ issues'[n].comments[i] = issues[n].comments[i]
      BY <1>1, <1>6, <2>1, CommentIsAdded DEF c
    <3>3. CommentsOf(n, "recovery")' = CommentsOf(n, "recovery")
      BY <3>1, <3>2 DEF CommentsOf
    <3>4. \A i \in CommentsOf(n, "recovery") : issues'[n].comments[i] = issues[n].comments[i]
      BY <3>2 DEF CommentsOf
    <3>5. SaidInTime(n)' = SaidInTime(n)
      BY <3>3, <3>4 DEF SaidInTime
    <3>6. \A k \in DOMAIN issues \ {n} : SaidInTime(k)' = SaidInTime(k)
      BY <2>3 DEF SaidInTime, CommentsOf
    <3> QED BY <3>5, <3>6
  <2>6. OthersIssues(rule)
    <3>1. ASSUME NEW k \in DOMAIN issues', issues'[k].rule # rule
          PROVE k \in DOMAIN issues /\ Named(k, "refire")' = Named(k, "refire")
      <4>1. k \in DOMAIN issues /\ k # n
        BY <1>4, <2>3, <3>1 DEF IssuesKept, IssueKept
      <4> QED BY <2>3, <4>1 DEF Named, CommentsOf
    <3> QED BY <2>3, <3>1 DEF OthersIssues
  <2>7. CASE GivesUp(r)
    BY <1>1, <2>3, <2>4, <2>5, <2>6, <2>7, GivingUpIsSound
  <2>8. CASE ~GivesUp(r)
    <3>1. UNCHANGED <<alerts, holder, failures>> /\ Becomes(r, next)
      BY <2>8 DEF Comment
    <3>2. /\ next \in RunRecords /\ next.begun = runs[r].begun
          /\ next.todo = runs[r].todo /\ next.rule = rule /\ next.ids = ids
          /\ next.number = n /\ next.found = runs[r].found
          /\ next.stage = "recording"
      BY <1>2, <1>4 DEF RunRecords, Filing
    <3> HIDE DEF next
    <3>3. runs'[r] = next
      BY <1>1, <3>1, <3>2, RunMoves DEF IssuesTypeOK
    <3>4. n \in DOMAIN issues' /\ issues'[n].rule = issues[n].rule /\ issues'[n].names = issues[n].names
      BY <2>3 DEF IssuesKept, IssueKept
    <3>5. Target(r)'
      BY <1>1, <1>3, <1>4, <3>1, <3>2, <3>3, <3>4 DEF Target, At, AllFiled
    <3>6. \A a \in ids : Unfiled(a)' /\ alerts'[a].rule = rule
      BY <1>3, <3>1 DEF Unfiled, ToFile
    <3>7. FilingSound(r)'
      BY <1>3, <3>1, <3>2, <3>3, <3>5, <3>6 DEF FilingSound, At
    <3>8. next.stage \in Filing
      BY <3>2 DEF Filing
    <3> QED BY <1>1, <2>3, <2>4, <2>5, <2>6, <3>1, <3>2, <3>7, <3>8, FilingMoves
  <2> QED BY <2>7, <2>8
<1> QED BY <1>4, <1>5, <1>6 DEF Comment

-----------------------------------------------------------------------------
(* Whom a run takes up next, and the issue that is near.                   *)
LEMMA GroupIs ==
  ASSUME IssuesTypeOK, NEW r \in Runs, runs[r].todo # {}, runs[r].todo \subseteq DOMAIN alerts
  PROVE  /\ GroupOf(r) # {} /\ GroupOf(r) \subseteq runs[r].todo
         /\ alerts[Min(GroupOf(r))].rule \in Rules
         /\ \A a \in GroupOf(r) : alerts[a].rule = alerts[Min(GroupOf(r))].rule
<1>1. runs[r].todo \in SUBSET Nat
  BY HandoffTypes
<1>2. Min(runs[r].todo) \in runs[r].todo
  BY <1>1, LeastIsIn
<1>3. GroupOf(r) # {} /\ GroupOf(r) \subseteq runs[r].todo
  BY <1>2 DEF GroupOf
<1>4. Min(GroupOf(r)) \in GroupOf(r)
  BY <1>1, <1>3, LeastIsIn
<1>5. \A a \in GroupOf(r) : alerts[a].rule = alerts[Min(runs[r].todo)].rule
  BY DEF GroupOf
<1>6. Min(GroupOf(r)) \in DOMAIN alerts
  BY <1>3, <1>4
<1> QED BY <1>3, <1>4, <1>5, <1>6, HandoffTypes

LEMMA RefireTargetIs ==
  ASSUME IssuesTypeOK, NEW rule, NEW ids \in SUBSET DOMAIN alerts
  PROVE  \/ /\ RefireTarget(rule, ids) = None
            /\ \A p \in DOMAIN alerts \ ids, a \in ids :
                 alerts[p].rule = rule /\ alerts[p].issue # None
                   => alerts[p].opened - alerts[a].opened \notin -RefireWindow..RefireWindow
         \/ \E p \in DOMAIN alerts : /\ alerts[p].rule = rule /\ alerts[p].issue # None
                                     /\ RefireTarget(rule, ids) = alerts[p].issue
<1> DEFINE near == {p \in DOMAIN alerts \ ids :
                      /\ alerts[p].rule = rule /\ alerts[p].issue # None
                      /\ \E a \in ids : alerts[p].opened - alerts[a].opened \in -RefireWindow..RefireWindow}
<1>1. CASE near = {}
  BY <1>1 DEF RefireTarget
<1>2. CASE near # {}
  <2>1. near \in SUBSET Nat /\ Len(alerts) \in Nat /\ \A p \in near : p <= Len(alerts)
    BY DEF IssuesTypeOK
  <2>2. Max(near) \in near
    BY <1>2, <2>1, LargestIsIn
  <2>3. RefireTarget(rule, ids) = alerts[Max(near)].issue
    BY <1>2 DEF RefireTarget
  <2> QED BY <2>2, <2>3
<1> QED BY <1>1, <1>2

LEMMA LockFaultIsSound ==
  ASSUME HandoffInv, NEW r \in Runs, LockFault(r) PROVE HandoffInv'
<1> DEFINE group == GroupOf(r)
           rule  == alerts[Min(group)].rule
           ids   == {a \in group : alerts[a].issue = None}
           target == RefireTarget(rule, ids)
           lost == ~LockIsFree(r, rule) \/ ids = {}
           next == IF lost THEN Left(r, runs[r].todo \ group)
                   ELSE [runs[r] EXCEPT !.stage = IF target = None THEN "looking" ELSE "reading",
                                        !.todo = @ \ group, !.rule = rule, !.ids = ids,
                                        !.number = target, !.found = {}]
<1>1. /\ IssuesTypeOK /\ IssuesSound /\ RowsFiled /\ runs[r].stage = "filing" /\ runs[r].todo # {}
      /\ UNCHANGED <<now, alerts, issues, failures, happenings>>
  BY DEF LockFault, At, HandoffInv, IssuesSound
<1>2. /\ QueueSound(r) /\ InTime(r) /\ runs[r] \in RunRecords /\ runs[r].todo \in SUBSET Nat
      /\ \A a \in runs[r].todo : ToFile(a)
  BY <1>1, HandoffTypes DEF HandoffInv, QueueSound
<1>3. /\ group # {} /\ group \subseteq runs[r].todo /\ rule \in Rules
      /\ \A a \in group : alerts[a].rule = rule
  BY <1>1, <1>2, GroupIs DEF ToFile
<1>4. ids \in SUBSET DOMAIN alerts /\ \A a \in ids : Unfiled(a) /\ alerts[a].rule = rule
  BY <1>2, <1>3 DEF Unfiled, ToFile
<1>5. \/ /\ target = None
         /\ \A p \in DOMAIN alerts \ ids, a \in ids :
              alerts[p].rule = rule /\ alerts[p].issue # None
                => alerts[p].opened - alerts[a].opened \notin -RefireWindow..RefireWindow
      \/ \E p \in DOMAIN alerts : /\ alerts[p].rule = rule /\ alerts[p].issue # None
                                  /\ target = alerts[p].issue
  BY <1>1, <1>4, RefireTargetIs
<1>6. target \in Times /\ (target # None => /\ target \in DOMAIN issues /\ issues[target].rule = rule
                                            /\ AllFiled(target))
  BY <1>1, <1>5, HandoffTypes DEF RowsFiled, Times
<1>7. /\ Becomes(r, next)
      /\ holder' = IF lost THEN holder ELSE [holder EXCEPT ![rule] = r]
  BY DEF LockFault
<1>8. ids \in SUBSET Nat
  BY <1>2, <1>3
<1>9. lost \in BOOLEAN /\ (~lost => holder[rule] = None /\ ids # {})
  BY DEF LockIsFree
<1> HIDE DEF group, rule, ids, target, lost
<1>10. /\ next \in RunRecords /\ next.todo \subseteq runs[r].todo
       /\ lost => next.stage \in {"idle", "filing"}
       /\ ~lost => /\ next.stage = IF target = None THEN "looking" ELSE "reading"
                   /\ next.rule = rule /\ next.ids = ids /\ next.number = target /\ next.found = {}
  <2>1. CASE lost
    BY <1>1, <1>2, <2>1, EndedIs DEF Left, RunRecords
  <2>2. CASE ~lost
    BY <1>2, <1>3, <1>6, <1>8, <2>2 DEF RunRecords, Filing
  <2> QED BY <2>1, <2>2
<1> HIDE DEF next
<1>11. runs' \in [Runs -> RunRecords] /\ runs'[r] = next /\ \A q \in Runs \ {r} : runs'[q] = runs[q]
  BY <1>1, <1>7, <1>10, RunMoves DEF IssuesTypeOK
<1>12. next.stage \in {"idle", "filing", "looking", "reading"}
  BY <1>9, <1>10
<1>13. RowsKept /\ NothingFiled /\ IssuesSilent /\ IssuesKept
  BY <1>1, RowsUnmoved, IssuesUnmoved
<1>14. ClaimsShrink
  BY <1>11, <1>12 DEF ClaimsShrink, Recovered
<1>15. SettledStay /\ \A q \in Runs, a \in Nat : DiagnosisSound(q, a)' /\ RecoverySound(q, a)'
  BY <1>1, <1>13, <1>14, ClaimsStaySound
<1>16. RowsFiled'
  BY <1>1, <1>13, RowsFiledStay DEF IssuesSound
<1>17. /\ IssuesSound' /\ \A n \in DOMAIN issues : SaidInTime(n)' = SaidInTime(n)
       /\ \A n \in DOMAIN issues : \A kind : Named(n, kind)' = Named(n, kind)
  BY <1>1, <1>13, <1>15, SilentIssues
<1>18. holder' \in [Rules -> Runs \cup {None}] /\ \A l \in Rules : holder[l] # None => holder'[l] = holder[l]
  <2>1. CASE lost
    BY <1>1, <1>7, <2>1 DEF IssuesTypeOK
  <2>2. CASE ~lost
    BY <1>1, <1>3, <1>7, <1>9, <2>2 DEF IssuesTypeOK
  <2> QED BY <2>1, <2>2
<1>19. ASSUME NEW q \in Runs \ {r}, runs[q].stage \in Filing PROVE RuleQuiet(runs[q].rule)
  <2>1. holder'[runs[q].rule] = holder[runs[q].rule]
    BY <1>18, <1>19, FilingRuns, HandoffWindows
  <2> QED BY <1>1, <1>13, <1>17, <2>1 DEF RuleQuiet, IssuesSilent
<1>20. InTime(r)' /\ SayingSound(r)' /\ QueueSound(r)'
  <2>1. InTime(r)' /\ SayingSound(r)'
    BY <1>1, <1>2, <1>10, <1>11, <1>12 DEF InTime, Timely, Recovered, SayingSound, At
  <2>2. \A a \in runs[r].todo : ToFile(a)'
    BY <1>2, <1>13, ToFileStays
  <2> QED BY <1>10, <1>11, <2>1, <2>2 DEF QueueSound
<1>21. FilingSound(r)'
  <2>1. CASE lost
    BY <1>10, <1>11, <2>1 DEF FilingSound, Filing
  <2>2. CASE ~lost
    <3>1. rule \in Rules /\ holder'[rule] = r /\ ids # {}
      BY <1>1, <1>3, <1>7, <1>9, <2>2 DEF IssuesTypeOK
    <3>2. \A a \in ids : Unfiled(a)' /\ alerts'[a].rule = rule
      BY <1>1, <1>4 DEF Unfiled, ToFile
    <3>3. CASE target = None
      <4>1. \A p \in OfRule(rule), a \in ids :
              alerts[p].issue # None => alerts[p].opened - alerts[a].opened \notin -RefireWindow..RefireWindow
        <5>1. \A p \in ids : alerts[p].issue = None
          BY <1>4 DEF Unfiled
        <5>2. \A p \in DOMAIN alerts \ ids, a \in ids :
                alerts[p].rule = rule /\ alerts[p].issue # None
                  => alerts[p].opened - alerts[a].opened \notin -RefireWindow..RefireWindow
          BY <1>5, <3>3
        <5> QED BY <5>1, <5>2 DEF OfRule
      <4>2. Clear(r)'
        BY <1>1, <1>10, <1>11, <2>2, <4>1 DEF Clear, OfRule
      <4> QED BY <1>10, <1>11, <2>2, <3>1, <3>2, <3>3, <4>2 DEF FilingSound, At
    <3>4. CASE target # None
      <4>1. Target(r)'
        BY <1>1, <1>6, <1>10, <1>11, <2>2, <3>4 DEF Target, AllFiled, At
      <4> QED BY <1>10, <1>11, <2>2, <3>1, <3>2, <3>4, <4>1 DEF FilingSound, At
    <3> QED BY <3>3, <3>4
  <2> QED BY <2>1, <2>2
<1>22. IssuesTypeOK'
  BY <1>1, <1>11, <1>18 DEF IssuesTypeOK
<1> QED BY <1>1, <1>11, <1>13, <1>15, <1>16, <1>17, <1>19, <1>20, <1>21, <1>22, StepIsSound DEF LeavesUnsaid

-----------------------------------------------------------------------------
(* The steps of the venue, of the clock and of the owner of the issues.    *)
LEMMA WorldMoves ==
  ASSUME HandoffInv, UNCHANGED <<runs, holder>>, RowsKept, NothingFiled, IssuesSilent,
         alerts' \in Seq(AlertRecords), issues' \in Seq(IssueRecords),
         now' \in Nat, now' >= now, failures' \in Nat, happenings' \in Nat,
         \A a \in DOMAIN alerts : /\ alerts'[a].status = alerts[a].status /\ alerts'[a].at = alerts[a].at
                                  /\ alerts'[a].saying = alerts[a].saying,
         \A q \in Runs : InTime(q)'
  PROVE  HandoffInv'
<1>1. IssuesTypeOK /\ IssuesSound /\ RowsFiled /\ \A n \in DOMAIN issues : IssueSound(n)
  BY DEF HandoffInv, IssuesSound
<1>2. ClaimsShrink
  BY DEF ClaimsShrink
<1>3. SettledStay /\ \A q \in Runs, a \in Nat : DiagnosisSound(q, a)' /\ RecoverySound(q, a)'
  BY <1>2, ClaimsStaySound
<1>4. IssuesKept /\ DOMAIN issues' = DOMAIN issues
  BY DEF IssuesSilent
<1>5. RowsFiled'
  BY <1>1, <1>4, RowsFiledStay
<1>6. /\ IssuesSound' /\ \A n \in DOMAIN issues : SaidInTime(n)' = SaidInTime(n)
      /\ \A n \in DOMAIN issues : \A kind : Named(n, kind)' = Named(n, kind)
  BY <1>1, <1>3, SilentIssues
<1>7. \A rule : RuleQuiet(rule)
  BY <1>4, <1>6 DEF RuleQuiet, NothingFiled
<1>8. \A q \in Runs : SayingSound(q)' /\ QueueSound(q)' /\ FilingSound(q)'
  BY <1>4, <1>6, <1>7, QuietRuns DEF LeavesUnsaid
<1>9. IssuesTypeOK'
  BY <1>1 DEF IssuesTypeOK
<1> QED BY <1>3, <1>5, <1>6, <1>8, <1>9 DEF HandoffInv, IssuesSound

LEMMA OneRowRewritten ==
  ASSUME IssuesTypeOK, NEW a \in DOMAIN alerts, NEW b \in AlertRecords, alerts' = [alerts EXCEPT ![a] = b]
  PROVE  /\ alerts' \in Seq(AlertRecords) /\ DOMAIN alerts' = DOMAIN alerts /\ alerts'[a] = b
         /\ \A o \in DOMAIN alerts \ {a} : alerts'[o] = alerts[o]
BY DEF IssuesTypeOK

LEMMA WorldIsSound ==
  ASSUME HandoffInv,
         \/ \E rule \in Rules, severity \in {"warning", "urgent"} : Open(rule, severity)
         \/ \E a \in DOMAIN alerts : Announce(a) \/ BecomesUrgent(a) \/ BecomesWarning(a) \/ Resolve(a)
         \/ \E n \in DOMAIN issues : Close(n)
         \/ TimePasses
  PROVE  HandoffInv'
<1>1. IssuesTypeOK /\ \A q \in Runs : InTime(q)
  BY DEF HandoffInv
<1>2. ASSUME NEW rule \in Rules, NEW severity \in {"warning", "urgent"}, Open(rule, severity) PROVE HandoffInv'
  <2> DEFINE row == [rule |-> rule, severity |-> severity, opened |-> now, notified |-> None, resolved |-> None,
                     status |-> "none", attempts |-> 0, at |-> None, software |-> FALSE,
                     filing |-> None, issue |-> None, saying |-> None, said |-> FALSE]
  <2>1. row \in AlertRecords /\ row.issue = None
    BY <1>1 DEF AlertRecords, Times, IssuesTypeOK
  <2>2. alerts' = Append(alerts, row) /\ UNCHANGED <<now, runs, holder, issues, failures, happenings>>
    BY <1>2 DEF Open
  <2> HIDE DEF row
  <2>3. /\ alerts' \in Seq(AlertRecords) /\ DOMAIN alerts \subseteq DOMAIN alerts'
        /\ \A a \in DOMAIN alerts : alerts'[a] = alerts[a]
        /\ \A a \in DOMAIN alerts' \ DOMAIN alerts : alerts'[a] = row
    BY <1>1, <2>1, <2>2 DEF IssuesTypeOK
  <2>4. RowsKept /\ NothingFiled /\ IssuesSilent
    BY <2>1, <2>2, <2>3, IssuesUnmoved DEF RowsKept, RowKept, NothingFiled
  <2>5. \A q \in Runs : InTime(q)'
    BY <1>1, <2>2 DEF InTime, Timely
  <2> QED BY <1>1, <2>2, <2>3, <2>4, <2>5, WorldMoves DEF IssuesTypeOK
<1>3. ASSUME NEW a \in DOMAIN alerts, Announce(a) \/ BecomesUrgent(a) \/ BecomesWarning(a) \/ Resolve(a) PROVE HandoffInv'
  <2>1. PICK b \in AlertRecords :
          /\ alerts' = [alerts EXCEPT ![a] = b]
          /\ b.rule = alerts[a].rule /\ b.opened = alerts[a].opened /\ b.issue = alerts[a].issue
          /\ b.status = alerts[a].status /\ b.software = alerts[a].software
          /\ b.at = alerts[a].at /\ b.saying = alerts[a].saying
          /\ alerts[a].resolved # None => b.resolved # None
    <3>1. alerts[a] \in AlertRecords /\ now \in Times
      BY <1>1, HandoffTypes DEF IssuesTypeOK, Times
    <3>2. CASE Announce(a)
      <4> DEFINE b == [alerts[a] EXCEPT !.notified = now]
      <4>1. /\ b \in AlertRecords
            /\ b.rule = alerts[a].rule /\ b.opened = alerts[a].opened /\ b.issue = alerts[a].issue
            /\ b.status = alerts[a].status /\ b.software = alerts[a].software
            /\ b.at = alerts[a].at /\ b.saying = alerts[a].saying /\ b.resolved = alerts[a].resolved
        BY <3>1 DEF AlertRecords
      <4>2. alerts' = [alerts EXCEPT ![a] = b]
        BY <3>2 DEF Announce
      <4> HIDE DEF b
      <4> QED BY <4>1, <4>2
    <3>3. CASE Resolve(a)
      <4> DEFINE b == [alerts[a] EXCEPT !.resolved = now]
      <4>1. /\ b \in AlertRecords
            /\ b.rule = alerts[a].rule /\ b.opened = alerts[a].opened /\ b.issue = alerts[a].issue
            /\ b.status = alerts[a].status /\ b.software = alerts[a].software
            /\ b.at = alerts[a].at /\ b.saying = alerts[a].saying
        BY <3>1 DEF AlertRecords
      <4>2. alerts' = [alerts EXCEPT ![a] = b] /\ alerts[a].resolved = None
        BY <3>3 DEF Resolve
      <4> HIDE DEF b
      <4> QED BY <4>1, <4>2
    <3>4. CASE BecomesUrgent(a)
      <4>1. PICK notified \in {None, alerts[a].notified} :
              alerts' = [alerts EXCEPT ![a].severity = "urgent", ![a].notified = notified]
        BY <3>4 DEF BecomesUrgent
      <4> DEFINE b == [alerts[a] EXCEPT !.severity = "urgent", !.notified = notified]
      <4>2. notified \in Times
        BY <3>1 DEF AlertRecords, Times
      <4>3. /\ b \in AlertRecords
            /\ b.rule = alerts[a].rule /\ b.opened = alerts[a].opened /\ b.issue = alerts[a].issue
            /\ b.status = alerts[a].status /\ b.software = alerts[a].software
            /\ b.at = alerts[a].at /\ b.saying = alerts[a].saying /\ b.resolved = alerts[a].resolved
        BY <3>1, <4>2 DEF AlertRecords
      <4>4. alerts' = [alerts EXCEPT ![a] = b]
        BY <4>1
      <4> HIDE DEF b
      <4> QED BY <4>3, <4>4
    <3>5. CASE BecomesWarning(a)
      <4> DEFINE b == [alerts[a] EXCEPT !.severity = "warning"]
      <4>1. /\ b \in AlertRecords
            /\ b.rule = alerts[a].rule /\ b.opened = alerts[a].opened /\ b.issue = alerts[a].issue
            /\ b.status = alerts[a].status /\ b.software = alerts[a].software
            /\ b.at = alerts[a].at /\ b.saying = alerts[a].saying /\ b.resolved = alerts[a].resolved
        BY <3>1 DEF AlertRecords
      <4>2. alerts' = [alerts EXCEPT ![a] = b]
        BY <3>5 DEF BecomesWarning
      <4> HIDE DEF b
      <4> QED BY <4>1, <4>2
    <3> QED BY <1>3, <3>2, <3>3, <3>4, <3>5
  <2>2. UNCHANGED <<now, runs, holder, issues, failures>> /\ happenings' \in Nat
    BY <1>1, <1>3 DEF Announce, Resolve, BecomesUrgent, BecomesWarning, Happens, IssuesTypeOK
  <2>3. /\ alerts' \in Seq(AlertRecords) /\ DOMAIN alerts' = DOMAIN alerts /\ alerts'[a] = b
        /\ \A o \in DOMAIN alerts \ {a} : alerts'[o] = alerts[o]
    BY <1>1, <2>1, OneRowRewritten
  <2>4. RowsKept /\ NothingFiled /\ IssuesSilent
    BY <2>1, <2>2, <2>3, IssuesUnmoved DEF RowsKept, RowKept, NothingFiled
  <2>5. \A q \in Runs : InTime(q)'
    BY <1>1, <2>2 DEF InTime, Timely
  <2>6. \A o \in DOMAIN alerts : /\ alerts'[o].status = alerts[o].status /\ alerts'[o].at = alerts[o].at
                                 /\ alerts'[o].saying = alerts[o].saying
    BY <2>1, <2>3
  <2> QED BY <1>1, <2>2, <2>3, <2>4, <2>5, <2>6, WorldMoves DEF IssuesTypeOK
<1>4. ASSUME NEW n \in DOMAIN issues, Close(n) PROVE HandoffInv'
  <2> DEFINE b == [issues[n] EXCEPT !.open = FALSE]
  <2>1. issues[n] \in IssueRecords
    BY <1>1, HandoffTypes
  <2>2. b \in IssueRecords /\ b.rule = issues[n].rule /\ b.names = issues[n].names
        /\ b.created = issues[n].created /\ b.comments = issues[n].comments
    BY <2>1 DEF IssueRecords
  <2>3. issues' = [issues EXCEPT ![n] = b] /\ UNCHANGED <<now, alerts, runs, holder, failures>> /\ happenings' = happenings + 1
    BY <1>4 DEF Close, Happens
  <2> HIDE DEF b
  <2>4. issues' \in Seq(IssueRecords) /\ DOMAIN issues' = DOMAIN issues /\ issues'[n] = b
        /\ \A k \in DOMAIN issues \ {n} : issues'[k] = issues[k]
    BY <1>1, <2>2, <2>3 DEF IssuesTypeOK
  <2>5. IssuesSilent
    BY <2>2, <2>4 DEF IssuesSilent, IssuesKept, IssueKept
  <2>6. RowsKept /\ NothingFiled
    BY <2>3, RowsUnmoved
  <2>7. \A q \in Runs : InTime(q)'
    BY <1>1, <2>3 DEF InTime, Timely
  <2>8. now' \in Nat /\ now' >= now /\ failures' \in Nat /\ happenings' \in Nat /\ alerts' \in Seq(AlertRecords)
    BY <1>1, <2>3 DEF IssuesTypeOK
  <2> QED BY <2>3, <2>4, <2>5, <2>6, <2>7, <2>8, WorldMoves
<1>5. ASSUME TimePasses PROVE HandoffInv'
  <2>1. UNCHANGED <<alerts, runs, holder, issues, failures, happenings>> /\ now' = now + 1 /\ now \in Nat
    BY <1>1, <1>5 DEF TimePasses, IssuesTypeOK
  <2>2. ASSUME NEW q \in Runs PROVE InTime(q)'
    <3>1. /\ runs[q].begun \in Nat
          /\ runs[q].stage = "diagnosing" => now - runs[q].begun < DiagnosesFor /\ runs[q].begun <= now
          /\ runs[q].stage \in Recovered => runs[q].begun <= now
      BY <1>1, <1>5, HandoffTypes DEF TimePasses, At, InTime, Timely
    <3> QED BY <2>1, <3>1, HandoffWindows DEF InTime, Timely
  <2>3. RowsKept /\ NothingFiled /\ IssuesSilent
    BY <2>1, RowsUnmoved, IssuesUnmoved
  <2> QED BY <1>1, <2>1, <2>2, <2>3, WorldMoves DEF IssuesTypeOK
<1> QED BY <1>2, <1>3, <1>4, <1>5

-----------------------------------------------------------------------------
(* The steps of a run that files nothing.                                  *)
LEMMA RunSteps ==
  ASSUME HandoffInv, NEW r \in Runs, NEW to \in RunRecords, Becomes(r, to), to.stage \notin Filing,
         Timely(to),
         UNCHANGED <<now, happenings>>, failures' \in Nat, alerts' \in Seq(AlertRecords), issues' \in Seq(IssueRecords),
         holder' \in [Rules -> Runs \cup {None}],
         \A rule \in Rules : holder[rule] \in Runs \ {r} => holder'[rule] = holder[rule],
         RowsKept, NothingFiled, IssuesKept, DOMAIN issues' = DOMAIN issues,
         \A n \in DOMAIN issues : Named(n, "refire")' = Named(n, "refire"),
         IssuesSound',
         \A q \in Runs \ {r} : LeavesUnsaid(q),
         \A q \in Runs, a \in Nat : DiagnosisSound(q, a)' /\ RecoverySound(q, a)',
         SayingSound(r)', QueueSound(r)'
  PROVE  HandoffInv'
<1>1. IssuesTypeOK /\ IssuesSound /\ RowsFiled /\ \A n \in DOMAIN issues : IssueSound(n)
  BY DEF HandoffInv, IssuesSound
<1>2. runs' \in [Runs -> RunRecords] /\ runs'[r] = to /\ \A q \in Runs \ {r} : runs'[q] = runs[q]
  BY <1>1, RunMoves DEF IssuesTypeOK
<1>3. RowsFiled'
  BY <1>1, RowsFiledStay
<1>4. ASSUME NEW q \in Runs \ {r}, runs[q].stage \in Filing PROVE RuleQuiet(runs[q].rule)
  <2>1. holder[runs[q].rule] = q /\ runs[q].rule \in Rules
    BY <1>4, FilingRuns
  <2> QED BY <2>1 DEF RuleQuiet, NothingFiled
<1>5. InTime(r)' /\ FilingSound(r)'
  BY <1>2 DEF InTime, Timely, FilingSound
<1>6. IssuesTypeOK'
  BY <1>1, <1>2 DEF IssuesTypeOK
<1> QED BY <1>2, <1>3, <1>4, <1>5, <1>6, StepIsSound

(* The same, of a run that leaves the issues alone.                        *)
LEMMA SilentSteps ==
  ASSUME HandoffInv, NEW r \in Runs, NEW to \in RunRecords, Becomes(r, to), to.stage \notin Filing,
         Timely(to),
         UNCHANGED <<now, issues, happenings>>, failures' \in Nat, alerts' \in Seq(AlertRecords),
         holder' \in [Rules -> Runs \cup {None}],
         \A rule \in Rules : holder[rule] \in Runs \ {r} => holder'[rule] = holder[rule],
         RowsKept, NothingFiled, SettledStay,
         \A q \in Runs, a \in Nat : DiagnosisSound(q, a)' /\ RecoverySound(q, a)',
         SayingSound(r)', QueueSound(r)'
  PROVE  HandoffInv'
<1>1. IssuesTypeOK /\ IssuesSound
  BY DEF HandoffInv, IssuesSound
<1>2. IssuesSilent /\ IssuesKept
  BY IssuesUnmoved
<1>3. /\ IssuesSound' /\ \A n \in DOMAIN issues : SaidInTime(n)' = SaidInTime(n)
      /\ \A n \in DOMAIN issues : \A kind : Named(n, kind)' = Named(n, kind)
  BY <1>1, <1>2, SilentIssues
<1>4. DOMAIN issues' = DOMAIN issues /\ issues' \in Seq(IssueRecords)
  BY <1>1 DEF IssuesTypeOK
<1>5. \A q \in Runs \ {r} : LeavesUnsaid(q)
  BY <1>3 DEF LeavesUnsaid
<1> QED BY <1>2, <1>3, <1>4, <1>5, RunSteps

(* A claim that is still somebody's is not old yet.                        *)
LEMMA ClaimsAreFresh ==
  ASSUME HandoffInv, NEW q \in Runs, NEW a \in Nat
  PROVE  /\ InDiagnosis(q, a) => /\ a \in DOMAIN alerts /\ alerts[a].status = "pending"
                                 /\ Within(alerts[a].at, DiagnosisStale) /\ ~Older(alerts[a].at, DiagnosisStale)
         /\ InRecovery(q, a) => /\ a \in DOMAIN alerts
                                /\ Older(alerts[a].saying, RetryAfter) => runs[q].begun + RetryAfter < now
<1>1. IssuesTypeOK /\ InTime(q) /\ DiagnosisSound(q, a) /\ RecoverySound(q, a) /\ now \in Nat /\ runs[q].begun \in Nat
  BY HandoffTypes DEF HandoffInv, IssuesTypeOK
<1>3. ASSUME InDiagnosis(q, a)
      PROVE  /\ a \in DOMAIN alerts /\ alerts[a].status = "pending"
             /\ Within(alerts[a].at, DiagnosisStale) /\ ~Older(alerts[a].at, DiagnosisStale)
  <2>1. now < runs[q].begun + DiagnosisStale
    BY <1>1, <1>3, HandoffWindows DEF InTime, Timely, InDiagnosis, At
  <2>2. a \in DOMAIN alerts /\ alerts[a].status = "pending" /\ alerts[a].at # None /\ alerts[a].at >= runs[q].begun
    BY <1>1, <1>3 DEF DiagnosisSound
  <2>3. alerts[a].at \in Nat
    BY <1>1, <2>2, HandoffTypes DEF AlertRecords, Times
  <2> QED BY <1>1, <2>1, <2>2, <2>3, HandoffWindows DEF Within, Older
<1>4. ASSUME InRecovery(q, a)
      PROVE  a \in DOMAIN alerts /\ (Older(alerts[a].saying, RetryAfter) => runs[q].begun + RetryAfter < now)
  <2>1. a \in DOMAIN alerts /\ alerts[a].saying # None /\ alerts[a].saying >= runs[q].begun
    BY <1>1, <1>4 DEF RecoverySound
  <2>2. alerts[a].saying \in Nat
    BY <1>1, <2>1, HandoffTypes DEF AlertRecords, Times
  <2> QED BY <1>1, <2>1, <2>2, HandoffWindows DEF Older
<1> QED BY <1>3, <1>4

LEMMA BeginIsSound ==
  ASSUME HandoffInv, NEW r \in Runs, Begin(r) PROVE HandoffInv'
<1> DEFINE due == LowestOf({a \in DOMAIN alerts : DueForDiagnosis(alerts[a])}, DiagnosesPerEvaluation)
           to == [Ended EXCEPT !.stage = "diagnosing", !.begun = now, !.todo = due]
<1>1. /\ IssuesTypeOK /\ now \in Nat /\ UNCHANGED <<now, holder, issues, failures, happenings>>
      /\ failures' \in Nat /\ holder' \in [Rules -> Runs \cup {None}] /\ runs[r].stage = "idle"
  BY DEF HandoffInv, IssuesTypeOK, Begin, At
<1>2. due \subseteq DOMAIN alerts /\ \A a \in due : DueForDiagnosis(alerts[a])
  BY DEF LowestOf
<1>3. due \in SUBSET Nat
  BY <1>1, <1>2, HandoffTypes
<1>4. /\ Becomes(r, to)
      /\ alerts' = [a \in DOMAIN alerts |->
                      IF a \notin due THEN alerts[a]
                      ELSE [alerts[a] EXCEPT !.status = "pending", !.at = now, !.attempts = @ + 1]]
  BY DEF Begin
<1> HIDE DEF due
<1>5. to \in RunRecords /\ to.stage = "diagnosing" /\ to.begun = now /\ to.todo = due
  BY <1>1, <1>3 DEF RunRecords, Ended, Times
<1> HIDE DEF to
<1>6. runs' \in [Runs -> RunRecords] /\ runs'[r] = to /\ \A q \in Runs \ {r} : runs'[q] = runs[q]
  BY <1>1, <1>4, <1>5, RunMoves DEF IssuesTypeOK
<1>7. ASSUME NEW a \in DOMAIN alerts
      PROVE  /\ alerts'[a] \in AlertRecords
             /\ a \notin due => alerts'[a] = alerts[a]
             /\ a \in due => alerts'[a].status = "pending" /\ alerts'[a].at = now
             /\ alerts'[a].rule = alerts[a].rule /\ alerts'[a].opened = alerts[a].opened
             /\ alerts'[a].issue = alerts[a].issue /\ alerts'[a].resolved = alerts[a].resolved
             /\ alerts'[a].software = alerts[a].software /\ alerts'[a].saying = alerts[a].saying
  <2>1. alerts[a] \in AlertRecords
    BY <1>1, HandoffTypes
  <2>2. CASE a \notin due
    BY <1>4, <2>1, <2>2
  <2>3. CASE a \in due
    <3> DEFINE b == [alerts[a] EXCEPT !.status = "pending", !.at = now, !.attempts = alerts[a].attempts + 1]
    <3>1. alerts[a].attempts + 1 \in Nat
      BY <2>1 DEF AlertRecords
    <3>2. /\ b \in AlertRecords /\ b.status = "pending" /\ b.at = now
          /\ b.rule = alerts[a].rule /\ b.opened = alerts[a].opened /\ b.issue = alerts[a].issue
          /\ b.resolved = alerts[a].resolved /\ b.software = alerts[a].software /\ b.saying = alerts[a].saying
      BY <1>1, <2>1, <3>1 DEF AlertRecords, Times
    <3>3. alerts'[a] = b
      BY <1>4, <2>3
    <3> HIDE DEF b
    <3> QED BY <2>3, <3>2, <3>3
  <2> QED BY <2>2, <2>3
<1>8. alerts' \in Seq(AlertRecords) /\ DOMAIN alerts' = DOMAIN alerts
  <2>1. alerts' \in [DOMAIN alerts -> AlertRecords]
    BY <1>4, <1>7
  <2> QED BY <1>1, <2>1, RewrittenRows DEF IssuesTypeOK
<1>9. \A a \in due : /\ alerts[a].status \in {"none", "retry", "pending"} /\ alerts[a].resolved = None
                     /\ alerts[a].status = "pending" => Older(alerts[a].at, DiagnosisStale)
  BY <1>2 DEF DueForDiagnosis
<1>10. RowsKept /\ NothingFiled
  BY <1>7, <1>8, <1>9 DEF RowsKept, RowKept, NothingFiled
<1>11. ASSUME NEW q \in Runs \ {r}, NEW a \in Nat, InDiagnosis(q, a) PROVE a \in DOMAIN alerts /\ a \notin due
  BY <1>9, <1>11, ClaimsAreFresh
<1>12. SettledStay
  <2>1. ASSUME NEW o \in DOMAIN alerts, alerts[o].status # "done", alerts[o].resolved # None,
               \A q \in Runs : ~InDiagnosis(q, o)
        PROVE  alerts'[o].status # "done" /\ \A q \in Runs : ~InDiagnosis(q, o)'
    <3>1. o \notin due
      BY <1>9, <2>1
    <3>2. \A q \in Runs : ~InDiagnosis(q, o)'
      BY <1>5, <1>6, <2>1, <3>1 DEF InDiagnosis, At
    <3> QED BY <1>7, <2>1, <3>1, <3>2
  <2> QED BY <1>1, <1>10, <2>1, SettledStays
<1>13. \A q \in Runs, a \in Nat : RecoverySound(q, a)'
  <2>1. ASSUME NEW q \in Runs, NEW a \in Nat, InRecovery(q, a)'
        PROVE  /\ InRecovery(q, a) /\ runs'[q].begun = runs[q].begun
               /\ runs'[q].knew = runs[q].knew /\ alerts'[a].saying = alerts[a].saying
    <3>1. q # r /\ InRecovery(q, a) /\ runs'[q] = runs[q]
      BY <1>5, <1>6, <2>1 DEF InRecovery, Recovered
    <3>2. a \in DOMAIN alerts
      BY <3>1, ClaimsAreFresh
    <3> QED BY <1>7, <3>1, <3>2
  <2> QED BY <1>1, <1>10, <1>12, <2>1, RecoveriesStay DEF HandoffInv
<1>14. ASSUME NEW q \in Runs, NEW a \in Nat PROVE DiagnosisSound(q, a)'
  <2> SUFFICES ASSUME InDiagnosis(q, a)'
               PROVE  /\ a \in DOMAIN alerts' /\ alerts'[a].status = "pending"
                      /\ alerts'[a].at # None /\ alerts'[a].at >= runs'[q].begun
                      /\ \A p \in Runs : InDiagnosis(p, a)' => p = q
    BY DEF DiagnosisSound
  <2>1. CASE q = r
    <3>1. a \in due
      BY <1>5, <1>6, <2>1 DEF InDiagnosis
    <3>2. a \in DOMAIN alerts' /\ alerts'[a].status = "pending" /\ alerts'[a].at = now
      BY <1>2, <1>7, <1>8, <3>1
    <3>3. ASSUME NEW p \in Runs, InDiagnosis(p, a)', p # r PROVE FALSE
      <4>1. InDiagnosis(p, a)
        BY <1>6, <3>3 DEF InDiagnosis, At
      <4> QED BY <1>11, <3>1, <3>3, <4>1
    <3>4. now # None /\ now >= runs'[q].begun
      BY <1>1, <1>5, <1>6, <2>1, HandoffWindows
    <3> QED BY <2>1, <3>2, <3>3, <3>4
  <2>2. CASE q # r
    <3>1. InDiagnosis(q, a) /\ runs'[q] = runs[q]
      BY <1>6, <2>2 DEF InDiagnosis, At
    <3>2. a \in DOMAIN alerts /\ a \notin due
      BY <1>11, <2>2, <3>1
    <3>3. a \in DOMAIN alerts' /\ alerts'[a] = alerts[a]
      BY <1>7, <1>8, <3>2
    <3>4. DiagnosisSound(q, a)
      BY DEF HandoffInv
    <3>5. ASSUME NEW p \in Runs, InDiagnosis(p, a)' PROVE p = q
      <4>1. p # r
        BY <1>5, <1>6, <3>2, <3>5 DEF InDiagnosis
      <4>2. InDiagnosis(p, a)
        BY <1>6, <3>5, <4>1 DEF InDiagnosis, At
      <4> QED BY <3>1, <3>4, <4>2 DEF DiagnosisSound
    <3> QED BY <3>1, <3>3, <3>4, <3>5 DEF DiagnosisSound
  <2> QED BY <2>1, <2>2
<1>15. SayingSound(r)' /\ QueueSound(r)'
  BY <1>5, <1>6 DEF SayingSound, QueueSound, At, Filing
<1>16. to.stage \notin Filing /\ Timely(to)
  BY <1>1, <1>5, HandoffWindows DEF Filing, Timely, Recovered
<1> QED BY <1>1, <1>4, <1>5, <1>8, <1>10, <1>12, <1>13, <1>14, <1>15, <1>16, SilentSteps

LEMMA DiagnoseIsSound ==
  ASSUME HandoffInv, NEW r \in Runs, NEW a \in DOMAIN alerts, Diagnose(r, a) PROVE HandoffInv'
<1>1. /\ IssuesTypeOK /\ now \in Nat /\ runs[r] \in RunRecords /\ alerts[a] \in AlertRecords /\ a \in Nat
      /\ holder \in [Rules -> Runs \cup {None}] /\ InTime(r)
  BY HandoffTypes DEF HandoffInv, IssuesTypeOK
<1>2. At(r, "diagnosing") /\ a \in runs[r].todo /\ InDiagnosis(r, a) /\ UNCHANGED <<now, holder, issues, happenings>>
  BY DEF Diagnose, InDiagnosis
<1>3. PICK status \in {"retry", "done"}, software \in BOOLEAN : Saves(r, a, status, software) /\ failures' \in Nat
  <2> DEFINE known == IF alerts[a].rule \in SoftwareRules \/ alerts[a].attempts > DiagnosisAttempts
                      THEN {FALSE} ELSE BOOLEAN
             left  == IF alerts[a].attempts < DiagnosisAttempts THEN "retry" ELSE "done"
  <2>1. CASE UNCHANGED failures /\ \E software \in known : Saves(r, a, "done", software)
    <3>1. known \subseteq BOOLEAN
      OBVIOUS
    <3>2. failures' \in Nat
      BY <1>1, <2>1 DEF IssuesTypeOK
    <3> HIDE DEF known
    <3> QED BY <2>1, <3>1, <3>2
  <2>2. CASE CallFails /\ Saves(r, a, left, FALSE)
    <3>1. left \in {"retry", "done"}
      OBVIOUS
    <3>2. failures' \in Nat
      BY <1>1, <2>2 DEF CallFails, IssuesTypeOK
    <3> HIDE DEF left
    <3> QED BY <2>2, <3>1, <3>2
  <2> QED BY <2>1, <2>2 DEF Diagnose
<1> DEFINE to == Left(r, runs[r].todo \ {a})
           b == [alerts[a] EXCEPT !.status = status, !.at = now, !.software = software]
<1>4. Becomes(r, to) /\ alerts' = [alerts EXCEPT ![a] = b]
  BY <1>3 DEF Saves
<1>5. /\ to \in RunRecords /\ to.stage \in {"idle", "diagnosing"} /\ to.todo = runs[r].todo \ {a}
      /\ to.stage = "diagnosing" => to.begun = runs[r].begun
      /\ b \in AlertRecords /\ b.status = status
      /\ b.rule = alerts[a].rule /\ b.opened = alerts[a].opened /\ b.issue = alerts[a].issue
      /\ b.resolved = alerts[a].resolved /\ b.saying = alerts[a].saying
  <2>1. /\ b \in AlertRecords /\ b.status = status
        /\ b.rule = alerts[a].rule /\ b.opened = alerts[a].opened /\ b.issue = alerts[a].issue
        /\ b.resolved = alerts[a].resolved /\ b.saying = alerts[a].saying
    BY <1>1 DEF AlertRecords, Times
  <2>2. CASE runs[r].todo \ {a} = {}
    <3>1. to = Ended
      BY <2>2 DEF Left
    <3> QED BY <2>1, <2>2, <3>1, EndedIs
  <2>3. CASE runs[r].todo \ {a} # {}
    <3> DEFINE rest == [runs[r] EXCEPT !.todo = runs[r].todo \ {a}]
    <3>1. to = rest
      BY <2>3 DEF Left
    <3>2. /\ rest \in RunRecords /\ rest.stage = "diagnosing" /\ rest.todo = runs[r].todo \ {a}
          /\ rest.begun = runs[r].begun
      BY <1>1, <1>2 DEF RunRecords, At
    <3> QED BY <2>1, <3>1, <3>2
  <2> QED BY <2>2, <2>3
<1> HIDE DEF to, b
<1>6. runs' \in [Runs -> RunRecords] /\ runs'[r] = to /\ \A q \in Runs \ {r} : runs'[q] = runs[q]
  BY <1>1, <1>4, <1>5, RunMoves DEF IssuesTypeOK
<1>7. /\ alerts' \in Seq(AlertRecords) /\ DOMAIN alerts' = DOMAIN alerts /\ alerts'[a] = b
      /\ \A o \in DOMAIN alerts \ {a} : alerts'[o] = alerts[o]
  BY <1>1, <1>4, <1>5, OneRowRewritten
<1>8. alerts[a].status = "pending" /\ \A q \in Runs : InDiagnosis(q, a) => q = r
  BY <1>1, <1>2 DEF HandoffInv, DiagnosisSound
<1>9. RowsKept /\ NothingFiled
  BY <1>5, <1>7, <1>8 DEF RowsKept, RowKept, NothingFiled
<1>10. ASSUME NEW q \in Runs, NEW o \in Nat, InDiagnosis(q, o)'
       PROVE  /\ InDiagnosis(q, o) /\ o # a /\ o \in DOMAIN alerts /\ runs'[q].begun = runs[q].begun
              /\ alerts'[o].status = alerts[o].status /\ alerts'[o].at = alerts[o].at
  <2>1. InDiagnosis(q, o) /\ runs'[q].begun = runs[q].begun
    BY <1>2, <1>5, <1>6, <1>10 DEF InDiagnosis, At
  <2>2. o # a
    <3>1. CASE q = r
      BY <1>5, <1>6, <1>10, <3>1 DEF InDiagnosis
    <3>2. CASE q # r
      BY <1>8, <2>1, <3>2
    <3> QED BY <3>1, <3>2
  <2>3. o \in DOMAIN alerts
    BY <2>1, ClaimsAreFresh
  <2> QED BY <1>7, <2>1, <2>2, <2>3
<1>11. \A q \in Runs, o \in Nat : DiagnosisSound(q, o)'
  BY <1>9, <1>10, DiagnosesStay DEF HandoffInv
<1>12. SettledStay
  <2>1. ASSUME NEW o \in DOMAIN alerts, alerts[o].status # "done", alerts[o].resolved # None,
               \A q \in Runs : ~InDiagnosis(q, o)
        PROVE  alerts'[o].status # "done" /\ \A q \in Runs : ~InDiagnosis(q, o)'
    <3>1. o # a /\ o \in Nat
      BY <1>1, <1>2, <2>1, HandoffTypes
    <3> QED BY <1>7, <1>10, <2>1, <3>1
  <2> QED BY <1>1, <1>9, <2>1, SettledStays
<1>13. \A q \in Runs, o \in Nat : RecoverySound(q, o)'
  <2>1. ASSUME NEW q \in Runs, NEW o \in Nat, InRecovery(q, o)'
        PROVE  /\ InRecovery(q, o) /\ runs'[q].begun = runs[q].begun
               /\ runs'[q].knew = runs[q].knew /\ alerts'[o].saying = alerts[o].saying
    <3>1. q # r /\ InRecovery(q, o) /\ runs'[q] = runs[q]
      BY <1>5, <1>6, <2>1 DEF InRecovery, Recovered
    <3>2. o \in DOMAIN alerts
      BY <3>1, ClaimsAreFresh
    <3> QED BY <1>5, <1>7, <3>1, <3>2
  <2> QED BY <1>1, <1>9, <1>12, <2>1, RecoveriesStay DEF HandoffInv
<1>14. SayingSound(r)' /\ QueueSound(r)'
  BY <1>5, <1>6 DEF SayingSound, QueueSound, At, Filing
<1>15. to.stage \notin Filing /\ Timely(to)
  BY <1>1, <1>2, <1>5 DEF Filing, InTime, Timely, Recovered, At
<1> QED BY <1>1, <1>2, <1>3, <1>4, <1>5, <1>7, <1>9, <1>11, <1>12, <1>13, <1>14, <1>15, SilentSteps

LEMMA ClaimIssuesIsSound ==
  ASSUME HandoffInv, NEW r \in Runs, ClaimIssues(r) PROVE HandoffInv'
<1> DEFINE due == {a \in DOMAIN alerts : DueForIssue(alerts[a])}
           to == [Ended EXCEPT !.stage = "filing", !.todo = due]
<1>1. /\ IssuesTypeOK /\ now \in Nat /\ runs[r] \in RunRecords /\ runs[r].stage = "idle" /\ InTime(r)
      /\ holder \in [Rules -> Runs \cup {None}]
      /\ UNCHANGED <<now, holder, issues, failures, happenings>> /\ failures' \in Nat
  BY HandoffTypes DEF HandoffInv, IssuesTypeOK, ClaimIssues, At
<1>2. /\ Becomes(r, to)
      /\ alerts' = [a \in DOMAIN alerts |->
                      IF a \in due THEN [alerts[a] EXCEPT !.filing = now] ELSE alerts[a]]
  BY DEF ClaimIssues
<1>3. due \in SUBSET Nat /\ \A a \in due : ToFile(a)
  BY <1>1, HandoffTypes DEF DueForIssue, ToFile
<1> HIDE DEF due
<1>4. to \in RunRecords /\ to.stage = "filing" /\ to.todo = due
  BY <1>1, <1>3, EndedIs DEF RunRecords
<1> HIDE DEF to
<1>5. runs' \in [Runs -> RunRecords] /\ runs'[r] = to /\ \A q \in Runs \ {r} : runs'[q] = runs[q]
  BY <1>1, <1>2, <1>4, RunMoves DEF IssuesTypeOK
<1>6. ASSUME NEW a \in DOMAIN alerts
      PROVE  /\ alerts'[a] \in AlertRecords
             /\ alerts'[a].rule = alerts[a].rule /\ alerts'[a].opened = alerts[a].opened
             /\ alerts'[a].issue = alerts[a].issue /\ alerts'[a].resolved = alerts[a].resolved
             /\ alerts'[a].status = alerts[a].status /\ alerts'[a].at = alerts[a].at
             /\ alerts'[a].software = alerts[a].software /\ alerts'[a].saying = alerts[a].saying
  <2>1. alerts[a] \in AlertRecords
    BY <1>1, HandoffTypes
  <2>2. CASE a \notin due
    BY <1>2, <2>1, <2>2
  <2>3. CASE a \in due
    <3> DEFINE b == [alerts[a] EXCEPT !.filing = now]
    <3>1. /\ b \in AlertRecords /\ b.status = alerts[a].status /\ b.at = alerts[a].at
          /\ b.rule = alerts[a].rule /\ b.opened = alerts[a].opened /\ b.issue = alerts[a].issue
          /\ b.resolved = alerts[a].resolved /\ b.software = alerts[a].software /\ b.saying = alerts[a].saying
      BY <1>1, <2>1 DEF AlertRecords, Times
    <3>2. alerts'[a] = b
      BY <1>2, <2>3
    <3> HIDE DEF b
    <3> QED BY <3>1, <3>2
  <2> QED BY <2>2, <2>3
<1>7. alerts' \in Seq(AlertRecords) /\ DOMAIN alerts' = DOMAIN alerts
  <2>1. alerts' \in [DOMAIN alerts -> AlertRecords]
    BY <1>2, <1>6
  <2> QED BY <1>1, <2>1, RewrittenRows DEF IssuesTypeOK
<1>8. RowsKept /\ NothingFiled
  BY <1>6, <1>7 DEF RowsKept, RowKept, NothingFiled
<1>9. ClaimsShrink
  BY <1>4, <1>5 DEF ClaimsShrink, Recovered
<1>10. SettledStay /\ \A q \in Runs, a \in Nat : DiagnosisSound(q, a)' /\ RecoverySound(q, a)'
  BY <1>6, <1>8, <1>9, ClaimsStaySound
<1>11. SayingSound(r)' /\ QueueSound(r)'
  BY <1>3, <1>4, <1>5, <1>8, ToFileStays DEF SayingSound, QueueSound, At
<1>12. to.stage \notin Filing /\ Timely(to)
  BY <1>1, <1>4 DEF Filing, InTime, Timely, Recovered
<1> QED BY <1>1, <1>2, <1>4, <1>7, <1>8, <1>10, <1>11, <1>12, SilentSteps

(* Whom a comment that an issue is over knew of is settled when it is      *)
(* decided on.                                                             *)
LEMMA WhatIsKnownIsSettled ==
  ASSUME HandoffInv, NEW a \in DOMAIN alerts, DueForRecovery(a), NEW o \in DOMAIN alerts,
         Urgent(alerts[o]), Recent(alerts[o])
  PROVE  SettledOf(alerts[a].rule, o)
<1> SUFFICES ASSUME alerts[o].rule = alerts[a].rule PROVE Settled(o)
  BY DEF SettledOf
<1>1. ~StillToFile(alerts[o])
  BY DEF DueForRecovery
<1>2. \A q \in Runs : InDiagnosis(q, o) => alerts[o].status = "pending" /\ Within(alerts[o].at, DiagnosisStale)
  BY ClaimsAreFresh, HandoffTypes DEF HandoffInv
<1> QED BY <1>1, <1>2 DEF StillToFile, Settled

LEMMA ClaimRecoveriesIsSound ==
  ASSUME HandoffInv, NEW r \in Runs, ClaimRecoveries(r) PROVE HandoffInv'
<1> DEFINE due  == {a \in DOMAIN alerts : DueForRecovery(a)}
           knew == {a \in DOMAIN alerts : Urgent(alerts[a]) /\ Recent(alerts[a])}
           to   == [Ended EXCEPT !.stage = "recovering", !.begun = now, !.todo = due, !.knew = knew]
<1>1. /\ IssuesTypeOK /\ now \in Nat /\ runs[r] \in RunRecords /\ runs[r].stage = "idle" /\ InTime(r)
      /\ holder \in [Rules -> Runs \cup {None}]
      /\ UNCHANGED <<now, holder, issues, failures, happenings>> /\ failures' \in Nat
  BY HandoffTypes DEF HandoffInv, IssuesTypeOK, ClaimRecoveries, At
<1>2. /\ Becomes(r, to)
      /\ alerts' = [a \in DOMAIN alerts |->
                      IF a \in due THEN [alerts[a] EXCEPT !.saying = now] ELSE alerts[a]]
  BY DEF ClaimRecoveries
<1>3. /\ due \in SUBSET Nat /\ knew \in SUBSET Nat
      /\ due \subseteq DOMAIN alerts /\ \A a \in due : DueForRecovery(a)
      /\ knew \subseteq DOMAIN alerts /\ \A o \in knew : Urgent(alerts[o]) /\ Recent(alerts[o])
  BY <1>1, HandoffTypes
<1> HIDE DEF due, knew
<1>4. to \in RunRecords /\ to.stage = "recovering" /\ to.begun = now /\ to.todo = due /\ to.knew = knew
  BY <1>1, <1>3, EndedIs DEF RunRecords, Recovered
<1> HIDE DEF to
<1>5. runs' \in [Runs -> RunRecords] /\ runs'[r] = to /\ \A q \in Runs \ {r} : runs'[q] = runs[q]
  BY <1>1, <1>2, <1>4, RunMoves DEF IssuesTypeOK
<1>6. ASSUME NEW a \in DOMAIN alerts
      PROVE  /\ alerts'[a] \in AlertRecords
             /\ alerts'[a].rule = alerts[a].rule /\ alerts'[a].opened = alerts[a].opened
             /\ alerts'[a].issue = alerts[a].issue /\ alerts'[a].resolved = alerts[a].resolved
             /\ alerts'[a].status = alerts[a].status /\ alerts'[a].at = alerts[a].at
             /\ alerts'[a].software = alerts[a].software
             /\ alerts'[a].saying = IF a \in due THEN now ELSE alerts[a].saying
  <2>1. alerts[a] \in AlertRecords
    BY <1>1, HandoffTypes
  <2>2. CASE a \notin due
    BY <1>2, <2>1, <2>2
  <2>3. CASE a \in due
    <3> DEFINE b == [alerts[a] EXCEPT !.saying = now]
    <3>1. /\ b \in AlertRecords /\ b.status = alerts[a].status /\ b.at = alerts[a].at
          /\ b.rule = alerts[a].rule /\ b.opened = alerts[a].opened /\ b.issue = alerts[a].issue
          /\ b.resolved = alerts[a].resolved /\ b.software = alerts[a].software /\ b.saying = now
      BY <1>1, <2>1 DEF AlertRecords, Times
    <3>2. alerts'[a] = b
      BY <1>2, <2>3
    <3> HIDE DEF b
    <3> QED BY <2>3, <3>1, <3>2
  <2> QED BY <2>2, <2>3
<1>7. alerts' \in Seq(AlertRecords) /\ DOMAIN alerts' = DOMAIN alerts
  <2>1. alerts' \in [DOMAIN alerts -> AlertRecords]
    BY <1>2, <1>6
  <2> QED BY <1>1, <2>1, RewrittenRows DEF IssuesTypeOK
<1>8. RowsKept /\ NothingFiled
  BY <1>6, <1>7 DEF RowsKept, RowKept, NothingFiled
<1>9. ASSUME NEW q \in Runs, NEW a \in Nat, InDiagnosis(q, a)'
      PROVE  /\ InDiagnosis(q, a) /\ a \in DOMAIN alerts /\ runs'[q].begun = runs[q].begun
             /\ alerts'[a].status = alerts[a].status /\ alerts'[a].at = alerts[a].at
  <2>1. InDiagnosis(q, a) /\ runs'[q].begun = runs[q].begun
    BY <1>4, <1>5, <1>9 DEF InDiagnosis, At
  <2>2. a \in DOMAIN alerts
    BY <2>1, ClaimsAreFresh
  <2> QED BY <1>6, <2>1, <2>2
<1>10. \A q \in Runs, a \in Nat : DiagnosisSound(q, a)'
  BY <1>8, <1>9, DiagnosesStay DEF HandoffInv
<1>11. SettledStay
  <2>1. ASSUME NEW o \in DOMAIN alerts, alerts[o].status # "done", alerts[o].resolved # None,
               \A q \in Runs : ~InDiagnosis(q, o)
        PROVE  alerts'[o].status # "done" /\ \A q \in Runs : ~InDiagnosis(q, o)'
    <3>1. o \in Nat
      BY <1>1, HandoffTypes
    <3> QED BY <1>6, <1>9, <2>1, <3>1
  <2> QED BY <1>1, <1>8, <2>1, SettledStays
<1>12. ASSUME NEW q \in Runs \ {r}, NEW a \in Nat, InRecovery(q, a)'
       PROVE  /\ InRecovery(q, a) /\ runs'[q] = runs[q] /\ a \in DOMAIN alerts
              /\ a \in due => runs[q].begun + RetryAfter < now
  <2>1. InRecovery(q, a) /\ runs'[q] = runs[q]
    BY <1>5, <1>12 DEF InRecovery
  <2>2. a \in DOMAIN alerts /\ (Older(alerts[a].saying, RetryAfter) => runs[q].begun + RetryAfter < now)
    BY <2>1, ClaimsAreFresh
  <2>3. a \in due => Older(alerts[a].saying, RetryAfter)
    BY <1>3 DEF DueForRecovery
  <2> QED BY <2>1, <2>2, <2>3
<1>13. ASSUME NEW a \in Nat, InRecovery(r, a)'
       PROVE  a \in due /\ runs'[r].begun = now
  BY <1>4, <1>5, <1>13 DEF InRecovery
<1>14. ASSUME NEW q \in Runs, NEW a \in Nat PROVE RecoverySound(q, a)'
  <2> SUFFICES ASSUME InRecovery(q, a)'
               PROVE  /\ a \in DOMAIN alerts' /\ alerts'[a].issue # None
                      /\ alerts'[a].saying # None /\ alerts'[a].saying >= runs'[q].begun
                      /\ \A p \in Runs : InRecovery(p, a)' => p = q \/ Apart(runs'[p].begun, runs'[q].begun)
                      /\ \A o \in runs'[q].knew : SettledOf(alerts[a].rule, o)'
    BY DEF RecoverySound, Apart
  <2>1. ASSUME NEW o \in Nat, a \in DOMAIN alerts, SettledOf(alerts[a].rule, o)
        PROVE  SettledOf(alerts[a].rule, o)'
    <3>1. PICK rule \in Rules : rule = alerts[a].rule
      BY <1>1, <2>1, HandoffTypes
    <3>2. SettledOf(rule, o)'
      BY <1>11, <2>1, <3>1 DEF SettledStay
    <3>3. alerts'[a].rule = rule
      BY <1>6, <2>1, <3>1
    <3> QED BY <3>2, <3>3 DEF SettledOf
  <2>2. CASE q = r
    <3>1. a \in due /\ a \in DOMAIN alerts /\ runs'[q].begun = now /\ DueForRecovery(a)
      BY <1>3, <1>13, <2>2
    <3>2. a \in DOMAIN alerts' /\ alerts'[a].issue # None /\ alerts'[a].saying = now
      BY <1>6, <1>7, <3>1 DEF DueForRecovery
    <3>3. now # None /\ now >= runs'[q].begun
      BY <1>1, <3>1, HandoffWindows
    <3>4. \A p \in Runs : InRecovery(p, a)' => p = q \/ Apart(runs'[p].begun, runs'[q].begun)
      BY <1>12, <2>2, <3>1 DEF Apart
    <3>5. \A o \in runs'[q].knew : SettledOf(alerts[a].rule, o)'
      <4>1. runs'[q].knew = knew
        BY <1>4, <1>5, <2>2
      <4>2. ASSUME NEW o \in knew PROVE SettledOf(alerts[a].rule, o)'
        <5>1. o \in Nat /\ SettledOf(alerts[a].rule, o)
          BY <1>3, <3>1, WhatIsKnownIsSettled
        <5> QED BY <2>1, <3>1, <5>1
      <4> QED BY <4>1, <4>2
    <3> QED BY <3>2, <3>3, <3>4, <3>5
  <2>3. CASE q # r
    <3>1. /\ InRecovery(q, a) /\ runs'[q] = runs[q] /\ a \in DOMAIN alerts
          /\ a \in due => runs[q].begun + RetryAfter < now
      BY <1>12, <2>3
    <3>2. RecoverySound(q, a)
      BY DEF HandoffInv
    <3>3. ASSUME NEW p \in Runs, InRecovery(p, a)'
          PROVE  p = q \/ Apart(runs'[p].begun, runs'[q].begun)
      <4>1. CASE p = r
        BY <1>13, <3>1, <3>3, <4>1 DEF Apart
      <4>2. CASE p # r
        <5>1. InRecovery(p, a) /\ runs'[p] = runs[p]
          BY <1>12, <3>3, <4>2
        <5> QED BY <3>1, <3>2, <5>1 DEF RecoverySound
      <4> QED BY <4>1, <4>2
    <3>4. ASSUME NEW o \in runs'[q].knew PROVE SettledOf(alerts[a].rule, o)'
      <4>1. SettledOf(alerts[a].rule, o) /\ runs[q] \in RunRecords
        BY <1>1, <3>1, <3>2, <3>4, HandoffTypes DEF RecoverySound
      <4>2. o \in Nat
        BY <3>1, <3>4, <4>1 DEF RunRecords
      <4> QED BY <2>1, <3>1, <4>1, <4>2
    <3>5. /\ a \in DOMAIN alerts' /\ alerts'[a].issue # None
          /\ alerts'[a].saying # None /\ alerts'[a].saying >= runs'[q].begun
      <4>1. alerts[a].saying # None /\ alerts[a].saying >= runs[q].begun /\ alerts[a].issue # None
        BY <3>1, <3>2 DEF RecoverySound
      <4>2. runs[q].begun <= now
        <5>1. InTime(q) /\ runs[q].stage \in Recovered
          BY <3>1 DEF HandoffInv, InRecovery
        <5> QED BY <5>1 DEF InTime, Timely
      <4> QED BY <1>1, <1>6, <1>7, <3>1, <4>1, <4>2, HandoffWindows
    <3> QED BY <3>3, <3>4, <3>5
  <2> QED BY <2>2, <2>3
<1>15. SayingSound(r)' /\ QueueSound(r)'
  BY <1>4, <1>5 DEF SayingSound, QueueSound, At, Filing
<1>16. to.stage \notin Filing /\ Timely(to)
  BY <1>1, <1>4, HandoffWindows DEF Filing, Timely, Recovered
<1> QED BY <1>1, <1>2, <1>4, <1>7, <1>8, <1>10, <1>11, <1>14, <1>15, <1>16, SilentSteps

LEMMA RunDiesIsSound ==
  ASSUME HandoffInv, NEW r \in Runs, RunDies(r) PROVE HandoffInv'
<1>1. /\ IssuesTypeOK /\ UNCHANGED <<now, alerts, issues, happenings>> /\ failures' \in Nat
      /\ alerts' \in Seq(AlertRecords) /\ Becomes(r, Ended)
      /\ holder' = [rule \in Rules |-> IF holder[rule] = r THEN None ELSE holder[rule]]
  BY DEF HandoffInv, IssuesTypeOK, RunDies, CallFails
<1>2. runs'[r] = Ended /\ \A q \in Runs \ {r} : runs'[q] = runs[q]
  BY <1>1, EndedIs, RunMoves DEF IssuesTypeOK
<1>3. RowsKept /\ NothingFiled
  BY <1>1, RowsUnmoved
<1>4. ClaimsShrink
  BY <1>2, EndedIs DEF ClaimsShrink, Recovered
<1>5. SettledStay /\ \A q \in Runs, a \in Nat : DiagnosisSound(q, a)' /\ RecoverySound(q, a)'
  BY <1>1, <1>3, <1>4, ClaimsStaySound
<1>6. SayingSound(r)' /\ QueueSound(r)'
  BY <1>2, EndedIs DEF SayingSound, QueueSound, At, Filing
<1>7. holder' \in [Rules -> Runs \cup {None}]
      /\ \A rule \in Rules : holder[rule] \in Runs \ {r} => holder'[rule] = holder[rule]
  BY <1>1 DEF IssuesTypeOK
<1>8. Ended.stage \notin Filing /\ Timely(Ended)
  BY EndedIs DEF Filing, Timely, Recovered
<1> QED BY <1>1, <1>3, <1>5, <1>6, <1>7, <1>8, EndedIs, SilentSteps

-----------------------------------------------------------------------------
(* The recoveries, issue by issue.                                         *)
LEMMA TurnsFromTo ==
  ASSUME IssuesTypeOK, NEW r \in Runs, NEW done, TurnsFrom(r, done)
  PROVE  \E to \in RunRecords :
           /\ Becomes(r, to) /\ to.stage \in {"idle", "recovering"}
           /\ to.stage = "recovering" => /\ to.begun = runs[r].begun /\ to.knew = runs[r].knew
                                         /\ to.todo = runs[r].todo \ done
<1> DEFINE to == IF runs[r].todo = done THEN Ended
                 ELSE [runs[r] EXCEPT !.stage = "recovering", !.todo = @ \ done, !.naming = {}]
<1>1. Becomes(r, to)
  BY DEF TurnsFrom
<1>2. runs[r] \in RunRecords
  BY HandoffTypes
<1>3. /\ to \in RunRecords /\ to.stage \in {"idle", "recovering"}
      /\ to.stage = "recovering" => /\ to.begun = runs[r].begun /\ to.knew = runs[r].knew
                                    /\ to.todo = runs[r].todo \ done
  BY <1>2, EndedIs DEF RunRecords, Recovered
<1> HIDE DEF to
<1> QED BY <1>1, <1>3

(* A run that has recoveries to say takes its next step: it keeps to what  *)
(* it claimed, or ends.                                                    *)
RecoveryStep(r, to) ==
  /\ runs[r].stage \in Recovered
  /\ to \in RunRecords /\ Becomes(r, to)
  /\ to.stage \in {"idle"} \cup Recovered
  /\ to.stage \in Recovered => /\ to.begun = runs[r].begun /\ to.knew = runs[r].knew
                               /\ to.todo \subseteq runs[r].todo

LEMMA RecoveryStepIs ==
  ASSUME HandoffInv, NEW r \in Runs, NEW to, RecoveryStep(r, to), now' = now
  PROVE  /\ runs' \in [Runs -> RunRecords] /\ runs'[r] = to /\ \A q \in Runs \ {r} : runs'[q] = runs[q]
         /\ ClaimsShrink
         /\ to.stage \notin Filing /\ Timely(to)
         /\ QueueSound(r)'
<1>1. IssuesTypeOK /\ InTime(r)
  BY DEF HandoffInv
<1>2. runs' \in [Runs -> RunRecords] /\ runs'[r] = to /\ \A q \in Runs \ {r} : runs'[q] = runs[q]
  BY <1>1, RunMoves DEF RecoveryStep, IssuesTypeOK
<1>3. ClaimsShrink
  BY <1>2 DEF ClaimsShrink, RecoveryStep, Recovered
<1>4. to.stage \notin Filing /\ Timely(to)
  BY <1>1 DEF RecoveryStep, Recovered, Filing, InTime, Timely
<1>5. QueueSound(r)'
  BY <1>2 DEF QueueSound, RecoveryStep, Recovered, Filing
<1> QED BY <1>2, <1>3, <1>4, <1>5

LEMMA ReadRecoveriesIsSound ==
  ASSUME HandoffInv, NEW r \in Runs, ReadRecoveries(r) PROVE HandoffInv'
<1> DEFINE unsaid == OfIssue(r) \ Named(IssueOf(r), "recovery")
<1>1. /\ IssuesTypeOK /\ runs[r].stage = "recovering" /\ runs[r].stage \in Recovered
      /\ UNCHANGED <<now, alerts, holder, issues, happenings>>
      /\ alerts' \in Seq(AlertRecords) /\ holder' \in [Rules -> Runs \cup {None}]
  BY DEF HandoffInv, IssuesTypeOK, ReadRecoveries, At, Recovered
<1>2. runs[r] \in RunRecords /\ runs[r].todo \in SUBSET Nat
  BY <1>1, HandoffTypes
<1>3. PICK to : RecoveryStep(r, to) /\ failures' \in Nat
                /\ (to.stage = "saying" => to.todo = runs[r].todo /\ to.naming = unsaid /\ unsaid # {})
  <2>1. CASE Gone(r)
    <3>1. CallFails /\ TurnsFrom(r, OfIssue(r))
      BY <2>1 DEF Gone
    <3>2. failures' \in Nat
      BY <1>1, <3>1 DEF CallFails, IssuesTypeOK
    <3>3. PICK to \in RunRecords :
            /\ Becomes(r, to) /\ to.stage \in {"idle", "recovering"}
            /\ to.stage = "recovering" => /\ to.begun = runs[r].begun /\ to.knew = runs[r].knew
                                          /\ to.todo = runs[r].todo \ OfIssue(r)
      BY <1>1, <3>1, TurnsFromTo
    <3>4. RecoveryStep(r, to) /\ to.stage # "saying"
      BY <1>1, <3>3 DEF RecoveryStep, Recovered
    <3> QED BY <3>2, <3>4
  <2>2. CASE ~Gone(r)
    <3> DEFINE to == [runs[r] EXCEPT !.stage = IF unsaid = {} THEN "marking" ELSE "saying", !.naming = unsaid]
    <3>1. Becomes(r, to) /\ UNCHANGED failures
      BY <2>2 DEF ReadRecoveries
    <3>2. unsaid \in SUBSET Nat
      BY <1>2 DEF OfIssue
    <3> HIDE DEF unsaid
    <3>3. /\ to \in RunRecords /\ to.stage \in {"marking", "saying"}
          /\ to.begun = runs[r].begun /\ to.knew = runs[r].knew /\ to.todo = runs[r].todo
          /\ to.stage = "saying" => to.naming = unsaid /\ unsaid # {}
      BY <1>2, <3>2 DEF RunRecords, Recovered
    <3> HIDE DEF to
    <3>4. RecoveryStep(r, to)
      BY <1>1, <3>1, <3>3 DEF RecoveryStep, Recovered
    <3>5. failures' \in Nat
      BY <1>1, <3>1 DEF IssuesTypeOK
    <3> QED BY <3>3, <3>4, <3>5
  <2> QED BY <2>1, <2>2
<1>4. /\ runs'[r] = to /\ \A q \in Runs \ {r} : runs'[q] = runs[q]
      /\ ClaimsShrink /\ QueueSound(r)' /\ to \in RunRecords /\ Becomes(r, to)
      /\ to.stage \notin Filing /\ Timely(to)
  BY <1>1, <1>3, RecoveryStepIs DEF RecoveryStep
<1>5. RowsKept /\ NothingFiled
  BY <1>1, RowsUnmoved
<1>6. SettledStay /\ \A q \in Runs, a \in Nat : DiagnosisSound(q, a)' /\ RecoverySound(q, a)'
  BY <1>1, <1>4, <1>5, ClaimsStaySound
<1>7. SayingSound(r)'
  <2> SUFFICES ASSUME to.stage = "saying" PROVE SayingSound(r)'
    BY <1>4 DEF SayingSound, At
  <2>1. runs'[r].todo = runs[r].todo /\ runs'[r].naming = unsaid /\ unsaid # {}
    BY <1>3, <1>4
  <2>2. OfIssue(r)' = OfIssue(r)
    BY <1>1, <2>1 DEF OfIssue
  <2>3. IssueOf(r)' = IssueOf(r)
    BY <1>1, <2>2 DEF IssueOf
  <2>4. SaidInTime(IssueOf(r))' = SaidInTime(IssueOf(r))
    BY <1>1, <2>3 DEF SaidInTime, CommentsOf
  <2>5. SaidInTime(IssueOf(r)) \subseteq Named(IssueOf(r), "recovery")
    BY DEF SaidInTime, Named
  <2> QED BY <2>1, <2>2, <2>4, <2>5 DEF SayingSound
<1> QED BY <1>1, <1>3, <1>4, <1>5, <1>6, <1>7, SilentSteps

LEMMA MarkRecoveredIsSound ==
  ASSUME HandoffInv, NEW r \in Runs, MarkRecovered(r) PROVE HandoffInv'
<1>0. PICK a : a = Min(runs[r].todo)
  OBVIOUS
<1>1. /\ IssuesTypeOK /\ runs[r].stage = "marking" /\ runs[r].stage \in Recovered
      /\ UNCHANGED <<now, holder, issues, failures, happenings>> /\ failures' \in Nat
      /\ holder' \in [Rules -> Runs \cup {None}]
      /\ alerts' = [alerts EXCEPT ![a].said = TRUE]
  BY <1>0 DEF HandoffInv, IssuesTypeOK, MarkRecovered, At, Recovered
<1>2. runs[r] \in RunRecords
  BY <1>1, HandoffTypes
<1>3. PICK to : RecoveryStep(r, to) /\ to.stage # "saying"
  <2>1. CASE OfIssue(r) = {a}
    <3>1. TurnsFrom(r, {a})
      BY <1>0, <2>1 DEF MarkRecovered
    <3>2. PICK to \in RunRecords :
            /\ Becomes(r, to) /\ to.stage \in {"idle", "recovering"}
            /\ to.stage = "recovering" => /\ to.begun = runs[r].begun /\ to.knew = runs[r].knew
                                          /\ to.todo = runs[r].todo \ {a}
      BY <1>1, <3>1, TurnsFromTo
    <3> QED BY <1>1, <3>2 DEF RecoveryStep, Recovered
  <2>2. CASE OfIssue(r) # {a}
    <3> DEFINE to == [runs[r] EXCEPT !.todo = @ \ {a}]
    <3>1. Becomes(r, to)
      BY <1>0, <2>2 DEF MarkRecovered
    <3>2. /\ to \in RunRecords /\ to.stage = "marking"
          /\ to.begun = runs[r].begun /\ to.knew = runs[r].knew /\ to.todo = runs[r].todo \ {a}
      BY <1>1, <1>2 DEF RunRecords
    <3> HIDE DEF to
    <3> QED BY <1>1, <3>1, <3>2 DEF RecoveryStep, Recovered
  <2> QED BY <2>1, <2>2
<1>4. /\ runs'[r] = to /\ ClaimsShrink /\ QueueSound(r)' /\ to \in RunRecords /\ Becomes(r, to)
      /\ to.stage \notin Filing /\ Timely(to)
  BY <1>1, <1>3, RecoveryStepIs DEF RecoveryStep
<1>5. ASSUME NEW o \in DOMAIN alerts
      PROVE  /\ alerts'[o] \in AlertRecords
             /\ alerts'[o].rule = alerts[o].rule /\ alerts'[o].opened = alerts[o].opened
             /\ alerts'[o].issue = alerts[o].issue /\ alerts'[o].resolved = alerts[o].resolved
             /\ alerts'[o].status = alerts[o].status /\ alerts'[o].at = alerts[o].at
             /\ alerts'[o].software = alerts[o].software /\ alerts'[o].saying = alerts[o].saying
  <2>1. alerts[o] \in AlertRecords
    BY <1>1, HandoffTypes
  <2>2. CASE o # a
    BY <1>1, <2>1, <2>2
  <2>3. CASE o = a
    <3> DEFINE b == [alerts[o] EXCEPT !.said = TRUE]
    <3>1. /\ b \in AlertRecords /\ b.status = alerts[o].status /\ b.at = alerts[o].at
          /\ b.rule = alerts[o].rule /\ b.opened = alerts[o].opened /\ b.issue = alerts[o].issue
          /\ b.resolved = alerts[o].resolved /\ b.software = alerts[o].software /\ b.saying = alerts[o].saying
      BY <2>1 DEF AlertRecords
    <3>2. alerts'[o] = b
      BY <1>1, <2>3
    <3> HIDE DEF b
    <3> QED BY <3>1, <3>2
  <2> QED BY <2>2, <2>3
<1>6. alerts' \in Seq(AlertRecords) /\ DOMAIN alerts' = DOMAIN alerts
  <2>1. alerts' \in [DOMAIN alerts -> AlertRecords]
    BY <1>1, <1>5
  <2> QED BY <1>1, <2>1, RewrittenRows DEF IssuesTypeOK
<1>7. RowsKept /\ NothingFiled
  BY <1>5, <1>6 DEF RowsKept, RowKept, NothingFiled
<1>8. SettledStay /\ \A q \in Runs, o \in Nat : DiagnosisSound(q, o)' /\ RecoverySound(q, o)'
  BY <1>4, <1>5, <1>7, ClaimsStaySound
<1>9. SayingSound(r)'
  BY <1>3, <1>4 DEF SayingSound, At
<1> QED BY <1>1, <1>4, <1>6, <1>7, <1>8, <1>9, SilentSteps

(* What a run is about to say: of an issue there is, about alerts of its   *)
(* own.                                                                    *)
LEMMA SayingIs ==
  ASSUME HandoffInv, NEW r \in Runs, At(r, "saying")
  PROVE  /\ IssueOf(r) \in DOMAIN issues
         /\ runs[r].naming \subseteq runs[r].todo
         /\ Late(r) \/ runs[r].naming \cap SaidInTime(IssueOf(r)) = {}
         /\ \A o \in runs[r].knew : SettledOf(issues[IssueOf(r)].rule, o)
<1>1. IssuesTypeOK /\ SayingSound(r) /\ RowsFiled
  BY DEF HandoffInv
<1>2. /\ runs[r].naming # {} /\ runs[r].naming \subseteq OfIssue(r)
      /\ Late(r) \/ runs[r].naming \cap SaidInTime(IssueOf(r)) = {}
  BY <1>1 DEF SayingSound
<1>3. OfIssue(r) \subseteq runs[r].todo /\ runs[r].todo \in SUBSET Nat
  BY <1>1, HandoffTypes DEF OfIssue
<1>4. PICK a : a = Min(OfIssue(r)) /\ a \in OfIssue(r)
  BY <1>2, <1>3, LeastIsIn
<1>5. a \in Nat /\ a \in runs[r].todo /\ InRecovery(r, a)
  BY <1>3, <1>4 DEF InRecovery, Recovered, At
<1>6. RecoverySound(r, a)
  BY <1>5 DEF HandoffInv
<1>7. a \in DOMAIN alerts /\ alerts[a].issue # None /\ \A o \in runs[r].knew : SettledOf(alerts[a].rule, o)
  BY <1>5, <1>6 DEF RecoverySound
<1>8. IssueOf(r) = alerts[a].issue
  BY <1>4 DEF IssueOf
<1>9. IssueOf(r) \in DOMAIN issues /\ issues[IssueOf(r)].rule = alerts[a].rule
  BY <1>1, <1>7, <1>8 DEF RowsFiled
<1> QED BY <1>2, <1>3, <1>7, <1>9

LEMMA SayRecoveredIsSound ==
  ASSUME HandoffInv, NEW r \in Runs, SayRecovered(r) PROVE HandoffInv'
<1>1. /\ IssuesTypeOK /\ IssuesSound /\ At(r, "saying") /\ runs[r].stage \in Recovered
      /\ UNCHANGED <<now, alerts, holder, happenings>>
      /\ alerts' \in Seq(AlertRecords) /\ holder' \in [Rules -> Runs \cup {None}]
  BY DEF HandoffInv, IssuesTypeOK, IssuesSound, SayRecovered, At, Recovered
<1>2. runs[r] \in RunRecords /\ runs[r].todo \in SUBSET Nat
  BY <1>1, HandoffTypes
<1>3. PICK to : RecoveryStep(r, to) /\ failures' \in Nat /\ to.stage # "saying"
  <2>1. CASE Gone(r)
    <3>1. CallFails /\ TurnsFrom(r, OfIssue(r))
      BY <2>1 DEF Gone
    <3>2. failures' \in Nat
      BY <1>1, <3>1 DEF CallFails, IssuesTypeOK
    <3>3. PICK to \in RunRecords :
            /\ Becomes(r, to) /\ to.stage \in {"idle", "recovering"}
            /\ to.stage = "recovering" => /\ to.begun = runs[r].begun /\ to.knew = runs[r].knew
                                          /\ to.todo = runs[r].todo \ OfIssue(r)
      BY <1>1, <3>1, TurnsFromTo
    <3>4. RecoveryStep(r, to) /\ to.stage # "saying"
      BY <1>1, <3>3 DEF RecoveryStep, Recovered
    <3> QED BY <3>2, <3>4
  <2>2. CASE ~Gone(r)
    <3> DEFINE to == [runs[r] EXCEPT !.stage = "marking", !.naming = {}]
    <3>1. Becomes(r, to) /\ UNCHANGED failures
      BY <2>2 DEF SayRecovered
    <3>2. /\ to \in RunRecords /\ to.stage = "marking"
          /\ to.begun = runs[r].begun /\ to.knew = runs[r].knew /\ to.todo = runs[r].todo
      BY <1>2 DEF RunRecords, Recovered
    <3> HIDE DEF to
    <3>3. RecoveryStep(r, to)
      BY <1>1, <3>1, <3>2 DEF RecoveryStep, Recovered
    <3>4. failures' \in Nat
      BY <1>1, <3>1 DEF IssuesTypeOK
    <3> QED BY <3>2, <3>3, <3>4
  <2> QED BY <2>1, <2>2
<1>4. /\ runs'[r] = to /\ \A q \in Runs \ {r} : runs'[q] = runs[q]
      /\ ClaimsShrink /\ QueueSound(r)' /\ to \in RunRecords /\ Becomes(r, to)
      /\ to.stage \notin Filing /\ Timely(to)
  BY <1>1, <1>3, RecoveryStepIs DEF RecoveryStep
<1>5. RowsKept /\ NothingFiled
  BY <1>1, RowsUnmoved
<1>6. SettledStay /\ \A q \in Runs, a \in Nat : DiagnosisSound(q, a)' /\ RecoverySound(q, a)'
  BY <1>1, <1>4, <1>5, ClaimsStaySound
<1>7. SayingSound(r)'
  BY <1>3, <1>4 DEF SayingSound, At
<1>8. CASE UNCHANGED issues
  BY <1>1, <1>3, <1>4, <1>5, <1>6, <1>7, <1>8, SilentSteps
<1>9. CASE Says(IssueOf(r), RecoveryComment(r))
  <2>0. PICK n \in DOMAIN issues : n = IssueOf(r)
    BY <1>1, SayingIs
  <2>1. PICK c \in Comments : c = RecoveryComment(r)
    <3>1. runs[r].naming \in SUBSET Nat /\ runs[r].knew \in SUBSET Nat /\ (now - runs[r].begun > RetryAfter) \in BOOLEAN
      BY <1>2 DEF RunRecords
    <3>2. RecoveryComment(r) \in Comments
      BY <3>1 DEF RecoveryComment, Comments
    <3> QED BY <3>2
  <2>2. c.kind = "recovery" /\ c.names = runs[r].naming /\ c.knew = runs[r].knew /\ (c.slow <=> Late(r))
    BY <2>1 DEF RecoveryComment, Late
  <2>3. /\ Says(n, c) /\ (c.slow \/ c.names \cap SaidInTime(n) = {}) /\ c.names \subseteq runs[r].todo
        /\ \A o \in c.knew : SettledOf(issues[n].rule, o)
    BY <1>1, <1>9, <2>0, <2>1, <2>2, SayingIs
  <2>4. /\ IssuesSound'
        /\ \A k \in DOMAIN issues : \A kind : k # n \/ kind # "recovery" => Named(k, kind)' = Named(k, kind)
        /\ \A k \in DOMAIN issues : k # n => SaidInTime(k)' = SaidInTime(k)
        /\ SaidInTime(n)' \subseteq SaidInTime(n) \cup {a \in c.names : ~c.slow}
    BY <1>1, <1>5, <1>6, <2>2, <2>3, CommentIsSound
  <2>5. issues' \in Seq(IssueRecords) /\ DOMAIN issues' = DOMAIN issues /\ IssuesKept
    BY <1>1, <2>3, CommentIsAdded
  <2>6. ASSUME NEW q \in Runs \ {r} PROVE LeavesUnsaid(q)
    <3> SUFFICES ASSUME At(q, "saying"), ~Late(q), NEW k \in DOMAIN issues, NEW a \in runs[q].naming,
                        a \in SaidInTime(k)'
                 PROVE  a \in SaidInTime(k)
      BY DEF LeavesUnsaid
    <3>1. a \in runs[q].todo /\ runs[q].todo \in SUBSET Nat /\ InRecovery(q, a)
      BY <1>1, SayingIs, HandoffTypes DEF InRecovery, Recovered, At
    <3>2. CASE ~(a \in c.names /\ ~c.slow)
      BY <2>4, <3>2
    <3>3. CASE a \in c.names /\ ~c.slow
      <4>1. InRecovery(r, a) /\ ~Late(r)
        BY <1>1, <2>2, <2>3, <3>3 DEF InRecovery
      <4>2. RecoverySound(q, a)
        BY <3>1 DEF HandoffInv
      <4>3. Apart(runs[r].begun, runs[q].begun)
        BY <3>1, <4>1, <4>2 DEF RecoverySound
      <4>4. /\ runs[q].begun <= now /\ runs[r].begun <= now
            /\ now \in Nat /\ runs[q].begun \in Nat /\ runs[r].begun \in Nat
        BY <1>1, <3>1, HandoffTypes DEF HandoffInv, InTime, Timely, InRecovery, IssuesTypeOK
      <4> QED BY <4>1, <4>3, <4>4, HandoffWindows DEF Apart, Late
    <3> QED BY <3>2, <3>3
  <2> QED BY <1>1, <1>3, <1>4, <1>5, <1>6, <1>7, <2>4, <2>5, <2>6, RunSteps
<1> QED BY <1>8, <1>9 DEF SayRecovered

-----------------------------------------------------------------------------
(* Every step of the stage.                                                *)
LEMMA HandoffInit ==
  ASSUME IssuesInit PROVE HandoffInv
<1>1. IssuesTypeOK
  BY EndedIs DEF IssuesInit, IssuesTypeOK
<1>2. DOMAIN alerts = {} /\ DOMAIN issues = {} /\ \A r \in Runs : runs[r] = Ended
  BY DEF IssuesInit
<1>3. RowsFiled /\ NamedOnce /\ NothingJoinsAfterRecovery /\ \A n \in DOMAIN issues : IssueSound(n)
  BY <1>2 DEF RowsFiled, NamedOnce, NothingJoinsAfterRecovery
<1>4. ASSUME NEW r \in Runs PROVE runs[r].stage = "idle"
  BY <1>2, <1>4, EndedIs
<1>5. \A r \in Runs : InTime(r) /\ SayingSound(r) /\ QueueSound(r) /\ FilingSound(r)
  BY <1>4 DEF InTime, Timely, Recovered, SayingSound, QueueSound, FilingSound, Filing, At
<1>6. \A r \in Runs, a \in Nat : DiagnosisSound(r, a) /\ RecoverySound(r, a)
  BY <1>4 DEF DiagnosisSound, RecoverySound, InDiagnosis, InRecovery, Recovered, At
<1> QED BY <1>1, <1>3, <1>5, <1>6 DEF HandoffInv

LEMMA StutterIsSound ==
  ASSUME HandoffInv, UNCHANGED issuesVars PROVE HandoffInv'
<1>1. UNCHANGED <<now, alerts, runs, holder, issues, failures, happenings>>
  BY DEF issuesVars
<1>2. IssuesTypeOK /\ \A q \in Runs : InTime(q)
  BY DEF HandoffInv
<1>3. \A q \in Runs : InTime(q)'
  BY <1>1, <1>2 DEF InTime, Timely
<1>4. RowsKept /\ NothingFiled /\ IssuesSilent
  BY <1>1, RowsUnmoved, IssuesUnmoved
<1> QED BY <1>1, <1>2, <1>3, <1>4, WorldMoves DEF IssuesTypeOK

LEMMA HandoffStep ==
  ASSUME HandoffInv, [IssuesNext]_issuesVars PROVE HandoffInv'
<1>1. CASE \/ \E rule \in Rules, severity \in {"warning", "urgent"} : Open(rule, severity)
           \/ \E a \in DOMAIN alerts : Announce(a) \/ BecomesUrgent(a) \/ BecomesWarning(a) \/ Resolve(a)
           \/ \E n \in DOMAIN issues : Close(n)
           \/ TimePasses
  BY <1>1, WorldIsSound
<1>2. ASSUME NEW r \in Runs, Begin(r) \/ ClaimIssues(r) \/ ClaimRecoveries(r) \/ RunDies(r) PROVE HandoffInv'
  BY <1>2, BeginIsSound, ClaimIssuesIsSound, ClaimRecoveriesIsSound, RunDiesIsSound
<1>3. ASSUME NEW r \in Runs, NEW a \in DOMAIN alerts, Diagnose(r, a) PROVE HandoffInv'
  BY <1>3, DiagnoseIsSound
<1>4. ASSUME NEW r \in Runs, LockFault(r) \/ FindIssue(r) \/ OpenIssue(r) PROVE HandoffInv'
  BY <1>4, LockFaultIsSound, FindIssueIsSound, OpenIssueIsSound
<1>5. ASSUME NEW r \in Runs, ReadComments(r) \/ Reopen(r) \/ Comment(r) \/ Record(r) PROVE HandoffInv'
  BY <1>5, ReadCommentsIsSound, ReopenIsSound, CommentStepIsSound, RecordIsSound
<1>6. ASSUME NEW r \in Runs, ReadRecoveries(r) \/ SayRecovered(r) \/ MarkRecovered(r) PROVE HandoffInv'
  BY <1>6, ReadRecoveriesIsSound, SayRecoveredIsSound, MarkRecoveredIsSound
<1>7. CASE UNCHANGED issuesVars
  BY <1>7, StutterIsSound
<1> QED BY <1>1, <1>2, <1>3, <1>4, <1>5, <1>6, <1>7 DEF IssuesNext

(* An issue is opened by a run that has just looked for one.               *)
LEMMA OneIssueStep ==
  ASSUME HandoffInv, IssuesNext, Len(issues') > Len(issues)
  PROVE  LET new == Last(issues')
         IN  \A a \in new.names :
               /\ \A n \in DOMAIN issues : issues[n].rule = new.rule => issues[n].created < alerts[a].opened - MarkerLookback
               /\ \A p \in DOMAIN alerts : alerts[p].rule = new.rule /\ alerts[p].issue # None
                    => alerts[p].opened - alerts[a].opened \notin -RefireWindow..RefireWindow
<1>1. issues \in Seq(IssueRecords) /\ issues' \in Seq(IssueRecords)
  BY HandoffStep DEF HandoffInv, IssuesTypeOK
<1>2. DOMAIN issues' # DOMAIN issues
  <2>1. Len(issues) \in Nat /\ Len(issues') \in Nat /\ DOMAIN issues = 1..Len(issues) /\ DOMAIN issues' = 1..Len(issues')
    BY <1>1
  <2>2. Len(issues') \in DOMAIN issues' /\ Len(issues') \notin DOMAIN issues
    BY <2>1
  <2> QED BY <2>2
<1>3. PICK r \in Runs : OpenIssue(r)
  <2>1. \A n, comment : Says(n, comment) => DOMAIN issues' = DOMAIN issues
    BY DEF Says
  <2>2. \A r \in Runs : ~(LockFault(r) \/ FindIssue(r) \/ ReadComments(r) \/ Record(r) \/ ReadRecoveries(r) \/ MarkRecovered(r))
    BY <1>2 DEF LockFault, FindIssue, ReadComments, Record, ReadRecoveries, MarkRecovered
  <2>3. \A r \in Runs : ~(Begin(r) \/ ClaimIssues(r) \/ ClaimRecoveries(r) \/ RunDies(r) \/ \E a \in DOMAIN alerts : Diagnose(r, a))
    BY <1>2 DEF Begin, ClaimIssues, ClaimRecoveries, RunDies, Diagnose
  <2>4. \A r \in Runs : ~(Reopen(r) \/ Comment(r) \/ SayRecovered(r))
    BY <1>2, <2>1 DEF Reopen, Comment, SayRecovered
  <2>5. ~(\/ \E rule \in Rules, severity \in {"warning", "urgent"} : Open(rule, severity)
          \/ \E a \in DOMAIN alerts : Announce(a) \/ BecomesUrgent(a) \/ BecomesWarning(a) \/ Resolve(a)
          \/ \E n \in DOMAIN issues : Close(n)
          \/ TimePasses)
    BY <1>2 DEF Open, Announce, BecomesUrgent, BecomesWarning, Resolve, Close, TimePasses
  <2> QED BY <2>2, <2>3, <2>4, <2>5 DEF IssuesNext
<1>4. issues' = Append(issues, RigAlertIssue(r)) /\ At(r, "opening")
  BY <1>2, <1>3 DEF OpenIssue
<1>5. PICK new : new = RigAlertIssue(r) /\ Last(issues') = new /\ new.names = runs[r].ids /\ new.rule = runs[r].rule
  <2> DEFINE new == RigAlertIssue(r)
  <2>1. new.names = runs[r].ids /\ new.rule = runs[r].rule
    BY DEF RigAlertIssue
  <2>2. new \in IssueRecords
    <3>1. runs[r].rule \in Rules /\ runs[r].ids \in SUBSET Nat /\ now \in Nat
      BY <1>4, FilingRuns, HandoffTypes DEF HandoffInv, IssuesTypeOK, Filing, At
    <3> QED BY <3>1 DEF RigAlertIssue, IssueRecords
  <2>3. issues' = Append(issues, new)
    BY <1>4
  <2> HIDE DEF new
  <2>4. Len(issues') = Len(issues) + 1 /\ issues'[Len(issues) + 1] = new
    BY <1>1, <2>2, <2>3
  <2>5. Last(issues') = new
    BY <2>4 DEF Last
  <2> QED BY <2>1, <2>5 DEF new
<1>6. NoneSince(r) /\ Clear(r)
  BY <1>4 DEF HandoffInv, FilingSound, Filing, At
<1> QED BY <1>5, <1>6 DEF NoneSince, Clear, OfRule

(* The rows, the runs, GitHub and the locks keep their shape.              *)
THEOREM HandoffTypesHold == IssuesSpec => []IssuesTypeOK
<1>1. HandoffInv => IssuesTypeOK
  BY DEF HandoffInv
<1>2. HandoffInv /\ [IssuesNext]_issuesVars => HandoffInv'
  BY HandoffStep
<1> QED BY HandoffInit, <1>1, <1>2, PTL DEF IssuesSpec

(* What a run claimed is its own while its claim lasts, the alerts of a    *)
(* rule are filed by one run at a time, and what it found of them is  *)
(* still so when it acts on it.                                            *)
THEOREM HandoffIsSound == IssuesSpec => []HandoffInv
<1>1. HandoffInv /\ [IssuesNext]_issuesVars => HandoffInv'
  BY HandoffStep
<1> QED BY HandoffInit, <1>1, PTL DEF IssuesSpec

(* An issue names an alert once, and says twice that it recovered only     *)
(* when a run was slow to, however many runs file at once and whatever of  *)
(* their calls is lost.                                                    *)
THEOREM AnIssueNamesAnAlertOnce == IssuesSpec => []NamedOnce
<1>1. HandoffInv => NamedOnce
  BY DEF HandoffInv
<1> QED BY <1>1, HandoffIsSound, PTL

(* "Everything on this issue has recovered" stays true of all the alerts   *)
(* that could have joined it when that was decided on.                     *)
THEOREM RecoveryIsTheLastWord == IssuesSpec => []NothingJoinsAfterRecovery
<1>1. HandoffInv => NothingJoinsAfterRecovery
  BY DEF HandoffInv
<1> QED BY <1>1, HandoffIsSound, PTL

(* An issue is opened only when none stands for the fault, on GitHub or in *)
(* the table.                                                              *)
THEOREM OneFaultOneIssue == IssuesSpec => OneIssueToAFault
<1> DEFINE A == Len(issues') > Len(issues) =>
                  LET new == Last(issues')
                  IN  \A a \in new.names :
                        /\ \A n \in DOMAIN issues : issues[n].rule = new.rule => issues[n].created < alerts[a].opened - MarkerLookback
                        /\ \A p \in DOMAIN alerts : alerts[p].rule = new.rule /\ alerts[p].issue # None
                             => alerts[p].opened - alerts[a].opened \notin -RefireWindow..RefireWindow
<1>1. HandoffInv /\ [IssuesNext]_issuesVars => [A]_issuesVars
  BY OneIssueStep
<1> QED BY <1>1, HandoffIsSound, PTL DEF IssuesSpec, OneIssueToAFault

=============================================================================
