-------------------------------- MODULE Issues --------------------------------
(***************************************************************************)
(* What becomes of an urgent alert once it was announced: the call to a    *)
(* model that diagnoses it, and the issue filed for it on GitHub (run.ts   *)
(* from runDiagnoses on, the claims of store.ts, github.ts, handoff.ts).   *)
(*                                                                         *)
(* Runs of the stage overlap, each claiming what is due.  A call of GitHub *)
(* can be refused, or be served without an answer in time; a run can die   *)
(* between any two steps, and its transaction with it.  A call is served   *)
(* when it is made or not at all.                                          *)
(*                                                                         *)
(* The two Discord messages of a diagnosis (postDiagnosis and its retries) *)
(* are left out: nothing here depends on them.  So are labels,             *)
(* the text of issues and comments but for the marker that ends them, and  *)
(* writes of others, whose markers are not trusted.                        *)
(***************************************************************************)
EXTENDS MonitorRuns, Integers, Sequences, FiniteSets, FiniteSetsExt, SequencesExt

CONSTANTS
  Rules,                  \* the rules
  SoftwareRules,          \* SOFTWARE_RULES
  DiagnosisStale,         \* DIAGNOSIS_STALE
  DiagnosisAttempts,      \* DIAGNOSIS_ATTEMPTS
  DiagnosesPerEvaluation, \* DIAGNOSES_PER_EVALUATION
  RefireWindow,           \* REFIRE_WINDOW
  MarkerLookback,         \* MARKER_LOOKBACK_MS
  DiagnosesFor,           \* how long a run can be at the diagnoses it claimed
  MaxHappenings           \* bounds issues closed and severities moved

ASSUME IssuesAssumption ==
  /\ SoftwareRules \subseteq Rules
  /\ {RetryAfter, RetryFor, DiagnosisStale, DiagnosisAttempts, DiagnosesPerEvaluation, RefireWindow,
      MarkerLookback, DiagnosesFor, MaxAlerts, MaxFailures, MaxHappenings, MaxTime} \subseteq Nat
  /\ DiagnosesFor < DiagnosisStale
  /\ None \notin Nat \cup Runs

VARIABLES
  holder,    \* the run that holds each rule's advisory lock, or None
  issues,    \* GitHub: the issues the monitor filed, with its comments
  happenings \* issues closed and severities moved

issuesVars == <<now, alerts, runs, holder, issues, failures, happenings>>
-----------------------------------------------------------------------------
(* The row of an alert: its diagnosis (status, attempts, at, software),    *)
(* then when its filing was claimed and its issue, when its recovery was   *)
(* claimed and whether it was said.                                        *)
Times == Nat \cup {None}

AlertRecords ==
  [rule : Rules, severity : {"warning", "urgent"}, opened : Nat, notified : Times, resolved : Times,
   status : {"none", "pending", "retry", "done"}, attempts : Nat, at : Times, software : BOOLEAN,
   filing : Times, issue : Times, saying : Times, said : BOOLEAN]

Comments ==
  [kind : {"refire", "recovery"}, names : SUBSET Nat, knew : SUBSET Nat, slow : BOOLEAN]

IssueRecords ==
  [rule : Rules, names : SUBSET Nat, created : Nat, open : BOOLEAN, comments : Seq(Comments)]

(* A run: what it claimed and has still to do; while it files the alerts   *)
(* of a rule, those of them that are unfiled, the issue they go to, and    *)
(* whom that one was opened for; and whom its next comment will name.      *)
Filing    == {"looking", "opening", "reading", "reopening", "commenting", "recording"}
Recovered == {"recovering", "saying", "marking"}

RunRecords ==
  [stage : {"idle", "diagnosing", "filing"} \cup Filing \cup Recovered, begun : Nat, todo : SUBSET Nat,
   rule : Rules \cup {None}, ids : SUBSET Nat, number : Times, found : SUBSET Nat,
   naming : SUBSET Nat, knew : SUBSET Nat]

Ended == [stage |-> "idle", begun |-> 0, todo |-> {}, rule |-> None, ids |-> {}, number |-> None,
          found |-> {}, naming |-> {}, knew |-> {}]

IssuesTypeOK ==
  /\ now \in Nat
  /\ alerts \in Seq(AlertRecords)
  /\ runs \in [Runs -> RunRecords]
  /\ holder \in [Rules -> Runs \cup {None}]
  /\ issues \in Seq(IssueRecords)
  /\ failures \in Nat
  /\ happenings \in Nat

IssuesInit ==
  /\ now = 0
  /\ alerts = <<>>
  /\ runs = [r \in Runs |-> Ended]
  /\ holder = [rule \in Rules |-> None]
  /\ issues = <<>>
  /\ failures = 0
  /\ happenings = 0
-----------------------------------------------------------------------------
(* The alerts, as Alerts models them: opened, announced now or later, and  *)
(* resolved.                                                               *)
Open(rule, severity) ==
  /\ Len(alerts) < MaxAlerts
  /\ alerts' = Append(alerts, [rule |-> rule, severity |-> severity, opened |-> now,
                               notified |-> None, resolved |-> None, status |-> "none",
                               attempts |-> 0, at |-> None, software |-> FALSE, filing |-> None, issue |-> None,
                               saying |-> None, said |-> FALSE])
  /\ UNCHANGED <<now, runs, holder, issues, failures, happenings>>

Announce(a) ==
  /\ alerts[a].notified = None
  /\ alerts' = [alerts EXCEPT ![a].notified = now]
  /\ UNCHANGED <<now, runs, holder, issues, failures, happenings>>

Resolve(a) ==
  /\ alerts[a].resolved = None
  /\ alerts' = [alerts EXCEPT ![a].resolved = now]
  /\ UNCHANGED <<now, runs, holder, issues, failures, happenings>>

Happens == happenings < MaxHappenings /\ happenings' = happenings + 1

(* moveSeverity, while the alert is open.  A rise is announced anew, but in *)
(* a mute.                                                                 *)
BecomesUrgent(a) ==
  /\ alerts[a].resolved = None /\ alerts[a].severity = "warning"
  /\ \E notified \in {None, alerts[a].notified} :
       alerts' = [alerts EXCEPT ![a].severity = "urgent", ![a].notified = notified]
  /\ Happens
  /\ UNCHANGED <<now, runs, holder, issues, failures>>

BecomesWarning(a) ==
  /\ alerts[a].resolved = None /\ alerts[a].severity = "urgent"
  /\ alerts' = [alerts EXCEPT ![a].severity = "warning"]
  /\ Happens
  /\ UNCHANGED <<now, runs, holder, issues, failures>>

(* The owner closes an issue.                                              *)
Close(n) ==
  /\ issues[n].open
  /\ issues' = [issues EXCEPT ![n].open = FALSE]
  /\ Happens
  /\ UNCHANGED <<now, alerts, runs, holder, failures>>
-----------------------------------------------------------------------------
At(r, stage)   == runs[r].stage = stage
Becomes(r, to) == runs' = [runs EXCEPT ![r] = to]

Older(t, interval)  == t = None \/ t < now - interval
Within(t, interval) == t # None /\ t > now - interval
Recent(a)           == Within(a.opened, RetryFor)
Urgent(a)           == a.severity = "urgent"

(* A run that did part of what it claimed, and ends with the last.         *)
Left(r, rest) == IF rest = {} THEN Ended ELSE [runs[r] EXCEPT !.todo = rest]

CallFails == failures < MaxFailures /\ failures' = failures + 1
-----------------------------------------------------------------------------
(* A run claims diagnoses, then filings, then recoveries, and does what it *)
(* claimed.  A claim that finds nothing is no step: runs overlap, and each *)
(* takes its time between two claims, so here the claims come in any order. *)
(*                                                                         *)
(* The diagnoses.  claimDiagnoses: urgent, announced lately, open and never *)
(* diagnosed, due its retry, or claimed by a call that went quiet.         *)
DueForDiagnosis(a) ==
  /\ Urgent(a) /\ Within(a.notified, RetryFor)
  /\ a.resolved = None
  /\ \/ a.status = "none"
     \/ a.status = "retry" /\ Older(a.at, RetryAfter)
     \/ a.status = "pending" /\ Older(a.at, DiagnosisStale)

LowestOf(ids, n) == {a \in ids : Cardinality({b \in ids : b < a}) < n}

Begin(r) ==
  LET due == LowestOf({a \in DOMAIN alerts : DueForDiagnosis(alerts[a])}, DiagnosesPerEvaluation)
  IN  /\ At(r, "idle") /\ due # {}
      /\ Becomes(r, [Ended EXCEPT !.stage = "diagnosing", !.begun = now, !.todo = due])
      /\ alerts' = [a \in DOMAIN alerts |->
                      IF a \notin due THEN alerts[a]
                      ELSE [alerts[a] EXCEPT !.status = "pending", !.at = now, !.attempts = @ + 1]]
      /\ UNCHANGED <<now, holder, issues, failures, happenings>>

(* diagnoseAlert: past the attempts the call is not made; a failure leaves *)
(* a retry, and the last one a handoff without the model's lines.          *)
Saves(r, a, status, software) ==
  /\ alerts' = [alerts EXCEPT ![a].status = status, ![a].at = now, ![a].software = software]
  /\ Becomes(r, Left(r, runs[r].todo \ {a}))

Diagnose(r, a) ==
  /\ At(r, "diagnosing") /\ a \in runs[r].todo
  /\ \/ /\ \E software \in IF alerts[a].rule \in SoftwareRules \/ alerts[a].attempts > DiagnosisAttempts
                           THEN {FALSE} ELSE BOOLEAN : Saves(r, a, "done", software)
        /\ UNCHANGED failures
     \/ /\ alerts[a].attempts <= DiagnosisAttempts
        /\ CallFails
        /\ Saves(r, a, IF alerts[a].attempts < DiagnosisAttempts THEN "retry" ELSE "done", FALSE)
  /\ UNCHANGED <<now, holder, issues, happenings>>
-----------------------------------------------------------------------------
(* The issues.  claimIssues.                                               *)
OfSoftware(a) == a.rule \in SoftwareRules \/ a.software

DueForIssue(a) ==
  /\ Urgent(a) /\ a.status = "done" /\ a.issue = None /\ OfSoftware(a)
  /\ Older(a.filing, RetryAfter)
  /\ Recent(a)

ClaimIssues(r) ==
  LET due == {a \in DOMAIN alerts : DueForIssue(alerts[a])}
  IN  /\ At(r, "idle") /\ due # {}
      /\ Becomes(r, [Ended EXCEPT !.stage = "filing", !.todo = due])
      /\ alerts' = [a \in DOMAIN alerts |->
                      IF a \in due THEN [alerts[a] EXCEPT !.filing = now] ELSE alerts[a]]
      /\ UNCHANGED <<now, holder, issues, failures, happenings>>

(* refireTarget: the issue of the last other alert of the rule opened      *)
(* within a day of one of these.                                           *)
RefireTarget(rule, ids) ==
  LET near == {p \in DOMAIN alerts \ ids :
                 /\ alerts[p].rule = rule /\ alerts[p].issue # None
                 /\ \E a \in ids : alerts[p].opened - alerts[a].opened \in -RefireWindow..RefireWindow}
  IN  IF near = {} THEN None ELSE alerts[Max(near)].issue

(* fileIssue, the alerts of one rule: under the rule's lock, or not now.   *)
LocksNothing(r, rule) == TRUE
LockIsFree(r, rule)   == holder[rule] = None

GroupOf(r) ==
  {a \in runs[r].todo : alerts[a].rule = alerts[Min(runs[r].todo)].rule}

LockFault(r) ==
  LET group == GroupOf(r)
      rule  == alerts[Min(group)].rule
      ids   == {a \in group : alerts[a].issue = None}
      target == RefireTarget(rule, ids)
  IN  /\ At(r, "filing") /\ runs[r].todo # {}
      /\ IF ~LockIsFree(r, rule) \/ ids = {}
         THEN /\ Becomes(r, Left(r, runs[r].todo \ group))
              /\ UNCHANGED holder
         ELSE /\ holder' = [holder EXCEPT ![rule] = r]
              /\ Becomes(r, [runs[r] EXCEPT !.stage = IF target = None THEN "looking" ELSE "reading",
                                          !.todo = @ \ group, !.rule = rule, !.ids = ids,
                                          !.number = target, !.found = {}])
      /\ UNCHANGED <<now, alerts, issues, failures, happenings>>

(* The transaction ends: what it recorded commits, and the lock is free.   *)
Files(r, ids) ==
  /\ alerts' = [a \in DOMAIN alerts |->
                  IF a \in ids /\ alerts[a].issue = None THEN [alerts[a] EXCEPT !.issue = runs[r].number]
                  ELSE alerts[a]]
  /\ holder' = [holder EXCEPT ![runs[r].rule] = None]
  /\ Becomes(r, IF runs[r].todo = {} THEN Ended ELSE [Ended EXCEPT !.stage = "filing", !.todo = runs[r].todo])

(* A call failed: the alerts the found issue was opened for stay recorded. *)
GivesUp(r) == CallFails /\ Files(r, runs[r].found)

(* findIssueWithMarker, for the alerts' rule, the newest first.            *)
NewestMatch(rule, since) ==
  LET matches == {n \in DOMAIN issues : issues[n].rule = rule /\ issues[n].created >= since}
  IN  IF matches = {} THEN None ELSE Max(matches)

FindIssue(r) ==
  LET since == Min({alerts[a].opened : a \in runs[r].ids}) - MarkerLookback
      n == NewestMatch(runs[r].rule, since)
  IN  /\ At(r, "looking")
      /\ \/ GivesUp(r)
         \/ /\ Becomes(r, IF n = None THEN [runs[r] EXCEPT !.stage = "opening"]
                          ELSE [runs[r] EXCEPT !.stage = "reading", !.number = n, !.found = issues[n].names])
            /\ UNCHANGED <<alerts, holder, failures>>
      /\ UNCHANGED <<now, issues, happenings>>

(* rigAlertIssue: its marker names the rule and the alerts.                *)
RigAlertIssue(r) ==
  [rule |-> runs[r].rule, names |-> runs[r].ids, created |-> now, open |-> TRUE, comments |-> <<>>]

(* openIssue, refused, taken without an answer, or answered.               *)
OpenIssue(r) ==
  /\ At(r, "opening")
  /\ \/ GivesUp(r) /\ UNCHANGED issues
     \/ /\ issues' = Append(issues, RigAlertIssue(r))
        /\ \/ GivesUp(r)
           \/ /\ Becomes(r, [runs[r] EXCEPT !.stage = "recording", !.number = Len(issues) + 1])
              /\ UNCHANGED <<alerts, holder, failures>>
  /\ UNCHANGED <<now, happenings>>

(* commentMarkers, markedAlerts: whom the comments of the kind name        *)
(* already.                                                                *)
ReadsNothing(n, kind) == {}

CommentsOf(n, kind) == {i \in DOMAIN issues[n].comments : issues[n].comments[i].kind = kind}

Named(n, kind) == UNION {issues[n].comments[i].names : i \in CommentsOf(n, kind)}

ReadComments(r) ==
  LET joining == runs[r].ids \ (runs[r].found \cup Named(runs[r].number, "refire"))
  IN  /\ At(r, "reading")
      /\ \/ GivesUp(r)
         \/ /\ Becomes(r, IF joining = {} THEN [runs[r] EXCEPT !.stage = "recording"]
                          ELSE [runs[r] EXCEPT !.stage = "reopening", !.naming = joining])
            /\ UNCHANGED <<alerts, holder, failures>>
      /\ UNCHANGED <<now, issues, happenings>>

Reopen(r) ==
  /\ At(r, "reopening")
  /\ \/ GivesUp(r) /\ UNCHANGED issues
     \/ /\ issues' = [issues EXCEPT ![runs[r].number].open = TRUE]
        /\ \/ ~issues[runs[r].number].open /\ GivesUp(r)
           \/ /\ Becomes(r, [runs[r] EXCEPT !.stage = "commenting"])
              /\ UNCHANGED <<alerts, holder, failures>>
  /\ UNCHANGED <<now, happenings>>

Says(n, comment) == issues' = [issues EXCEPT ![n].comments = Append(@, comment)]

RefireComment(r) == [kind |-> "refire", names |-> runs[r].naming, knew |-> {}, slow |-> FALSE]

Comment(r) ==
  /\ At(r, "commenting")
  /\ \/ GivesUp(r) /\ UNCHANGED issues
     \/ /\ Says(runs[r].number, RefireComment(r))
        /\ \/ GivesUp(r)
           \/ /\ Becomes(r, [runs[r] EXCEPT !.stage = "recording"])
              /\ UNCHANGED <<alerts, holder, failures>>
  /\ UNCHANGED <<now, happenings>>

Record(r) ==
  /\ At(r, "recording")
  /\ Files(r, runs[r].ids \cup runs[r].found)
  /\ UNCHANGED <<now, issues, failures, happenings>>
-----------------------------------------------------------------------------
(* The recoveries.  claimIssueRecoveries: every alert on the issue has     *)
(* recovered, and no alert of its rule is still to be filed.               *)
On(n) == {a \in DOMAIN alerts : alerts[a].issue = n}

OnlyTheOpen(o) ==
  /\ o.issue = None /\ Urgent(o) /\ Recent(o)
  /\ OfSoftware(o) \/ o.status # "done"
  /\ o.resolved = None

StillToFile(o) ==
  /\ o.issue = None /\ Urgent(o) /\ Recent(o)
  /\ OfSoftware(o) \/ o.status # "done"
  /\ \/ o.resolved = None
     \/ o.status = "done"
     \/ o.status = "pending" /\ Within(o.at, DiagnosisStale)

DueForRecovery(a) ==
  LET n == alerts[a].issue
  IN  /\ n # None
      /\ \A b \in On(n) : alerts[b].resolved # None
      /\ \E b \in On(n) : ~alerts[b].said /\ alerts[b].resolved > now - RetryFor
      /\ ~alerts[a].said
      /\ Older(alerts[a].saying, RetryAfter)
      /\ \A o \in DOMAIN alerts : alerts[o].rule = alerts[a].rule => ~StillToFile(alerts[o])

ClaimRecoveries(r) ==
  LET due == {a \in DOMAIN alerts : DueForRecovery(a)}
  IN  /\ At(r, "idle") /\ due # {}
      /\ Becomes(r, [Ended EXCEPT !.stage = "recovering", !.begun = now, !.todo = due,
                                  !.knew = {a \in DOMAIN alerts : Urgent(alerts[a]) /\ Recent(alerts[a])}])
      /\ alerts' = [a \in DOMAIN alerts |->
                      IF a \in due THEN [alerts[a] EXCEPT !.saying = now] ELSE alerts[a]]
      /\ UNCHANGED <<now, holder, issues, failures, happenings>>

(* commentRecovery, issue by issue.  knew and slow are history: the alerts *)
(* that were urgent and within their time when the comment was decided on, *)
(* and whether it was written more than RETRY_AFTER later.                 *)
OfIssue(r) == {a \in runs[r].todo : alerts[a].issue = alerts[Min(runs[r].todo)].issue}

(* The run turns to the next issue, and ends with the last.                *)
TurnsFrom(r, done) ==
  Becomes(r, IF runs[r].todo = done THEN Ended
             ELSE [runs[r] EXCEPT !.stage = "recovering", !.todo = @ \ done, !.naming = {}])

Gone(r) == CallFails /\ TurnsFrom(r, OfIssue(r))

IssueOf(r) == alerts[Min(OfIssue(r))].issue

ReadRecoveries(r) ==
  LET unsaid == OfIssue(r) \ Named(IssueOf(r), "recovery")
  IN  /\ At(r, "recovering")
      /\ \/ Gone(r)
         \/ /\ Becomes(r, [runs[r] EXCEPT !.stage = IF unsaid = {} THEN "marking" ELSE "saying",
                                           !.naming = unsaid])
            /\ UNCHANGED failures
      /\ UNCHANGED <<now, alerts, holder, issues, happenings>>

RecoveryComment(r) ==
  [kind |-> "recovery", names |-> runs[r].naming, knew |-> runs[r].knew,
   slow |-> now - runs[r].begun > RetryAfter]

SayRecovered(r) ==
  /\ At(r, "saying")
  /\ \/ Gone(r) /\ UNCHANGED issues
     \/ /\ Says(IssueOf(r), RecoveryComment(r))
        /\ \/ Gone(r)
           \/ /\ Becomes(r, [runs[r] EXCEPT !.stage = "marking", !.naming = {}])
              /\ UNCHANGED failures
  /\ UNCHANGED <<now, alerts, holder, happenings>>

MarkRecovered(r) ==
  LET a == Min(runs[r].todo)
  IN  /\ At(r, "marking")
      /\ alerts' = [alerts EXCEPT ![a].said = TRUE]
      /\ IF OfIssue(r) = {a} THEN TurnsFrom(r, {a})
         ELSE Becomes(r, [runs[r] EXCEPT !.todo = @ \ {a}])
      /\ UNCHANGED <<now, holder, issues, failures, happenings>>
-----------------------------------------------------------------------------
(* The process ends, or the database is lost.                              *)
RunDies(r) ==
  /\ ~At(r, "idle")
  /\ CallFails
  /\ Becomes(r, Ended)
  /\ holder' = [rule \in Rules |-> IF holder[rule] = r THEN None ELSE holder[rule]]
  /\ UNCHANGED <<now, alerts, issues, happenings>>

(* A run is done with the diagnoses it claimed while they are its own;     *)
(* nothing says how long it is filing, or at the recoveries.               *)
TimePasses ==
  /\ now < MaxTime
  /\ \A r \in Runs : At(r, "diagnosing") => now - runs[r].begun < DiagnosesFor
  /\ now' = now + 1
  /\ UNCHANGED <<alerts, runs, holder, issues, failures, happenings>>

IssuesNext ==
  \/ \E rule \in Rules, severity \in {"warning", "urgent"} : Open(rule, severity)
  \/ \E a \in DOMAIN alerts : Announce(a) \/ BecomesUrgent(a) \/ BecomesWarning(a) \/ Resolve(a)
  \/ \E n \in DOMAIN issues : Close(n)
  \/ \E r \in Runs :
       \/ Begin(r) \/ ClaimIssues(r) \/ ClaimRecoveries(r) \/ RunDies(r)
       \/ \E a \in DOMAIN alerts : Diagnose(r, a)
       \/ LockFault(r) \/ FindIssue(r) \/ OpenIssue(r)
       \/ ReadComments(r) \/ Reopen(r) \/ Comment(r) \/ Record(r)
       \/ ReadRecoveries(r) \/ SayRecovered(r) \/ MarkRecovered(r)
  \/ TimePasses

IssuesSpec == IssuesInit /\ [][IssuesNext]_issuesVars
-----------------------------------------------------------------------------
(* "One fault makes one issue however many rigs it hits": an issue is      *)
(* opened only for alerts near which no alert of their rule is on one, and *)
(* only if none was made for the rule since an hour before they opened,    *)
(* whoever files at once, dies, or never hears that its issue was made.    *)
OneIssueToAFault ==
  [][Len(issues') > Len(issues) =>
       LET new == Last(issues')
       IN  \A a \in new.names :
             /\ \A n \in DOMAIN issues : issues[n].rule = new.rule
                  => issues[n].created < alerts[a].opened - MarkerLookback
             /\ \A p \in DOMAIN alerts : alerts[p].rule = new.rule /\ alerts[p].issue # None
                  => alerts[p].opened - alerts[a].opened \notin -RefireWindow..RefireWindow]_issuesVars

(* An issue names an alert once, in the issue or in a comment that it      *)
(* joined: a write whose answer was lost is recorded, not repeated         *)
(* (handoff.ts rigAlertMarker).  That it recovered is said again only if a *)
(* run takes longer from the claim to its comment than RETRY_AFTER.        *)
NamedOnce ==
  \A n \in DOMAIN issues :
    LET says == issues[n].comments
    IN  \A i, j \in DOMAIN says :
          /\ i # j /\ says[i].kind = says[j].kind /\ says[i].names \cap says[j].names # {}
               => says[i].kind = "recovery" /\ (says[i].slow \/ says[j].slow)
          /\ says[i].kind = "refire" => says[i].names \cap issues[n].names = {}

(* "Everything on this issue has recovered" is the last word on the faults *)
(* there were: an alert that was urgent and could still be filed when the  *)
(* comment was decided on does not join the issue after it.                *)
NothingJoinsAfterRecovery ==
  \A n \in DOMAIN issues :
    LET says == issues[n].comments
    IN  \A i, j \in DOMAIN says :
          says[i].kind = "recovery" /\ says[j].kind = "refire" /\ i < j => says[j].names \cap says[i].knew = {}
=============================================================================
