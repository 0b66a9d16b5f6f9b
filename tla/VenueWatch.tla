----------------------------- MODULE VenueWatch ------------------------------
(***************************************************************************)
(* The venue under the monitor: rigs that fall silent alone or together,   *)
(* the TV boards and the staff override that put the venue in event mode   *)
(* (api/tv/heartbeat, api/staff/event-mode), and the evaluations that      *)
(* judge both and claim what the channel is told of it (run.ts, store.ts). *)
(*                                                                         *)
(* A minute passes at any step, bringing the heartbeats of some rigs and   *)
(* one evaluation.  The line about a flip of event mode goes out after the *)
(* evaluation commits: a slow run is still posting while later ones        *)
(* evaluate, and a post that fails is put back.                            *)
(***************************************************************************)
EXTENDS Watch

CONSTANTS
  Rigs,                \* the rigs
  Pages,               \* the event board's pages, each a board of its own
  RunFor,              \* how long a run can last before the platform stops it
  Midnight,            \* when the venue day ends, and an override with it
  MaxHappenings        \* bounds the goodbyes, check-ins and overrides there are

(* An alert about a rig that was heard again resolves before that rig can  *)
(* have been silent for long enough to be reported once more; a board that *)
(* was never heard has no row.                                             *)
ASSUME VenueWatchAssumption ==
  /\ IsFiniteSet(Rigs)
  /\ {RunFor, Midnight, MaxHappenings, MaxTime} \subseteq Nat
  /\ ResolveAfterAbsent \in Nat \ {0}
  /\ ResolveAfterAbsent <= SilentAfter + 1
  /\ None \notin [seen : Nat, closed : Nat \cup {None}]

VARIABLES
  heard,     \* when each rig was heard
  closed,    \* the rigs whose last heartbeat was a goodbye
  seated,    \* the rigs with an open assignment
  boards,    \* board_heartbeats: page -> its row, or None
  override,  \* the staff override, or None
  mode,      \* monitor_state's event_mode and event_mode_changed_at
  flips,     \* the flips claimed and not yet posted
  told,      \* the newest flip the channel was told of, or None
  happened   \* goodbyes, check-ins and overrides so far

vars == <<now, heard, closed, seated, boards, override, mode, flips, told, alerts, happened>>

rigVars  == <<heard, closed>>
modeVars == <<mode, flips, told>>

Init ==
  /\ now = 0
  /\ heard = [r \in Rigs |-> {0}]
  /\ closed = {}
  /\ seated = {}
  /\ boards = [p \in Pages |-> None]
  /\ override = None
  /\ mode = [on |-> FALSE, at |-> None]
  /\ flips = {}
  /\ told = None
  /\ alerts = {}
  /\ happened = 0
-----------------------------------------------------------------------------
(* The boards and the staff.                                               *)

(* POST /api/tv/heartbeat: a goodbye is final for its board, and may come  *)
(* before a heartbeat that was on its way when the page closed.            *)
ClosedAt(row, closing) ==
  IF row # None /\ row.closed # None THEN row.closed ELSE IF closing THEN now ELSE None

BoardHeard(p, closing) ==
  /\ boards[p] # None => boards[p].closed \in {None, now}
  /\ boards' = [boards EXCEPT ![p] = [seen |-> now, closed |-> ClosedAt(@, closing)]]
  /\ UNCHANGED <<now, rigVars, seated, override, modeVars, alerts, happened>>

(* POST /api/staff/event-mode: until venue midnight, or back to the boards.*)
SetOverride(choice) ==
  /\ choice = "auto" => override # None
  /\ happened < MaxHappenings
  /\ happened' = happened + 1
  /\ override' = IF choice = "auto" THEN None ELSE [mode |-> choice, until |-> Midnight]
  /\ UNCHANGED <<now, rigVars, seated, boards, modeVars, alerts>>

SitDown(r) ==
  /\ r \notin seated
  /\ happened < MaxHappenings
  /\ happened' = happened + 1
  /\ seated' = seated \cup {r}
  /\ UNCHANGED <<now, rigVars, boards, override, modeVars, alerts>>

StandUp(r) ==
  /\ r \in seated
  /\ seated' = seated \ {r}
  /\ UNCHANGED <<now, rigVars, boards, override, modeVars, alerts, happened>>
-----------------------------------------------------------------------------
(* The evaluation.                                                         *)

(* loadSnapshot.                                                           *)
Heartbeat(r, times, byes) ==
  [at |-> Max(times[r]), sent |-> Max(times[r]), run |-> 1, started |-> 0, seq |-> Max(times[r]),
   version |-> "current", sim |-> "idle", fault |-> FALSE, age |-> None, parked |-> 0,
   unsaved |-> FALSE, refusals |-> {}, missing |-> FALSE, cpu |-> FALSE, memory |-> FALSE,
   bye |-> r \in byes]

Snapshot(t, times, byes) ==
  [now |-> t, dayStart |-> IF t >= Midnight THEN Midnight ELSE 0,
   rigs |-> [r \in Rigs |-> [seen |-> Max(times[r]), seat |-> IF r \in seated THEN t ELSE None,
                             beats |-> <<Heartbeat(r, times, byes)>>, heard |-> HeardRunsOf(times[r])]],
   combo |-> "featured", laps |-> <<>>, bests |-> {}, moves |-> {}, override |-> override,
   since |-> IF mode.on THEN mode.at ELSE None,
   boards |-> {[id |-> p, mode |-> "event", seen |-> boards[p].seen, closed |-> boards[p].closed,
                failures |-> 0] : p \in {q \in Pages : boards[q] # None}},
   open |-> {<<a.rule, a.subject>> : a \in alerts}, version |-> "current"]

(* claimEventModeFlip: the mode differs from the stored one.               *)
ClaimFlip(t, on) ==
  IF on = mode.on
  THEN mode' = mode /\ flips' = flips
  ELSE /\ mode' = [on |-> on, at |-> t]
       /\ flips' = flips \cup {[on |-> on, at |-> t, prior |-> mode.at]}

(* A minute: the rigs in beating are heard, those in leaving say goodbye,  *)
(* and runMonitor judges the venue.                                        *)
Judged(snapshot) ==
  /\ alerts' = Applied(EvaluateRules(snapshot))
  /\ ClaimFlip(snapshot.now, EventMode(snapshot).on)

Minute(beating, leaving) ==
  /\ now < MaxTime
  /\ \A flip \in flips : now < flip.at + RunFor
  /\ happened + Cardinality(leaving) <= MaxHappenings
  /\ happened' = happened + Cardinality(leaving)
  /\ now' = now + 1
  /\ heard' = [r \in Rigs |-> IF r \in beating THEN heard[r] \cup {now + 1} ELSE heard[r]]
  /\ closed' = (closed \ beating) \cup leaving
  /\ \E snapshot \in {Snapshot(now + 1, heard', closed')} : Judged(snapshot)
  /\ UNCHANGED <<seated, boards, override, told>>

(* announceEventMode: posted, or put back, the flag and when it changed.   *)
PostFlip(flip) ==
  /\ flips' = flips \ {flip}
  /\ told' = IF told # None /\ told.at > flip.at THEN told ELSE [on |-> flip.on, at |-> flip.at]
  /\ UNCHANGED <<now, rigVars, seated, boards, override, mode, alerts, happened>>

ReleasedAnyway(flip) == [on |-> ~flip.on, at |-> flip.prior]

Released(flip) ==
  IF mode = [on |-> flip.on, at |-> flip.at] THEN [on |-> ~flip.on, at |-> flip.prior] ELSE mode

FailFlip(flip) ==
  /\ flips' = flips \ {flip}
  /\ mode' = Released(flip)
  /\ UNCHANGED <<now, rigVars, seated, boards, override, told, alerts, happened>>
-----------------------------------------------------------------------------
Next ==
  \/ \E beating \in SUBSET Rigs : \E leaving \in SUBSET beating : Minute(beating, leaving)
  \/ \E p \in Pages, closing \in BOOLEAN : BoardHeard(p, closing)
  \/ \E choice \in {"on", "off", "auto"} : SetOverride(choice)
  \/ \E r \in Rigs : SitDown(r) \/ StandUp(r)
  \/ \E flip \in flips : PostFlip(flip) \/ FailFlip(flip)

Spec == Init /\ [][Next]_vars
-----------------------------------------------------------------------------
Alerted(open, rule, subject) == \E a \in open : a.rule = rule /\ a.subject = subject

(* Open, and found by the latest evaluation.                               *)
Found(open, rule, subject) == \E a \in open : a.rule = rule /\ a.subject = subject /\ a.absent = 0

LastWord(r) == Max(heard[r])

LastRun(times) == CHOOSE run \in HeardRunsOf(times) : run.to = Max(times)

OnTogether(a, b) == LastRun(heard[a]).from <= LastWord(b) /\ LastRun(heard[b]).from <= LastWord(a)

(* Silent rigs that were on at once and fell silent at once.               *)
WentDarkTogether ==
  /\ Cardinality(Rigs) >= 2
  /\ \A r \in Rigs : now - LastWord(r) \in (SilentAfter + 1)..SilentLookback
  /\ \A a, b \in Rigs : OnTogether(a, b) /\ LastWord(a) - LastWord(b) < CorrelationWindow

(* A rig reported silent is found silent by every evaluation until it is   *)
(* heard or says goodbye, and the venue's note stands until a rig is       *)
(* heard, whoever sits down, leaves, or turns event mode on or off         *)
(* meanwhile: no absence is counted before (rules.ts, held).               *)
SilenceIsNotForgotten ==
  [][/\ \A r \in Rigs :
          Found(alerts, "rig_silent", Rig(r)) /\ ~Found(alerts', "rig_silent", Rig(r))
          => heard'[r] # heard[r]
     /\ Found(alerts, "venue_silent", Venue) /\ ~Found(alerts', "venue_silent", Venue)
        => \E r \in Rigs : now' - Max(heard'[r]) <= SilentAfter]_vars

(* Rigs that were last on together and went quiet together, with nobody    *)
(* seated and no event, leave the venue's note and not a warning each.     *)
VenueGoesDarkQuietly ==
  (happened = 0 /\ (\A p \in Pages : boards[p] = None) /\ WentDarkTogether)
  => /\ Alerted(alerts, "venue_silent", Venue)
     /\ \A r \in Rigs : ~Alerted(alerts, "rig_silent", Rig(r))

(* A run whose post failed puts back only the latest flip claimed: it      *)
(* never undoes one that another evaluation claimed since.                 *)
NewerFlipStands ==
  [][mode' # mode /\ now' = now
     => \E flip \in flips \ flips' : \A newer \in flips' \cup ({told'} \ {None}) : newer.at < flip.at]_vars
=============================================================================
