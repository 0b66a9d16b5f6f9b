------------------------------ MODULE RigWatch -------------------------------
(***************************************************************************)
(* One rig under the monitor: the heartbeats of its agent's processes      *)
(* (AgentService.cs, Heartbeat.cs), the network that loses and delays      *)
(* them, their storage (api/agent/events), and the evaluations that judge  *)
(* what arrived (MonitorRules, store.ts).                                  *)
(*                                                                         *)
(* Time passes at any step.  The rig's clock is ClockOffset ahead of the   *)
(* site's.  A process may be killed at any step, closed with a goodbye, or *)
(* started while heartbeats of the one before are still on their way.      *)
(***************************************************************************)
EXTENDS Watch

CONSTANTS
  Reports,             \* what a heartbeat can say of the rig besides its own identity
  ClockOffset,         \* the rig's clock minus the site's
  History,             \* HISTORY
  BeforeLatest,        \* BEFORE_LATEST
  HeartbeatRateLimit,  \* HEARTBEAT_RATE_LIMIT
  HeartbeatRateWindow, \* HEARTBEAT_RATE_WINDOW
  MaxDelay,            \* how long a request can be on its way before it is lost
  MaxProcesses,        \* bounds the agent processes started
  MaxSends             \* bounds the heartbeats sent

(* What is stored of a heartbeat; at is None until it arrives.             *)
HeartbeatRow ==
  [run : Nat, seq : Nat, sent : Int, at : Nat \cup {None}, started : Int, version : STRING,
   age : Nat \cup {None}, refusals : SUBSET Nat, sim : STRING, fault : BOOLEAN, parked : Nat,
   bye : BOOLEAN, unsaved : BOOLEAN, missing : BOOLEAN, cpu : BOOLEAN, memory : BOOLEAN]

ASSUME RigWatchAssumption ==
  /\ ClockOffset \in Int
  /\ {History, BeforeLatest, HeartbeatRateLimit, HeartbeatRateWindow, MaxDelay,
      MaxProcesses, MaxSends, MaxTime} \subseteq Nat
  /\ ResolveAfterAbsent \in Nat \ {0}
  /\ MaxDelay <= BeforeLatest
  /\ Reports \subseteq [sim : STRING, fault : BOOLEAN, parked : Nat, unsaved : BOOLEAN, missing : BOOLEAN,
                        cpu : BOOLEAN, memory : BOOLEAN, version : STRING, failed : BOOLEAN]
  /\ None \notin HeartbeatRow

VARIABLES
  born,     \* when each process of the agent started, on the site's clock
  agent,    \* the latest process
  refused,  \* the refused sign-ins there were: [run, seq]
  sends,    \* how many heartbeats were sent
  wire,     \* the heartbeats on their way
  beats,    \* rig_heartbeats, as they arrived
  seen,     \* rigs.last_seen_at
  use       \* since when a driver is seated and a lap queued, or None

rigWatchVars == <<now, born, agent, refused, sends, wire, beats, seen, use, alerts>>
-----------------------------------------------------------------------------
(* The agent.  A process: phase, "up" until its goodbye begins and "gone"  *)
(* once its goodbye went; seq, its last sequence number; held, the         *)
(* heartbeat it last waited to have answered; unreported, the refused      *)
(* sign-ins it has still to report.  A process that was killed is one that *)
(* sends nothing more.                                                     *)
Fresh == [phase |-> "up", seq |-> 0, held |-> None, unreported |-> {}]

RigInit ==
  /\ now = 0
  /\ born = <<0>>
  /\ agent = Fresh
  /\ refused = {}
  /\ sends = 0
  /\ wire = {}
  /\ beats = <<>>
  /\ seen = None
  /\ use \in {None, 0}
  /\ alerts = {}

(* The process has ended, closed or killed, and another starts.            *)
Restart ==
  /\ Len(born) < MaxProcesses
  /\ born' = Append(born, now)
  /\ agent' = Fresh
  /\ UNCHANGED <<now, refused, sends, wire, beats, seen, use, alerts>>

(* BuildHeartbeat, with the sign-in refused since the last one, if there   *)
(* was.                                                                    *)
Report(report, bye) ==
  LET made == Cardinality({r \in refused : r.run = Len(born)})
  IN  [run |-> Len(born), seq |-> agent.seq + 1, sent |-> now + ClockOffset, at |-> None,
       started |-> Last(born) + ClockOffset, version |-> report.version,
       age |-> IF use = None THEN None ELSE now - use,
       refusals |-> agent.unreported \cup When(report.failed, made + 1),
       sim |-> report.sim, fault |-> report.fault, parked |-> report.parked, bye |-> bye,
       unsaved |-> report.unsaved, missing |-> report.missing, cpu |-> report.cpu, memory |-> report.memory]

(* One at a time, once the last one is answered or given up, cut short by  *)
(* a goodbye included: the loop's heartbeat; one the loop had begun when   *)
(* the goodbye did, which says goodbye too; and the goodbye.               *)
Sends(bye, phase) ==
  /\ sends < MaxSends
  /\ sends' = sends + 1
  /\ \E report \in Reports :
       LET h == Report(report, bye)
       IN  /\ wire' = wire \cup {h}
           /\ refused' = refused \cup {[run |-> h.run, seq |-> seq] : seq \in h.refusals}
           /\ agent' = [phase |-> phase, seq |-> h.seq, held |-> h, unreported |-> h.refusals]
  /\ UNCHANGED <<now, born, beats, seen, use, alerts>>

SendHeartbeat == agent.phase = "up" /\ Sends(FALSE, "up")
SendBegun     == agent.phase = "up" /\ Sends(TRUE, "closing")
SendGoodbye   == agent.phase # "gone" /\ Sends(TRUE, "gone")
-----------------------------------------------------------------------------
(* The site.                                                               *)

(* loadSnapshot: the heartbeats since the window's start, reaching back    *)
(* past the latest one, which are the last of them, as they are stored as  *)
(* they arrive; and the unbroken runs of all of them.                      *)
Since(stored, from) ==
  LET first == Min({i \in DOMAIN stored : stored[i].at >= from} \cup {Len(stored) + 1})
  IN  SubSeq(stored, first, Len(stored))

RecentBeats(t, stored) ==
  IF stored = <<>> THEN <<>> ELSE Since(stored, Min({t - History, Last(stored).at - BeforeLatest}))

RigSnapshot(t, stored, last) ==
  [now |-> t, dayStart |-> 0,
   rigs |-> [r \in {"r"} |-> [seen |-> last, seat |-> use, beats |-> RecentBeats(t, stored),
                             heard |-> HeardRunsOf({stored[i].at : i \in DOMAIN stored})]],
   combo |-> "featured", laps |-> <<>>, bests |-> {}, moves |-> {}, override |-> None,
   since |-> None, boards |-> {}, open |-> {<<a.rule, a.subject>> : a \in alerts},
   version |-> "current"]

(* runMonitor, unless there was an evaluation within EVALUATION_INTERVAL,  *)
(* which is shorter than the unit of time here (claimEvaluation).          *)
Evaluate(t, stored, last) ==
  \/ alerts' = Applied(EvaluateRules(RigSnapshot(t, stored, last)))
  \/ UNCHANGED alerts

(* Time passes: a request on its way too long is lost, and the outside     *)
(* clock brings an evaluation.                                             *)
Tick ==
  /\ now < MaxTime
  /\ now' = now + 1
  /\ wire' = {h \in wire : now' - (h.sent - ClockOffset) <= MaxDelay}
  /\ Evaluate(now + 1, beats, seen)
  /\ UNCHANGED <<agent, born, refused, sends, beats, seen, use>>

(* recordHeartbeat: over its rate an ordinary one is not stored, but the   *)
(* rig is seen.  An evaluation is due with every heartbeat.                *)
Admitted(h) ==
  \/ h.bye
  \/ Cardinality({i \in DOMAIN beats : ~beats[i].bye /\ beats[i].at > now - HeartbeatRateWindow})
       < HeartbeatRateLimit

(* The agent hears the answer and forgets what it reported, or the answer  *)
(* is lost.                                                                *)
Land(h) ==
  /\ wire' = wire \ {h}
  /\ beats' = IF Admitted(h) THEN Append(beats, [h EXCEPT !.at = now]) ELSE beats
  /\ seen' = now
  /\ \/ agent' = agent
     \/ agent.held = h /\ agent' = [agent EXCEPT !.held = None, !.unreported = {}]
  /\ Evaluate(now, beats', now)
  /\ UNCHANGED <<now, born, refused, sends, use>>
-----------------------------------------------------------------------------
RigNext ==
  \/ Tick \/ Restart \/ SendHeartbeat \/ SendBegun \/ SendGoodbye
  \/ \E h \in wire : Land(h)

RigSpec == RigInit /\ [][RigNext]_rigWatchVars

-----------------------------------------------------------------------------
(* A rig that said goodbye is not reported silent, however late and in     *)
(* whatever order the heartbeats its process sent arrive, unless those of  *)
(* another process arrive among or after them.                             *)
ClosedRigStaysQuiet ==
  (\E i \in DOMAIN beats :
     /\ beats[i].bye
     /\ \A j, k \in DOMAIN beats : beats[j].run # beats[i].run /\ beats[k].run = beats[i].run => j < k)
  => Silence(RigSnapshot(now, beats, seen)) = {}

(* Rule 10 counts processes that really started: the starts a rig's clock  *)
(* dates, placed on the site's clock, are off by no more than a heartbeat  *)
(* can be delayed, whatever the two clocks differ by.                      *)
RestartsAreReal ==
  RecentStarts(now, RecentBeats(now, beats)) >= RestartsToAlert
  => Cardinality({p \in DOMAIN born : now - born[p] <= RestartWindow + MaxDelay}) >= RestartsToAlert

(* Rule 3a speaks of a lap that waited while the rig was online: the site  *)
(* heard the rig after the lap was queued and before the report of it. An  *)
(* outage alone, however long, is not one.                                 *)
OutageIsNotStuck ==
  \A recent \in {RecentBeats(now, beats)} : \A state \in {RigState(recent)} \ {None} :
    LapsStuck(recent, state)
    => \E i \in DOMAIN beats : /\ beats[i].at > state.sent - ClockOffset - state.age
                               /\ beats[i].at < state.at

PartsShowing(lane, colours) ==
  {<<"node", RigNodes[i]>> : i \in {j \in DOMAIN RigNodes : lane.chain.nodes[j] \in colours} \ lane.chain.dimmedNodes}
  \cup {"edge"} \X ({e \in DOMAIN lane.chain.edges : lane.chain.edges[e] \in colours} \ lane.chain.dimmedEdges)
  \cup {"mark"} \X {m \in DOMAIN lane.marks : lane.marks[m] \in colours}

PartsOf(place) == {<<"node", place.node>>, <<"edge", place.edge>>, <<"mark", place.mark>>}

ShowsAt(a, tile, lane) ==
  IF a.severity = "urgent"
  THEN tile = "red-flashing" /\ PartsOf(PlaceOf(a)) \cap PartsShowing(lane, {"red"}) # {}
  ELSE tile \in {"red", "red-flashing"} /\ PartsOf(PlaceOf(a)) \cap PartsShowing(lane, {"red", "yellow"}) # {}

(* An alert that is open is on the staff page: its rig's tile is red, and  *)
(* a part of its lane shows the alert's severity and is not faded behind a *)
(* break further up.                                                       *)
LaneShowsEveryAlert ==
  \A s \in {RigSnapshot(now, beats, seen)} :
    \A mine \in {OnRig(ShownFindings(EvaluateRules(s), alerts), "r")} :
      \A a \in OnRig(alerts, "r") : ShowsAt(a, TileColour(s, "r", mine), Lane(s, "r", mine))
=============================================================================
