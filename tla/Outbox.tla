------------------------------- MODULE Outbox -------------------------------
(***************************************************************************)
(* How a lap gets from the rig to the laps table: the durable outbox       *)
(* (EventQueue.cs), the loop that flushes it (AgentService.FlushQueueTick, *)
(* BackendClient.SendLapsAsync) and the ingestion route that answers it    *)
(* (api/agent/events/route.ts).                                            *)
(*                                                                         *)
(* The agent may stop at any step and may give up on a request the backend *)
(* goes on serving, so the same lap can be in several requests at once.    *)
(*                                                                         *)
(* A lap driven before the first poll answers is held until it does, and   *)
(* then given to the driver it names or to nobody, by two clocks: the lap  *)
(* was timed by the rig's, the check-in by the server's.  Here time is the *)
(* server's, and a clock that runs off and may be set at any moment is one *)
(* that shows an error of its own every time it is read.  (The web server  *)
(* that dates a response and the database that dates a check-in are taken  *)
(* to share one clock.)                                                    *)
(***************************************************************************)
EXTENDS Integers, Sequences

CONSTANTS
  Laps,       \* the laps the telemetry source reports, each with its event id
  Owners,     \* the stints a lap can be stamped with
  Refused,    \* the laps the backend's schema refuses
  BatchSize,  \* FlushBatchSize
  Handlers,   \* bounds the requests of this rig the backend serves at once
  WalkUp,     \* TRUE: walk-up mode, the agent knows its seat before any poll
  MaxTime,    \* bounds the time that passes, in ticks
  Second,     \* the ticks of a second, which is all a Date header tells
  ClockErrors, \* how far ahead of the server's the rig's clock may be
  None,       \* null: nobody was checked in
  Undriven,   \* the lap has not been driven yet
  Undecided   \* resolved = 0: captured before the first poll

ASSUME OutboxAssumption ==
  /\ Refused \subseteq Laps
  /\ BatchSize \in Nat \ {0}
  /\ WalkUp \in BOOLEAN
  /\ MaxTime \in Nat
  /\ Second \in Nat \ {0}
  /\ ClockErrors \subseteq Int
  /\ None \notin Owners \cup Handlers \cup {Undriven, Undecided}
  /\ Undriven \notin Owners \cup {Undecided}
  /\ Undecided \notin Owners

VARIABLES
  now,       \* the server's clock
  \* the agent
  running,   \* the agent's process is alive
  hasPolled, \* _hasPolled: the assignment poll has answered in this run
  outbox,    \* on disk: the laps in the outbox table
  earlier,   \* on disk: created_at, as the laps each lap was queued after
  stamp,     \* on disk: rigAssignmentId in the payload, and the resolved flag
  parked,    \* on disk: the laps with a rejected_reason
  held,      \* on disk: when a lap that waits for the first poll was driven
  flush,     \* the flush loop: its step, the batch it sent, and who serves it
  \* the backend
  since,     \* started_at of each stint
  handler,   \* the requests being served
  laps       \* laps[l]: the owners of the rows of the laps table with l's event id

disk   == <<outbox, earlier, stamp, parked, held>>
server == <<now, since>>
vars   == <<now, running, hasPolled, outbox, earlier, stamp, parked, held, flush,
            since, handler, laps>>
-----------------------------------------------------------------------------
KnownOwners == Owners \cup {None}

(* What the agent reads of a response: every lap the backend settled, or   *)
(* the positions in the batch of those it refused by name.                 *)
NoAnswer == [settled |-> {}, refused |-> {}]
NoHold   == [driven |-> 0, reading |-> 0]
Never    == -1
NoFlush  == [at |-> "idle", batch |-> <<>>, by |-> None, answer |-> NoAnswer]
NoWork   == [at |-> "free", batch |-> <<>>, next |-> 1, settled |-> {}]

Holds    == [driven : Nat, reading : Int]
Answers  == [settled : SUBSET Laps, refused : SUBSET Nat]
Batches  == Seq(Laps)
Flushes  == [at : {"idle", "waiting", "answered"}, batch : Batches,
             by : Handlers \cup {None}, answer : Answers]
Payloads == Seq([lap : Laps, owner : KnownOwners])
Requests == [at : {"free", "received", "storing"}, batch : Payloads,
             next : Nat \ {0}, settled : SUBSET Laps]

TypeOK ==
  /\ now \in Nat
  /\ running \in BOOLEAN
  /\ hasPolled \in BOOLEAN
  /\ outbox \in SUBSET Laps
  /\ earlier \in [Laps -> SUBSET Laps]
  /\ stamp \in [Laps -> KnownOwners \cup {Undriven, Undecided}]
  /\ parked \in SUBSET Laps
  /\ held \in [Laps -> Holds]
  /\ flush \in Flushes
  /\ since \in [Owners -> Nat \cup {Never}]
  /\ handler \in [Handlers -> Requests]
  /\ laps \in [Laps -> Seq(KnownOwners)]

Init ==
  /\ now = 0
  /\ running = FALSE
  /\ hasPolled = FALSE
  /\ outbox = {}
  /\ earlier = [l \in Laps |-> {}]
  /\ stamp = [l \in Laps |-> Undriven]
  /\ parked = {}
  /\ held = [l \in Laps |-> NoHold]
  /\ flush = NoFlush
  /\ since = [o \in Owners |-> Never]
  /\ handler = [h \in Handlers |-> NoWork]
  /\ laps = [l \in Laps |-> <<>>]

-----------------------------------------------------------------------------
(* Time, and the check-ins at this rig.                                    *)

Tick ==
  /\ now < MaxTime
  /\ now' = now + 1
  /\ UNCHANGED <<running, hasPolled, disk, flush, since, handler, laps>>

StintOpens(o) ==
  /\ since[o] = Never
  /\ since' = [since EXCEPT ![o] = now]
  /\ UNCHANGED <<now, running, hasPolled, disk, flush, handler, laps>>

-----------------------------------------------------------------------------
(* The agent's process and its laps.                                       *)

Boot ==
  /\ ~running
  /\ running' = TRUE
  /\ UNCHANGED <<server, hasPolled, disk, flush, handler, laps>>

Stop ==
  /\ running
  /\ running' = FALSE
  /\ hasPolled' = FALSE
  /\ flush' = NoFlush
  /\ UNCHANGED <<server, disk, handler, laps>>

(* The lap handler: stamped with whoever is in the seat, or held, with the *)
(* time the rig's clock shows, until the first poll answers.               *)
Capture(l, o, error) ==
  /\ running
  /\ stamp[l] = Undriven
  /\ o # None => since[o] # Never
  /\ IF hasPolled \/ WalkUp
     THEN /\ stamp' = [stamp EXCEPT ![l] = o]
          /\ UNCHANGED held
     ELSE /\ stamp' = [stamp EXCEPT ![l] = Undecided]
          /\ held' = [held EXCEPT ![l] = [driven |-> now, reading |-> now + error]]
  /\ outbox' = outbox \cup {l}
  /\ earlier' = [earlier EXCEPT ![l] = {k \in Laps : stamp[k] # Undriven}]
  /\ UNCHANGED <<server, running, hasPolled, parked, flush, handler, laps>>

(* A Date header tells whole seconds.                                      *)
Header(time) == time - (time % Second)

(* serverClockOffset, what to add to the rig's time to get the server's: a *)
(* response dated so, that arrived then, when the rig's clock was off by   *)
(* error.                                                                  *)
OffsetOfSameClock(date, arrived, error) == 0
Offset(date, arrived, error) == Header(date) - (arrived + error)

(* The offsets an answer of that date can leave the agent with; zero when  *)
(* the header is missing.                                                  *)
Offsets(date) ==
  {0} \cup {Offset(date, arrived, error) : arrived \in date .. now, error \in ClockErrors}

OwnerOf(l, o, offset) ==
  IF o # None /\ held[l].reading + offset >= since[o] THEN o ELSE None

(* The first poll, answered at date and applied now; ResolveUnresolved, in *)
(* one transaction, stamps every held lap.  The answer names a stint that  *)
(* had begun by its date, or nobody - as it is taken to when this agent    *)
(* still owes that stint a sign-out; RigSeat has which.                    *)
FirstPoll(o, date, offset) ==
  /\ running
  /\ ~hasPolled
  /\ o # None => since[o] \in 0 .. date
  /\ hasPolled' = TRUE
  /\ stamp' = [l \in Laps |-> IF stamp[l] = Undecided THEN OwnerOf(l, o, offset)
                                                    ELSE stamp[l]]
  /\ held' = [l \in Laps |-> NoHold]
  /\ UNCHANGED <<server, running, outbox, earlier, parked, flush, handler, laps>>

Polls == \E o \in KnownOwners, date \in 0 .. now :
           \E offset \in Offsets(date) : FirstPoll(o, date, offset)

-----------------------------------------------------------------------------
(* The flush loop.                                                         *)

Resolved == {l \in outbox : stamp[l] # Undecided}

(* The batches PendingBatch may return: the oldest rows, oldest first.     *)
Oldest(rows) ==
  {b \in UNION {[1 .. n -> rows] : n \in 1 .. BatchSize} :
     /\ \A i, j \in DOMAIN b : i < j => b[i] \in earlier[b[j]]
     /\ \A l \in rows : (\A i \in DOMAIN b : b[i] # l)
                         => Len(b) = BatchSize /\ b[Len(b)] \in earlier[l]}

UnparkedBatches == Oldest(outbox \ parked)
PendingBatches  == Oldest(Resolved \ parked)

FlushSends(h) ==
  /\ running
  /\ flush.at = "idle"
  /\ handler[h].at = "free"
  /\ \E batch \in PendingBatches :
       /\ flush' = [at |-> "waiting", batch |-> batch, by |-> h, answer |-> NoAnswer]
       /\ handler' = [handler EXCEPT ![h] =
                        [at      |-> "received",
                         batch   |-> [i \in DOMAIN batch |->
                                        [lap |-> batch[i], owner |-> stamp[batch[i]]]],
                         next    |-> 1,
                         settled |-> {}]]
  /\ UNCHANGED <<server, running, hasPolled, disk, laps>>

(* No usable answer: unreachable, timed out, refused without naming a lap. *)
FlushFails ==
  /\ flush.at = "waiting"
  /\ flush' = NoFlush
  /\ UNCHANGED <<server, running, hasPolled, disk, handler, laps>>

(* ReadRejections: a refusal names positions in the batch that was sent.   *)
NobodyNamed(answer) == {}

NamedInBatch(answer) == {flush.batch[i] : i \in answer.refused}

SettledLaps(answer) == answer.settled

(* Quarantine, or Remove: one transaction on the outbox, which may fail.   *)
FlushApplied(written) ==
  /\ flush.at = "answered"
  /\ IF written
     THEN /\ parked' = parked \cup (NamedInBatch(flush.answer) \cap outbox)
          /\ outbox' = outbox \ SettledLaps(flush.answer)
     ELSE UNCHANGED <<parked, outbox>>
  /\ flush' = NoFlush
  /\ UNCHANGED <<server, running, hasPolled, earlier, stamp, held, handler, laps>>

-----------------------------------------------------------------------------
(* The ingestion route.                                                    *)

(* The response reaches the agent if it is still waiting for this request. *)
Responds(h, answer) ==
  flush' = IF flush.by = h /\ flush.at = "waiting"
           THEN [flush EXCEPT !.at = "answered", !.answer = answer]
           ELSE flush

Offending(h) == {i \in DOMAIN handler[h].batch : handler[h].batch[i].lap \in Refused}

(* The body is validated whole: a lap over a bound fails all of them, and  *)
(* the response names it by its position.                                  *)
Validates(h) ==
  /\ handler[h].at = "received"
  /\ IF Offending(h) = {}
     THEN /\ handler' = [handler EXCEPT ![h].at = "storing"]
          /\ UNCHANGED flush
     ELSE /\ handler' = [handler EXCEPT ![h] = NoWork]
          /\ Responds(h, [settled |-> {}, refused |-> Offending(h)])
  /\ UNCHANGED <<server, running, hasPolled, disk, laps>>

(* insert into laps ... on conflict (event_id) do nothing.                 *)
InsertOnce(l, o) ==
  laps' = IF laps[l] = <<>> THEN [laps EXCEPT ![l] = <<o>>] ELSE laps

(* attributeLap: the stint stamped on the lap, or nobody when the rig never *)
(* held that stint or the lap was driven outside its window.               *)
AttributedTo(owner) == {owner, None}

(* accepted or duplicate: either way the lap is settled.                   *)
LapStored(h, l) ==
  /\ handler[h].at = "storing"
  /\ handler[h].next <= Len(handler[h].batch)
  /\ LET item == handler[h].batch[handler[h].next]
     IN  /\ item.lap = l
         /\ \E o \in AttributedTo(item.owner) : InsertOnce(l, o)
  /\ handler' = [handler EXCEPT ![h].next = @ + 1, ![h].settled = @ \cup {l}]
  /\ UNCHANGED <<server, running, hasPolled, disk, flush>>

(* status "error": this lap's insert failed, the batch goes on.            *)
LapErrors(h) ==
  /\ handler[h].at = "storing"
  /\ handler[h].next <= Len(handler[h].batch)
  /\ handler' = [handler EXCEPT ![h].next = @ + 1]
  /\ UNCHANGED <<server, running, hasPolled, disk, flush, laps>>

BatchAnswered(h) ==
  /\ handler[h].at = "storing"
  /\ handler[h].next > Len(handler[h].batch)
  /\ handler' = [handler EXCEPT ![h] = NoWork]
  /\ Responds(h, [settled |-> handler[h].settled, refused |-> {}])
  /\ UNCHANGED <<server, running, hasPolled, disk, laps>>

(* The request dies part-way: a 500, or an instance that goes away.        *)
BatchDies(h) ==
  /\ handler[h].at # "free"
  /\ handler' = [handler EXCEPT ![h] = NoWork]
  /\ flush' = IF flush.by = h THEN NoFlush ELSE flush
  /\ UNCHANGED <<server, running, hasPolled, disk, laps>>

-----------------------------------------------------------------------------
Agent ==
  \/ Boot \/ Stop
  \/ \E l \in Laps, o \in KnownOwners, error \in ClockErrors : Capture(l, o, error)
  \/ Polls
  \/ \E h \in Handlers : FlushSends(h)
  \/ FlushFails
  \/ \E w \in BOOLEAN : FlushApplied(w)

Serves(h) ==
  \/ Validates(h) \/ LapErrors(h) \/ BatchAnswered(h) \/ BatchDies(h)
  \/ \E l \in Laps : LapStored(h, l)

Venue == Tick \/ \E o \in Owners : StintOpens(o)

Next == Agent \/ Venue \/ \E h \in Handlers : Serves(h)

Spec == Init /\ [][Next]_vars

(* The agent's loops never end, and the backend goes on with a request     *)
(* until it answers it or the request dies.                                *)
Fairness ==
  /\ WF_vars(Boot)
  /\ WF_vars(Polls)
  /\ WF_vars(\E h \in Handlers : FlushSends(h))
  /\ WF_vars(\E w \in BOOLEAN : FlushApplied(w))
  /\ \A h \in Handlers : WF_vars(Serves(h))

FairSpec == Spec /\ Fairness

-----------------------------------------------------------------------------
(* Safety.                                                                 *)

(* No lap is lost: one that was captured is in the outbox or in the laps   *)
(* table, whatever stopped, failed or answered late on the way.            *)
NoLapLost == \A l \in Laps : stamp[l] = Undriven \/ l \in outbox \/ laps[l] # <<>>

(* A lap is recorded at most once, and under the owner the rig stamped it  *)
(* with or under nobody, however many requests carried it.                 *)
RecordedAsStamped == \A l \in Laps : laps[l] \in {<<>>, <<stamp[l]>>, <<None>>}

(* Only the laps the backend named are parked, never a good lap that sat   *)
(* beside one of them in the batch.                                        *)
OnlyRefusedAreParked == parked \subseteq Refused

(* A lap held for the first poll is credited to the driver that poll names *)
(* only if it was driven after their check-in, and withheld from them only *)
(* if it was not, or if it was driven within a second and the answer's way *)
(* of the check-in - whatever the rig's clock says, so long as it was not  *)
(* set in between and the answer was dated.                                *)
HeldLapsFindTheirDriver ==
  [][\A o \in Owners, date \in 0 .. now, error \in ClockErrors :
       \A arrived \in date .. now : FirstPoll(o, date, Offset(date, arrived, error)) =>
         \A l \in Laps :
           stamp[l] = Undecided /\ held[l].reading - held[l].driven = error =>
             /\ stamp'[l] = o => held[l].driven >= since[o]
             /\ stamp'[l] = None => held[l].driven < since[o] + Second + (arrived - date)
    ]_vars

Ledger == INSTANCE LapLedger WITH owner <- stamp, recorded <- laps, away <- parked
ImplementsLapLedger == Ledger!Spec

-----------------------------------------------------------------------------
(* Liveness.                                                               *)

(* No request times out, fails, or has an insert or an outbox write fail.  *)
OutageEnds ==
  <>[][~ \/ FlushFails
         \/ FlushApplied(FALSE) /\ ~FlushApplied(TRUE)
         \/ \E h \in Handlers : LapErrors(h) \/ BatchDies(h)]_vars

(* A lap behind one the backend refuses is not stuck with it: once the     *)
(* program keeps running and the outage ends, every captured lap reaches   *)
(* the laps table, unless it is itself refused, and then it is parked.     *)
EveryLapIsSettled ==
  <>[]running /\ OutageEnds => \A l \in Laps :
    (stamp[l] # Undriven) ~> IF l \in Refused THEN l \in parked ELSE laps[l] # <<>>
=============================================================================
