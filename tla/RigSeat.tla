------------------------------- MODULE RigSeat -------------------------------
(***************************************************************************)
(* Who is in the seat of one rig: the agent's view of the open stint       *)
(* (AgentService.cs), the backend's view of it (rig_assignments behind     *)
(* /api/checkin, /api/agent/checkout and /api/agent/assignment), and the   *)
(* messages that keep the two together.                                    *)
(*                                                                         *)
(* A stint is one row of rig_assignments.  The agent stamps every lap with *)
(* the stint it believes is open, and the backend never re-derives the     *)
(* owner later, so a seat that is wrong here is a lap on the wrong driver. *)
(*                                                                         *)
(* Two modes, chosen by the agent's configuration (RigQrToken): in phone   *)
(* mode a poll hands the agent its driver; in walk-up mode only the rig's  *)
(* own check-in does.                                                      *)
(*                                                                         *)
(* A request the agent has given up on may still be served later.  Such a  *)
(* late check-in is PhoneCheckIn and such a late checkout is SessionEnds:  *)
(* both may happen at any time, so no request outlives its caller here.    *)
(***************************************************************************)

CONSTANTS
  Drivers,   \* the people who check in at this rig
  Stints,    \* the rig_assignments rows that can be inserted; bounds the check-ins
  Laps,      \* the laps the telemetry source can report; bounds the captures
  WalkUp,    \* TRUE: walk-up mode (_ownStintsOnly)
  None,      \* null: nobody, nothing
  Unnamed        \* a checkout that names no stint: UnknownStint ("*") on disk, null on the wire

ASSUME SeatAssumption ==
  /\ WalkUp \in BOOLEAN
  /\ None \notin Stints \cup Drivers \cup {Unnamed}
  /\ Unnamed \notin Stints

VARIABLES
  \* the backend
  open,             \* the stint open on this rig, or None
  driverOf,         \* the driver of each stint; None: not inserted yet
  \* the agent's memory
  running,          \* the agent's process is alive
  seat,             \* _assignment: the stint laps are stamped with
  hasPolled,        \* _hasPolled
  superseded,       \* _assignmentGeneration has moved since the poll in flight read it
  pending,          \* _pendingCheckout: a sign-out still owed to the backend
  pendingIsDurable, \* _pendingCheckoutIsDurable
  poll,             \* the assignment poll's loop: its step and the answer in hand
  console,          \* the step of the task that reads the keyboard
  call,             \* the checkout each task of the agent has in flight
  signIn,           \* walk-up mode: the check-in in flight
  \* the agent's disk
  durablePending,   \* the pending_checkout row
  lap,              \* the outbox's laps: held for the first poll, or stamped
  \* what the driver was told and did, kept to state properties
  signedOut,        \* stints ended at this rig, by a press or on the way out, in this run
  promised          \* stints whose sign-out the driver was told will be delivered

backend  == <<open, driverOf>>
debt     == <<pending, pendingIsDurable, durablePending>>
history  == <<signedOut, promised>>
vars     == <<open, driverOf, running, seat, hasPolled, superseded, pending,
              pendingIsDurable, poll, console, call, signIn, durablePending,
              lap, signedOut, promised>>

-----------------------------------------------------------------------------
Tasks        == {"poll", "console"}
PollSteps    == {"idle", "asked", "answered", "applied", "settling"}
ConsoleSteps == {"starting", "idle", "settling", "checkingIn", "driving",
                 "pressed", "closing"}

NoCall   == [at |-> "none", target |-> None, owes |-> None]
NoPoll   == [at |-> "idle", answer |-> None]
NoSignIn == [at |-> "none", driver |-> None, stint |-> None]
NoLap    == [state |-> "absent", owner |-> None]

Begun  == {s \in Stints : driverOf[s] # None}   \* stints whose check-in has happened
Holder == IF open = None THEN None ELSE driverOf[open]

Calls   == [at : {"none", "wire", "served"}, target : Stints \cup {None, Unnamed},
            owes : Stints \cup {None, Unnamed}]
Polls   == [at : PollSteps, answer : Stints \cup {None}]
SignIns == [at : {"none", "wire", "served"}, driver : Drivers \cup {None},
            stint : Stints \cup {None}]
LapRows == [state : {"absent", "held", "stamped"}, owner : Stints \cup {None}]

TypeOK ==
  /\ open \in Stints \cup {None}
  /\ driverOf \in [Stints -> Drivers \cup {None}]
  /\ running \in BOOLEAN
  /\ seat \in Stints \cup {None}
  /\ hasPolled \in BOOLEAN
  /\ superseded \in BOOLEAN
  /\ pending \in Stints \cup {None, Unnamed}
  /\ pendingIsDurable \in BOOLEAN
  /\ poll \in Polls
  /\ console \in ConsoleSteps
  /\ call \in [Tasks -> Calls]
  /\ signIn \in SignIns
  /\ durablePending \in Stints \cup {None, Unnamed}
  /\ lap \in [Laps -> LapRows]
  /\ signedOut \in SUBSET Stints
  /\ promised \in SUBSET Stints

Init ==
  /\ open = None
  /\ driverOf = [s \in Stints |-> None]
  /\ running = FALSE
  /\ seat = None
  /\ hasPolled = FALSE
  /\ superseded = FALSE
  /\ pending = None
  /\ pendingIsDurable = FALSE
  /\ poll = NoPoll
  /\ console = "idle"
  /\ call = [t \in Tasks |-> NoCall]
  /\ signIn = NoSignIn
  /\ durablePending = None
  /\ lap = [l \in Laps |-> NoLap]
  /\ signedOut = {}
  /\ promised = {}

-----------------------------------------------------------------------------
(* The backend: one statement or one plpgsql call each, so one step each.  *)

(* checkin_driver: the driver already in the seat keeps their stint;       *)
(* otherwise whoever holds the rig is closed and a row is inserted.        *)
ServerCheckIn(d, s) ==
  \/ /\ Holder = d
     /\ s = open
     /\ UNCHANGED backend
  \/ /\ Holder # d
     /\ driverOf[s] = None
     /\ driverOf' = [driverOf EXCEPT ![s] = d]
     /\ open' = s

PhoneCheckIn(d, s) ==
  /\ ServerCheckIn(d, s)
  /\ UNCHANGED <<running, seat, hasPolled, superseded, debt, poll, console,
                 call, signIn, lap, history>>

(* The stint is closed away from the rig: from the driver's phone, by      *)
(* staff, or because its driver moved to another rig.                      *)
SessionEnds ==
  /\ open # None
  /\ open' = None
  /\ UNCHANGED <<driverOf, running, seat, hasPolled, superseded, debt, poll,
                 console, call, signIn, lap, history>>

(* POST /api/agent/checkout: closes the named stint if it is the one open, *)
(* or whatever is open when none is named.                                 *)
CheckoutServed(t) ==
  /\ call[t].at = "wire"
  /\ call' = [call EXCEPT ![t].at = "served"]
  /\ open' = IF call[t].target \in {open, Unnamed} THEN None ELSE open
  /\ UNCHANGED <<driverOf, running, seat, hasPolled, superseded, debt, poll,
                 console, signIn, lap, history>>

-----------------------------------------------------------------------------
(* The life of the agent's process.                                        *)

(* A start reads the sign-out the previous run could not deliver before    *)
(* any loop runs.  Walk-up mode empties the seat before it asks a name.    *)
Boot ==
  /\ ~running
  /\ running' = TRUE
  /\ pending' = durablePending
  /\ pendingIsDurable' = (durablePending # None)
  /\ console' = IF WalkUp THEN "starting" ELSE "idle"
  /\ UNCHANGED <<backend, seat, hasPolled, superseded, poll, call, signIn,
                 durablePending, lap, history>>

(* The process ends - the program is closed, the PC loses power - and with *)
(* it everything but the outbox.                                           *)
Stop ==
  /\ running
  /\ running' = FALSE
  /\ seat' = None
  /\ hasPolled' = FALSE
  /\ superseded' = FALSE
  /\ pending' = None
  /\ pendingIsDurable' = FALSE
  /\ poll' = NoPoll
  /\ console' = "idle"
  /\ call' = [t \in Tasks |-> NoCall]
  /\ signIn' = NoSignIn
  /\ signedOut' = {}
  /\ UNCHANGED <<backend, durablePending, lap, promised>>

-----------------------------------------------------------------------------
(* Laps.                                                                   *)

(* The telemetry handler, under _stampLock.  A lap it fails to write is    *)
(* lost with a notice, which is a lap that was never captured here.        *)
Capture(l) ==
  /\ running
  /\ lap[l] = NoLap
  /\ lap' = [lap EXCEPT ![l] =
               IF hasPolled \/ WalkUp
               THEN [state |-> "stamped", owner |-> seat]
               ELSE [state |-> "held", owner |-> None]]
  /\ UNCHANGED <<backend, running, seat, hasPolled, superseded, debt, poll,
                 console, call, signIn, history>>

(* Each held lap is given to the polled stint, or to nobody when the two   *)
(* clocks say that it was driven before that stint's check-in.  The clocks *)
(* are in Outbox; here either may be.                                      *)
ResolveUnresolved(s) ==
  \E theirs \in SUBSET Laps :
    lap' = [l \in Laps |->
              IF lap[l].state # "held" THEN lap[l]
              ELSE [state |-> "stamped", owner |-> IF l \in theirs THEN s ELSE None]]

-----------------------------------------------------------------------------
(* The debt: a sign-out that has to reach the backend.                     *)

(* SetPendingCheckout; the write to disk may fail, and then the debt is    *)
(* held in memory only.                                                    *)
RecordDebt(s, written) ==
  /\ pending' = s
  /\ pendingIsDurable' = written
  /\ durablePending' = IF written THEN s ELSE durablePending

(* ClearPendingCheckout: scoped to the stint it settled; the delete may    *)
(* fail, and the memory is cleared regardless.                             *)
ClearAnyDebt(s, written) ==
  /\ pending' = None
  /\ pendingIsDurable' = FALSE
  /\ durablePending' = IF written THEN None ELSE durablePending

ClearDebt(s, written) ==
  /\ pending' = IF pending = s THEN None ELSE pending
  /\ pendingIsDurable' = IF pending = s THEN FALSE ELSE pendingIsDurable
  /\ durablePending' = IF written /\ durablePending = s THEN None ELSE durablePending

-----------------------------------------------------------------------------
(* The assignment poll's loop: one poll at a time, then the settle.        *)

PollAsks ==
  /\ running
  /\ poll.at = "idle"
  /\ poll' = [at |-> "asked", answer |-> None]
  /\ superseded' = FALSE
  /\ UNCHANGED <<backend, running, seat, hasPolled, debt, console, call,
                 signIn, lap, history>>

PollServed ==
  /\ poll.at = "asked"
  /\ poll' = [at |-> "answered", answer |-> open]
  /\ UNCHANGED <<backend, running, seat, hasPolled, superseded, debt, console,
                 call, signIn, lap, history>>

PollFails ==
  /\ poll.at \in {"asked", "answered"}
  /\ poll' = NoPoll
  /\ UNCHANGED <<backend, running, seat, hasPolled, superseded, debt, console,
                 call, signIn, lap, history>>

(* What the poll's answer becomes on the way in: a stint this agent still  *)
(* owes a sign-out for is over, and in walk-up mode so is any stint other  *)
(* than the one in the seat.                                               *)
AdoptedFromAnyone(answer) == IF answer = pending THEN None ELSE answer

AdoptedFromNobodyElse(answer) == IF answer # seat THEN None ELSE answer

AdoptedUnlessNobody(answer) == IF answer = None THEN seat ELSE AdoptedFromAnyone(answer)

Adopted(answer) ==
  IF answer = pending \/ (WalkUp /\ answer # seat) THEN None ELSE answer

(* An answer the agent has moved on from is dropped whole.                 *)
PollDropped ==
  /\ poll.at = "answered"
  /\ superseded
  /\ poll' = NoPoll
  /\ UNCHANGED <<backend, running, seat, hasPolled, superseded, debt, console,
                 call, signIn, lap, history>>

PollApplied ==
  /\ poll.at = "answered"
  /\ ~superseded
  /\ seat' = Adopted(poll.answer)
  /\ IF hasPolled THEN UNCHANGED lap ELSE ResolveUnresolved(Adopted(poll.answer))
  /\ hasPolled' = TRUE
  /\ poll' = [at |-> "applied", answer |-> None]
  /\ UNCHANGED <<backend, running, superseded, debt, console, call, signIn,
                 history>>

(* The backend is reachable, so a named sign-out is delivered; the poll    *)
(* never delivers one that names no stint.                                 *)
PollNeverSettles == FALSE
PollMaySettle == pending \notin {None, Unnamed}

PollSettles ==
  /\ poll.at = "applied"
  /\ IF PollMaySettle
     THEN /\ poll' = [at |-> "settling", answer |-> None]
          /\ call' = [call EXCEPT !["poll"] =
                        [at |-> "wire", target |-> pending, owes |-> None]]
     ELSE /\ poll' = NoPoll
          /\ UNCHANGED call
  /\ UNCHANGED <<backend, running, seat, hasPolled, superseded, debt, console,
                 signIn, lap, history>>

PollSettleReplies(written) ==
  /\ poll.at = "settling"
  /\ call["poll"].at = "served"
  /\ ClearDebt(call["poll"].target, written)
  /\ call' = [call EXCEPT !["poll"] = NoCall]
  /\ poll' = NoPoll
  /\ UNCHANGED <<backend, running, seat, hasPolled, superseded, console,
                 signIn, lap, history>>

PollSettleFails ==
  /\ poll.at = "settling"
  /\ call' = [call EXCEPT !["poll"] = NoCall]
  /\ poll' = NoPoll
  /\ UNCHANGED <<backend, running, seat, hasPolled, superseded, debt, console,
                 signIn, lap, history>>

-----------------------------------------------------------------------------
(* Signing out.                                                            *)

(* The locked half of SwitchDriverAsync: the seat empties before the       *)
(* backend is asked, and the debt is written before the network is used.   *)
(* owes is the delivery this press may promise: a debt that is on disk.    *)
OwedToBackend == IF pendingIsDurable' THEN pending' ELSE None

EmptyTheSeat(written) ==
  /\ superseded' = TRUE
  /\ seat' = None
  /\ IF seat = None
     THEN UNCHANGED debt
     ELSE RecordDebt(seat, written)
  /\ signedOut' = signedOut \cup ({seat} \ {None})
  /\ call' = [call EXCEPT !["console"] =
                [at     |-> "wire",
                 target |-> IF seat = None THEN Unnamed ELSE seat,
                 owes   |-> OwedToBackend]]

(* The switch-driver key (phone mode) or the driver logging out (walk-up). *)
Press(written) ==
  /\ running
  /\ console = IF WalkUp THEN "driving" ELSE "idle"
  /\ EmptyTheSeat(written)
  /\ console' = "pressed"
  /\ UNCHANGED <<backend, running, hasPolled, poll, signIn, lap, promised>>

(* SignOutSeatedDriverAsync: closing the program signs the seated driver   *)
(* out, and sends nothing when nobody is seated.                           *)
ExitSeated(written) ==
  /\ WalkUp
  /\ console = "driving"
  /\ seat # None
  /\ EmptyTheSeat(written)
  /\ console' = "closing"
  /\ UNCHANGED <<backend, running, hasPolled, poll, signIn, lap, promised>>

AfterPress == IF console = "closing" THEN "closing" ELSE "idle"

PressReplies(written) ==
  /\ console \in {"pressed", "closing"}
  /\ call["console"].at = "served"
  /\ IF call["console"].target = Unnamed
     THEN UNCHANGED debt
     ELSE ClearDebt(call["console"].target, written)
  /\ call' = [call EXCEPT !["console"] = NoCall]
  /\ console' = AfterPress
  /\ UNCHANGED <<backend, running, seat, hasPolled, superseded, poll, signIn,
                 lap, history>>

(* No answer: the driver is told the sign-out is queued if it is on disk.  *)
PressFails ==
  /\ console \in {"pressed", "closing"}
  /\ call["console"].at # "none"
  /\ promised' = promised \cup ({call["console"].owes} \ {None, Unnamed})
  /\ call' = [call EXCEPT !["console"] = NoCall]
  /\ console' = AfterPress
  /\ UNCHANGED <<backend, running, seat, hasPolled, superseded, debt, poll,
                 signIn, lap, signedOut>>

-----------------------------------------------------------------------------
(* Walk-up mode: the rig is the check-in.                                  *)

(* EmptySeatAsync on start: end whatever is open on this rig.              *)
EmptySeatAsks ==
  /\ console = "starting"
  /\ call["console"].at = "none"
  /\ call' = [call EXCEPT !["console"] = [at |-> "wire", target |-> Unnamed, owes |-> None]]
  /\ UNCHANGED <<backend, running, seat, hasPolled, superseded, debt, poll,
                 console, signIn, lap, history>>

EmptySeatReplies(written) ==
  /\ console = "starting"
  /\ call["console"].at = "served"
  /\ IF pending = Unnamed THEN ClearDebt(Unnamed, written) ELSE UNCHANGED debt
  /\ call' = [call EXCEPT !["console"] = NoCall]
  /\ console' = "idle"
  /\ UNCHANGED <<backend, running, seat, hasPolled, superseded, poll, signIn,
                 lap, history>>

(* Tried again, or given up on after the last attempt: the prompt shows.   *)
EmptySeatFails ==
  /\ console = "starting"
  /\ call["console"].at # "none"
  /\ call' = [call EXCEPT !["console"] = NoCall]
  /\ console' \in {"starting", "idle"}
  /\ UNCHANGED <<backend, running, seat, hasPolled, superseded, debt, poll,
                 signIn, lap, history>>

(* A sign-in first delivers any sign-out still owed, then checks in.       *)
SettlesFirst == pending # None

SignInStarts(d) ==
  /\ WalkUp
  /\ running
  /\ console = "idle"
  /\ IF SettlesFirst
     THEN /\ console' = "settling"
          /\ signIn' = [at |-> "none", driver |-> d, stint |-> None]
          /\ call' = [call EXCEPT !["console"] =
                        [at |-> "wire", target |-> pending, owes |-> None]]
     ELSE /\ console' = "checkingIn"
          /\ signIn' = [at |-> "wire", driver |-> d, stint |-> None]
          /\ UNCHANGED call
  /\ UNCHANGED <<backend, running, seat, hasPolled, superseded, debt, poll,
                 lap, history>>

SignInSettled(written) ==
  /\ console = "settling"
  /\ call["console"].at = "served"
  /\ ClearDebt(call["console"].target, written)
  /\ call' = [call EXCEPT !["console"] = NoCall]
  /\ console' = "checkingIn"
  /\ signIn' = [signIn EXCEPT !.at = "wire"]
  /\ UNCHANGED <<backend, running, seat, hasPolled, superseded, poll, lap,
                 history>>

SignInUnsettled ==
  /\ console = "settling"
  /\ call' = [call EXCEPT !["console"] = NoCall]
  /\ console' = "idle"
  /\ signIn' = NoSignIn
  /\ UNCHANGED <<backend, running, seat, hasPolled, superseded, debt, poll,
                 lap, history>>

CheckInServed(s) ==
  /\ signIn.at = "wire"
  /\ ServerCheckIn(signIn.driver, s)
  /\ signIn' = [signIn EXCEPT !.at = "served", !.stint = s]
  /\ UNCHANGED <<running, seat, hasPolled, superseded, debt, poll, console,
                 call, lap, history>>

(* SeatCheckedInDriver: the next lap is this driver's, and a poll asked    *)
(* before the check-in is dropped.                                         *)
SeatCheckedInDriver ==
  /\ console = "checkingIn"
  /\ signIn.at = "served"
  /\ seat' = signIn.stint
  /\ superseded' = TRUE
  /\ console' = "driving"
  /\ signIn' = NoSignIn
  /\ UNCHANGED <<backend, running, hasPolled, debt, poll, call, lap, history>>

(* Refused, or no answer: the check-in may have happened all the same.     *)
CheckInFails ==
  /\ console = "checkingIn"
  /\ console' = "idle"
  /\ signIn' = NoSignIn
  /\ UNCHANGED <<backend, running, seat, hasPolled, superseded, debt, poll,
                 call, lap, history>>

(* RecordAbandonedSignIn: the window closed on a request of the sign-in -  *)
(* the lookup of a name at the prompt, the settle or the check-in - that   *)
(* did not answer in time, so a sign-out that names no stint is owed.      *)
ExitAbandonsSignIn(written) ==
  /\ WalkUp
  /\ running
  /\ console \in {"idle", "settling", "checkingIn"}
  /\ RecordDebt(Unnamed, written)
  /\ console' = "closing"
  /\ call' = [call EXCEPT !["console"] = NoCall]
  /\ signIn' = NoSignIn
  /\ UNCHANGED <<backend, running, seat, hasPolled, superseded, poll, lap,
                 history>>

-----------------------------------------------------------------------------
Poll ==
  \/ PollAsks \/ PollServed \/ PollFails \/ PollDropped \/ PollApplied
  \/ PollSettles \/ PollSettleFails
  \/ \E w \in BOOLEAN : PollSettleReplies(w)

Console ==
  \/ \E w \in BOOLEAN : Press(w) \/ ExitSeated(w) \/ PressReplies(w)
  \/ PressFails
  \/ EmptySeatAsks \/ EmptySeatFails
  \/ \E w \in BOOLEAN : EmptySeatReplies(w)
  \/ \E d \in Drivers : SignInStarts(d)
  \/ \E w \in BOOLEAN : SignInSettled(w) \/ ExitAbandonsSignIn(w)
  \/ SignInUnsettled
  \/ SeatCheckedInDriver \/ CheckInFails

Backend ==
  \/ \E d \in Drivers, s \in Stints : PhoneCheckIn(d, s)
  \/ SessionEnds
  \/ \E t \in Tasks : CheckoutServed(t)
  \/ \E s \in Stints : CheckInServed(s)

Next ==
  \/ Boot \/ Stop
  \/ \E l \in Laps : Capture(l)
  \/ Poll
  \/ Console
  \/ Backend

Spec == Init /\ [][Next]_vars

(* The program is started whenever the rig is on and ends once it is       *)
(* closing (the exit work is bounded to three seconds); its poll loop      *)
(* never ends (RunTick contains every failure); and the backend does not   *)
(* stay unreachable: a request repeated for ever is served and answered.   *)
(* Nothing is assumed of drivers, of phones or of staff.                   *)
Fairness ==
  /\ WF_vars(Boot)
  /\ WF_vars(console = "closing" /\ Stop)
  /\ WF_vars(PollAsks)
  /\ SF_vars(PollServed)
  /\ SF_vars(PollApplied)
  /\ WF_vars(PollDropped)
  /\ WF_vars(PollSettles)
  /\ SF_vars(CheckoutServed("poll"))
  /\ SF_vars(\E w \in BOOLEAN : PollSettleReplies(w))

FairSpec == Spec /\ Fairness

-----------------------------------------------------------------------------
(* Safety.                                                                 *)

(* While a sign-out is owed to the backend, no poll and no check-in puts   *)
(* that stint back in the seat (the tombstone of PollAssignmentTick, and   *)
(* the settle that SignInAttempt runs before a check-in: the backend       *)
(* answers a driver signing straight back in with their still open stint). *)
TombstoneHolds == seat # None => seat # pending

(* A stint ended at this rig is never back in its seat, so no lap driven   *)
(* after a driver signed out is stamped with their stint.                  *)
SignedOutStaysOut == seat \notin signedOut

(* Walk-up mode: a checkout that names no stint is never under way while a *)
(* check-in of this rig is, or once its driver is seated: landing after    *)
(* the check-in it would end the stint that check-in just opened.          *)
UnnamedCheckoutRunsAlone ==
  WalkUp => \A t \in Tasks :
    call[t].at = "wire" /\ call[t].target = Unnamed => seat = None /\ signIn.at = "none"

(* A sign-out the driver was told is queued is not forgotten - not by a    *)
(* restart, not by a settle of another stint answering late - before the   *)
(* backend has closed the stint.                                           *)
PromiseKept ==
  \A s \in promised : open = s => durablePending \in {s, Unnamed}

(* Once a poll has answered, every lap held for it is stamped: none sits   *)
(* in the outbox unsendable for the rest of the night.                     *)
NothingHeldAfterFirstPoll ==
  running /\ hasPolled => \A l \in Laps : lap[l].state # "held"

(* A poll never unseats a driver whose stint the backend still holds open: *)
(* an answer from before the check-in that seated them is dropped.         *)
OpenStintKeepsItsSeat ==
  [][PollApplied /\ seat # None /\ seat = open => seat' = seat]_vars

(* Walk-up mode: only this rig's own check-in seats anyone - not a stint a *)
(* previous run left open and not a check-in from a phone.                 *)
OnlyOwnCheckInSeats ==
  [][WalkUp /\ seat' \notin {None, seat} => seat' = signIn.stint]_vars

-----------------------------------------------------------------------------
(* Liveness.                                                               *)

NoMorePresses == <>[][\A w \in BOOLEAN : ~Press(w)]_vars

(* A seat learns that its stint was ended elsewhere - from a phone, by     *)
(* staff, by the next customer's takeover - so the laps stop being stamped *)
(* with the departed driver.                                               *)
SeatLearnsOfTheEnd ==
  \A s \in Stints : (seat = s /\ open # s) ~> seat # s

(* A sign-out the driver was told is queued reaches the backend, or is     *)
(* folded into the sign-out that names no stint and that the next check-in *)
(* settles first - provided the program keeps running.                     *)
QueuedSignOutIsDelivered ==
  <>[]running /\ NoMorePresses =>
    \A s \in Stints : s \in promised ~> (open # s \/ durablePending = Unnamed)

(* Phone mode: a check-in that stands reaches the rig and stays there.     *)
CheckInReachesTheSeat ==
  NoMorePresses =>
    \A s \in Stints : <>[](running /\ open = s) => <>[](seat = s)
=============================================================================
