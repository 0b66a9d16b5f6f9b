---------------------------- MODULE RigSeatProofs ----------------------------
(***************************************************************************)
(* Proofs about RigSeat for any set of drivers, stints and laps.           *)
(*                                                                         *)
(* The safety properties follow from one inductive invariant, IInv.  Its   *)
(* parts say what the code relies on without writing it down: a stint is   *)
(* never reopened, a served checkout that named a stint closed it for      *)
(* good, and the keyboard task never checks a driver in while it owes a    *)
(* sign-out.                                                               *)
(***************************************************************************)
EXTENDS RigSeat, TLAPS

(* A process that is not running has no memory and nothing in flight.      *)
AtRest ==
  ~running => /\ seat = None /\ ~hasPolled
              /\ pending = None /\ ~pendingIsDurable
              /\ poll = NoPoll /\ signIn = NoSignIn /\ console = "idle"
              /\ call = [t \in Tasks |-> NoCall]
              /\ signedOut = {}

(* Every stint named anywhere has been inserted, so a stint that is still  *)
(* to be inserted is named nowhere.                                        *)
Known ==
  /\ {open, seat, pending, durablePending, poll.answer, signIn.stint}
       \subseteq Begun \cup {None, Unnamed}
  /\ \A t \in Tasks : {call[t].target, call[t].owes} \subseteq Begun \cup {None, Unnamed}
  /\ signedOut \subseteq Begun /\ promised \subseteq Begun

(* The keyboard task runs one thing at a time.                             *)
OneThingAtATime ==
  /\ signIn.at # "none" => console = "checkingIn"
  /\ (signIn.at = "served") = (signIn.stint # None)
  /\ console \in {"starting", "settling", "checkingIn", "driving", "closing"} => WalkUp
  /\ console \in {"settling", "checkingIn"} => signIn.driver # None
  /\ console \in {"checkingIn", "driving"} => pending = None
  /\ console \in {"idle", "checkingIn", "driving"} => call["console"] = NoCall
  /\ console = "settling" => /\ call["console"].target # None
                             /\ pending \in {None, call["console"].target}
  /\ WalkUp /\ seat # None => console = "driving"
  /\ call["poll"].at # "none" => /\ poll.at = "settling"
                                 /\ call["poll"].target \in Stints
  /\ poll.at = "settling" => call["poll"].at # "none"
  /\ call["console"].at = "none" => call["console"] = NoCall
  /\ call["poll"].owes = None
  /\ call["console"].owes # None => console \in {"pressed", "closing"}
  /\ console = "closing" => call["console"].target # Unnamed
  /\ console = "starting" /\ call["console"].at # "none" => call["console"].target = Unnamed
  /\ WalkUp /\ pending = Unnamed /\ console # "closing" => signedOut = {}

(* A checkout that named a stint has closed it once it is served, and no   *)
(* stint is reopened.                                                      *)
ServedMeansClosed ==
  \A t \in Tasks :
    call[t].at = "served" /\ call[t].target \in Stints => open # call[t].target

(* A debt said to be on disk is.                                           *)
DurableDebt == pendingIsDurable => pending # None /\ durablePending = pending

(* Walk-up mode: a stint signed out here that the backend still holds open *)
(* is still owed.                                                          *)
SignedOutIsOwed ==
  WalkUp => /\ \A s \in signedOut : open = s => pending \in {s, Unnamed}
            /\ signIn.stint \notin signedOut

(* The sign-outs that may be, or have been, promised.                      *)
Assured == promised \cup {call["console"].owes}

(* While an assured stint is open, nothing else can reach the seat.        *)
NobodyElseIsSeated ==
  \A s \in Stints :
    /\ s \in Assured /\ open = s =>
         /\ seat \in {None, s}
         /\ signIn.at = "served" => signIn.stint = s
         /\ ~WalkUp => poll.answer \in {None, s}
         /\ call["console"].at = "served" /\ call["console"].target = Unnamed
              => console \notin {"starting", "settling"}
    /\ ~WalkUp /\ s \in {seat, pending, durablePending} /\ open = s
         => poll.answer \in {None, s}

AssuranceKept ==
  \A s \in Stints : s \in Assured /\ open = s => durablePending \in {s, Unnamed}

(* An answer in hand that is not superseded knows the stint in the seat.   *)
FreshAnswer ==
  poll.at = "answered" /\ ~superseded /\ seat # None /\ seat = open
    => poll.answer = seat

IInv ==
  /\ TypeOK /\ AtRest /\ Known /\ OneThingAtATime /\ ServedMeansClosed
  /\ DurableDebt /\ SignedOutIsOwed /\ NobodyElseIsSeated /\ AssuranceKept
  /\ FreshAnswer
  /\ TombstoneHolds /\ (WalkUp => SignedOutStaysOut)
  /\ NothingHeldAfterFirstPoll

-----------------------------------------------------------------------------
(* The records a handler builds or resets are of their types.             *)
LEMMA BlankRecords ==
  /\ NoCall \in Calls /\ NoPoll \in Polls /\ NoSignIn \in SignIns /\ NoLap \in LapRows
  /\ \A at \in PollSteps : [at |-> at, answer |-> None] \in Polls
  /\ \A target, owes \in Stints \cup {None, Unnamed} :
       [at |-> "wire", target |-> target, owes |-> owes] \in Calls
BY DEF NoCall, Calls, NoPoll, Polls, NoSignIn, SignIns, NoLap, LapRows, PollSteps

(* The types, at the start.                                                *)
LEMMA TypeInit == Init => TypeOK
BY BlankRecords DEF Init, TypeOK, ConsoleSteps

(* The types, at every step.                                               *)
LEMMA TypeNext == TypeOK /\ [Next]_vars => TypeOK'
<1> SUFFICES ASSUME TypeOK, [Next]_vars PROVE TypeOK'
  OBVIOUS
<1> USE SeatAssumption, BlankRecords DEF TypeOK, PollSteps, ConsoleSteps, Tasks,
        backend, debt, history
<1>1. CASE Boot BY <1>1 DEF Boot
<1>2. CASE Stop BY <1>2 DEF Stop
<1>3. ASSUME NEW l \in Laps, Capture(l) PROVE TypeOK'
  BY <1>3 DEF Capture, LapRows
<1>4. CASE Poll
  <2>1. CASE PollAsks BY <2>1 DEF PollAsks
  <2>2. CASE PollServed BY <2>2 DEF PollServed, Polls
  <2>3. CASE PollFails BY <2>3 DEF PollFails
  <2>4. CASE PollDropped BY <2>4 DEF PollDropped
  <2>5. CASE PollApplied
    <3>1. Adopted(poll.answer) \in Stints \cup {None}
      BY DEF Adopted, Polls
    <3>2. ASSUME NEW s \in Stints \cup {None}, ResolveUnresolved(s)
          PROVE  lap' \in [Laps -> LapRows]
      BY <3>2 DEF ResolveUnresolved, LapRows
    <3>3. lap' \in [Laps -> LapRows]
      BY <2>5, <3>1, <3>2 DEF PollApplied
    <3> QED BY <2>5, <3>1, <3>3 DEF PollApplied
  <2>6. CASE PollSettles BY <2>6 DEF PollSettles, PollMaySettle
  <2>7. CASE PollSettleFails BY <2>7 DEF PollSettleFails
  <2>8. ASSUME NEW w \in BOOLEAN, PollSettleReplies(w) PROVE TypeOK'
    BY <2>8 DEF PollSettleReplies, ClearDebt
  <2> QED BY <1>4, <2>1, <2>2, <2>3, <2>4, <2>5, <2>6, <2>7, <2>8 DEF Poll
<1>5. CASE Console
  <2>1. ASSUME NEW w \in BOOLEAN, Press(w) PROVE TypeOK'
    BY <2>1 DEF Press, EmptyTheSeat, RecordDebt, OwedToBackend
  <2>2. ASSUME NEW w \in BOOLEAN, ExitSeated(w) PROVE TypeOK'
    BY <2>2 DEF ExitSeated, EmptyTheSeat, RecordDebt, OwedToBackend
  <2>3. ASSUME NEW w \in BOOLEAN, PressReplies(w) PROVE TypeOK'
    BY <2>3 DEF PressReplies, ClearDebt, AfterPress
  <2>4. CASE PressFails BY <2>4 DEF PressFails, AfterPress, Calls
  <2>5. CASE EmptySeatAsks BY <2>5 DEF EmptySeatAsks
  <2>6. CASE EmptySeatFails BY <2>6 DEF EmptySeatFails
  <2>7. ASSUME NEW w \in BOOLEAN, EmptySeatReplies(w) PROVE TypeOK'
    BY <2>7 DEF EmptySeatReplies, ClearDebt
  <2>8. ASSUME NEW d \in Drivers, SignInStarts(d) PROVE TypeOK'
    BY <2>8 DEF SignInStarts, SettlesFirst, SignIns
  <2>9. ASSUME NEW w \in BOOLEAN, SignInSettled(w) PROVE TypeOK'
    BY <2>9 DEF SignInSettled, ClearDebt, SignIns, Calls
  <2>10. ASSUME NEW w \in BOOLEAN, ExitAbandonsSignIn(w) PROVE TypeOK'
    BY <2>10 DEF ExitAbandonsSignIn, RecordDebt
  <2>11. CASE SignInUnsettled BY <2>11 DEF SignInUnsettled
  <2>12. CASE SeatCheckedInDriver BY <2>12 DEF SeatCheckedInDriver, SignIns
  <2>13. CASE CheckInFails BY <2>13 DEF CheckInFails
  <2> QED
    BY <1>5, <2>1, <2>2, <2>3, <2>4, <2>5, <2>6, <2>7, <2>8, <2>9, <2>10, <2>11,
       <2>12, <2>13 DEF Console
<1>6. CASE Backend
  <2>1. ASSUME NEW d \in Drivers, NEW s \in Stints, PhoneCheckIn(d, s) PROVE TypeOK'
    BY <2>1 DEF PhoneCheckIn, ServerCheckIn
  <2>2. CASE SessionEnds BY <2>2 DEF SessionEnds
  <2>3. ASSUME NEW t \in Tasks, CheckoutServed(t) PROVE TypeOK'
    BY <2>3 DEF CheckoutServed, Calls
  <2>4. ASSUME NEW s \in Stints, CheckInServed(s) PROVE TypeOK'
    <3>1. signIn' \in SignIns
      BY <2>4 DEF CheckInServed, SignIns
    <3>2. open' \in Stints \cup {None} /\ driverOf' \in [Stints -> Drivers \cup {None}]
      BY <2>4 DEF CheckInServed, ServerCheckIn, SignIns
    <3> QED BY <2>4, <3>1, <3>2 DEF CheckInServed
  <2> QED BY <1>6, <2>1, <2>2, <2>3, <2>4 DEF Backend
<1>7. CASE UNCHANGED vars BY <1>7 DEF vars
<1> QED BY <1>1, <1>2, <1>3, <1>4, <1>5, <1>6, <1>7 DEF Next

(* The first answer leaves no lap held.                                    *)
LEMMA Resolved ==
  ASSUME TypeOK, NEW s, ResolveUnresolved(s)
  PROVE  \A l \in Laps : lap'[l].state # "held"
BY DEF ResolveUnresolved

(* A start finds the memory empty, and Stop empties it.                    *)
LEMMA AtRestNext == TypeOK /\ AtRest /\ [Next]_vars => AtRest'
<1> SUFFICES ASSUME TypeOK, AtRest, [Next]_vars PROVE AtRest'
  OBVIOUS
<1> USE DEF AtRest, backend, debt, history, NoPoll, NoCall, NoSignIn
<1>1. CASE Boot BY <1>1 DEF Boot
<1>2. CASE Stop BY <1>2 DEF Stop
<1>3. ASSUME NEW l \in Laps, Capture(l) PROVE AtRest'
  BY <1>3 DEF Capture
<1>4. CASE Poll
  <2>1. CASE PollAsks BY <2>1 DEF PollAsks
  <2>2. CASE PollServed BY <2>2 DEF PollServed
  <2>3. CASE PollFails BY <2>3 DEF PollFails
  <2>4. CASE PollDropped BY <2>4 DEF PollDropped
  <2>5. CASE PollApplied BY <2>5 DEF PollApplied
  <2>6. CASE PollSettles BY <2>6 DEF PollSettles, PollMaySettle
  <2>7. CASE PollSettleFails BY <2>7 DEF PollSettleFails
  <2>8. ASSUME NEW w \in BOOLEAN, PollSettleReplies(w) PROVE AtRest'
    BY <2>8 DEF PollSettleReplies, ClearDebt
  <2> QED BY <1>4, <2>1, <2>2, <2>3, <2>4, <2>5, <2>6, <2>7, <2>8 DEF Poll
<1>5. CASE Console
  <2>1. ASSUME NEW w \in BOOLEAN, Press(w) PROVE AtRest'
    BY <2>1 DEF Press, EmptyTheSeat, RecordDebt, OwedToBackend
  <2>2. ASSUME NEW w \in BOOLEAN, ExitSeated(w) PROVE AtRest'
    BY <2>2 DEF ExitSeated, EmptyTheSeat, RecordDebt, OwedToBackend
  <2>3. ASSUME NEW w \in BOOLEAN, PressReplies(w) PROVE AtRest'
    BY <2>3 DEF PressReplies, ClearDebt, AfterPress
  <2>4. CASE PressFails BY <2>4 DEF PressFails, AfterPress
  <2>5. CASE EmptySeatAsks BY <2>5 DEF EmptySeatAsks
  <2>6. CASE EmptySeatFails BY <2>6 DEF EmptySeatFails
  <2>7. ASSUME NEW w \in BOOLEAN, EmptySeatReplies(w) PROVE AtRest'
    BY <2>7 DEF EmptySeatReplies, ClearDebt
  <2>8. ASSUME NEW d \in Drivers, SignInStarts(d) PROVE AtRest'
    BY <2>8 DEF SignInStarts, SettlesFirst
  <2>9. ASSUME NEW w \in BOOLEAN, SignInSettled(w) PROVE AtRest'
    BY <2>9 DEF SignInSettled, ClearDebt
  <2>10. ASSUME NEW w \in BOOLEAN, ExitAbandonsSignIn(w) PROVE AtRest'
    BY <2>10 DEF ExitAbandonsSignIn, RecordDebt
  <2>11. CASE SignInUnsettled BY <2>11 DEF SignInUnsettled
  <2>12. CASE SeatCheckedInDriver BY <2>12 DEF SeatCheckedInDriver
  <2>13. CASE CheckInFails BY <2>13 DEF CheckInFails
  <2> QED
    BY <1>5, <2>1, <2>2, <2>3, <2>4, <2>5, <2>6, <2>7,
       <2>8, <2>9, <2>10, <2>11, <2>12, <2>13 DEF Console
<1>6. CASE Backend
  <2>1. ASSUME NEW d \in Drivers, NEW s \in Stints, PhoneCheckIn(d, s) PROVE AtRest'
    BY <2>1 DEF PhoneCheckIn, ServerCheckIn
  <2>2. CASE SessionEnds BY <2>2 DEF SessionEnds
  <2>3. ASSUME NEW t \in Tasks, CheckoutServed(t) PROVE AtRest'
    BY <2>3 DEF CheckoutServed
  <2>4. ASSUME NEW s \in Stints, CheckInServed(s) PROVE AtRest'
    BY <2>4 DEF CheckInServed, ServerCheckIn
  <2> QED BY <1>6, <2>1, <2>2, <2>3, <2>4 DEF Backend
<1>7. CASE UNCHANGED vars BY <1>7 DEF vars
<1> QED BY <1>1, <1>2, <1>3, <1>4, <1>5, <1>6, <1>7 DEF Next

(* Names only ever come from the row inserted, or from another name.       *)
LEMMA KnownNext == TypeOK /\ Known /\ OneThingAtATime /\ [Next]_vars => Known'
<1> SUFFICES ASSUME TypeOK, Known, OneThingAtATime, [Next]_vars PROVE Known'
  OBVIOUS
<1> USE SeatAssumption DEF Known, Begun, TypeOK, backend, debt, history, NoPoll, NoCall,
    NoSignIn, NoLap
<1>1. CASE Boot BY <1>1 DEF Boot
<1>2. CASE Stop BY <1>2 DEF Stop
<1>3. ASSUME NEW l \in Laps, Capture(l) PROVE Known'
  BY <1>3 DEF Capture
<1>4. CASE Poll
  <2>1. CASE PollAsks BY <2>1 DEF PollAsks
  <2>2. CASE PollServed BY <2>2 DEF PollServed
  <2>3. CASE PollFails BY <2>3 DEF PollFails
  <2>4. CASE PollDropped BY <2>4 DEF PollDropped
  <2>5. CASE PollApplied
    <3>1. Adopted(poll.answer) \in {None, poll.answer}
      BY DEF Adopted
    <3> QED BY <2>5, <3>1 DEF PollApplied
  <2>6. CASE PollSettles BY <2>6 DEF PollSettles, PollMaySettle
  <2>7. CASE PollSettleFails BY <2>7 DEF PollSettleFails
  <2>8. ASSUME NEW w \in BOOLEAN, PollSettleReplies(w) PROVE Known'
    BY <2>8 DEF PollSettleReplies, ClearDebt
  <2> QED BY <1>4, <2>1, <2>2, <2>3, <2>4, <2>5, <2>6, <2>7, <2>8 DEF Poll
<1>5. CASE Console
  <2>1. ASSUME NEW w \in BOOLEAN, Press(w) PROVE Known'
    BY <2>1 DEF Press, EmptyTheSeat, RecordDebt, OwedToBackend
  <2>2. ASSUME NEW w \in BOOLEAN, ExitSeated(w) PROVE Known'
    BY <2>2 DEF ExitSeated, EmptyTheSeat, RecordDebt, OwedToBackend
  <2>3. ASSUME NEW w \in BOOLEAN, PressReplies(w) PROVE Known'
    <3>1. {pending', durablePending'} \subseteq {None, pending, durablePending}
      BY <2>3 DEF PressReplies, ClearDebt
    <3>2. \A t \in Tasks : call'[t] \in {call[t], NoCall}
      BY <2>3 DEF PressReplies, Tasks
    <3> QED BY <2>3, <3>1, <3>2 DEF PressReplies
  <2>4. CASE PressFails
    <3>1. \A t \in Tasks : call'[t] \in {call[t], NoCall}
      BY <2>4 DEF PressFails, Tasks
    <3>2. promised' \subseteq Begun
      BY <2>4 DEF PressFails, Tasks, Calls
    <3> QED BY <2>4, <3>1, <3>2 DEF PressFails
  <2>5. CASE EmptySeatAsks BY <2>5 DEF EmptySeatAsks
  <2>6. CASE EmptySeatFails BY <2>6 DEF EmptySeatFails
  <2>7. ASSUME NEW w \in BOOLEAN, EmptySeatReplies(w) PROVE Known'
    <3>1. {pending', durablePending'} \subseteq {None, pending, durablePending}
      BY <2>7 DEF EmptySeatReplies, ClearDebt
    <3>2. \A t \in Tasks : call'[t] \in {call[t], NoCall}
      BY <2>7 DEF EmptySeatReplies, Tasks
    <3> QED BY <2>7, <3>1, <3>2 DEF EmptySeatReplies
  <2>8. ASSUME NEW d \in Drivers, SignInStarts(d) PROVE Known'
    BY <2>8 DEF SignInStarts, SettlesFirst
  <2>9. ASSUME NEW w \in BOOLEAN, SignInSettled(w) PROVE Known'
    BY <2>9 DEF SignInSettled, ClearDebt
  <2>10. ASSUME NEW w \in BOOLEAN, ExitAbandonsSignIn(w) PROVE Known'
    BY <2>10 DEF ExitAbandonsSignIn, RecordDebt
  <2>11. CASE SignInUnsettled BY <2>11 DEF SignInUnsettled
  <2>12. CASE SeatCheckedInDriver BY <2>12 DEF SeatCheckedInDriver
  <2>13. CASE CheckInFails BY <2>13 DEF CheckInFails
  <2> QED
    BY <1>5, <2>1, <2>2, <2>3, <2>4, <2>5, <2>6, <2>7,
       <2>8, <2>9, <2>10, <2>11, <2>12, <2>13 DEF Console
<1>6. CASE Backend
  <2>1. ASSUME NEW d \in Drivers, NEW s \in Stints, PhoneCheckIn(d, s) PROVE Known'
    BY <2>1 DEF PhoneCheckIn, ServerCheckIn
  <2>2. CASE SessionEnds BY <2>2 DEF SessionEnds
  <2>3. ASSUME NEW t \in Tasks, CheckoutServed(t) PROVE Known'
    BY <2>3 DEF CheckoutServed
  <2>4. ASSUME NEW s \in Stints, CheckInServed(s) PROVE Known'
    <3>1. Begun \subseteq Begun' /\ open' \in Begun' \cup {None}
      BY <2>4 DEF CheckInServed, ServerCheckIn, Holder, SignIns, OneThingAtATime
    <3>2. s \in Begun' \cup {None}
      BY <2>4 DEF CheckInServed, ServerCheckIn, Holder, SignIns, OneThingAtATime
    <3>3. signIn'.stint = s
      BY <2>4 DEF CheckInServed, SignIns
    <3> QED BY <2>4, <3>1, <3>2, <3>3 DEF CheckInServed
  <2> QED BY <1>6, <2>1, <2>2, <2>3, <2>4 DEF Backend
<1>7. CASE UNCHANGED vars BY <1>7 DEF vars
<1> QED BY <1>1, <1>2, <1>3, <1>4, <1>5, <1>6, <1>7 DEF Next

(* The keyboard task: what each of its steps may assume of the others.     *)
LEMMA OneThingNext == TypeOK /\ AtRest /\ OneThingAtATime /\ [Next]_vars => OneThingAtATime'
<1> SUFFICES ASSUME TypeOK, AtRest, OneThingAtATime, [Next]_vars PROVE OneThingAtATime'
  OBVIOUS
<1> USE SeatAssumption DEF OneThingAtATime, AtRest, TypeOK, Calls, SignIns, Tasks, NoCall,
    NoPoll, NoSignIn, backend, debt, history
<1>1. CASE Boot BY <1>1 DEF Boot
<1>2. CASE Stop BY <1>2 DEF Stop
<1>3. ASSUME NEW l \in Laps, Capture(l) PROVE OneThingAtATime'
  BY <1>3 DEF Capture
<1>4. CASE Poll
  <2>1. CASE PollAsks BY <2>1 DEF PollAsks
  <2>2. CASE PollServed BY <2>2 DEF PollServed
  <2>3. CASE PollFails BY <2>3 DEF PollFails
  <2>4. CASE PollDropped BY <2>4 DEF PollDropped
  <2>5. CASE PollApplied BY <2>5 DEF PollApplied, Adopted, ResolveUnresolved
  <2>6. CASE PollSettles BY <2>6 DEF PollSettles, PollMaySettle
  <2>7. CASE PollSettleFails BY <2>7 DEF PollSettleFails
  <2>8. ASSUME NEW w \in BOOLEAN, PollSettleReplies(w) PROVE OneThingAtATime'
    BY <2>8 DEF PollSettleReplies, ClearDebt
  <2> QED BY <1>4, <2>1, <2>2, <2>3, <2>4, <2>5, <2>6, <2>7, <2>8 DEF Poll
<1>5. CASE Console
  <2>1. ASSUME NEW w \in BOOLEAN, Press(w) PROVE OneThingAtATime'
    BY <2>1 DEF Press, EmptyTheSeat, RecordDebt, OwedToBackend
  <2>2. ASSUME NEW w \in BOOLEAN, ExitSeated(w) PROVE OneThingAtATime'
    BY <2>2 DEF ExitSeated, EmptyTheSeat, RecordDebt, OwedToBackend
  <2>3. ASSUME NEW w \in BOOLEAN, PressReplies(w) PROVE OneThingAtATime'
    BY <2>3 DEF PressReplies, ClearDebt, AfterPress
  <2>4. CASE PressFails BY <2>4 DEF PressFails, AfterPress
  <2>5. CASE EmptySeatAsks BY <2>5 DEF EmptySeatAsks
  <2>6. CASE EmptySeatFails BY <2>6 DEF EmptySeatFails
  <2>7. ASSUME NEW w \in BOOLEAN, EmptySeatReplies(w) PROVE OneThingAtATime'
    BY <2>7 DEF EmptySeatReplies, ClearDebt
  <2>8. ASSUME NEW d \in Drivers, SignInStarts(d) PROVE OneThingAtATime'
    <3>1. CASE pending = None
      BY <2>8, <3>1 DEF SignInStarts, SettlesFirst
    <3>2. CASE pending # None
      BY <2>8, <3>2 DEF SignInStarts, SettlesFirst
    <3> QED BY <3>1, <3>2
  <2>9. ASSUME NEW w \in BOOLEAN, SignInSettled(w) PROVE OneThingAtATime'
    BY <2>9 DEF SignInSettled, ClearDebt
  <2>10. ASSUME NEW w \in BOOLEAN, ExitAbandonsSignIn(w) PROVE OneThingAtATime'
    BY <2>10 DEF ExitAbandonsSignIn, RecordDebt
  <2>11. CASE SignInUnsettled BY <2>11 DEF SignInUnsettled
  <2>12. CASE SeatCheckedInDriver BY <2>12 DEF SeatCheckedInDriver
  <2>13. CASE CheckInFails BY <2>13 DEF CheckInFails
  <2> QED
    BY <1>5, <2>1, <2>2, <2>3, <2>4, <2>5, <2>6, <2>7,
       <2>8, <2>9, <2>10, <2>11, <2>12, <2>13 DEF Console
<1>6. CASE Backend
  <2>1. ASSUME NEW d \in Drivers, NEW s \in Stints, PhoneCheckIn(d, s) PROVE
      OneThingAtATime'
    BY <2>1 DEF PhoneCheckIn, ServerCheckIn
  <2>2. CASE SessionEnds BY <2>2 DEF SessionEnds
  <2>3. ASSUME NEW t \in Tasks, CheckoutServed(t) PROVE OneThingAtATime'
    BY <2>3 DEF CheckoutServed
  <2>4. ASSUME NEW s \in Stints, CheckInServed(s) PROVE OneThingAtATime'
    BY <2>4 DEF CheckInServed, ServerCheckIn
  <2> QED BY <1>6, <2>1, <2>2, <2>3, <2>4 DEF Backend
<1>7. CASE UNCHANGED vars BY <1>7 DEF vars
<1> QED BY <1>1, <1>2, <1>3, <1>4, <1>5, <1>6, <1>7 DEF Next

(* A served checkout stays true of its stint: rows are never reopened.     *)
LEMMA ServedNext ==
  TypeOK /\ Known /\ ServedMeansClosed /\ [Next]_vars
    => ServedMeansClosed'
<1> SUFFICES ASSUME TypeOK, Known, ServedMeansClosed, [Next]_vars PROVE ServedMeansClosed'
  OBVIOUS
<1> USE SeatAssumption DEF ServedMeansClosed, TypeOK, Known, Begun, Calls, NoCall,
    backend, debt, history
<1>1. CASE Boot BY <1>1 DEF Boot
<1>2. CASE Stop BY <1>2 DEF Stop
<1>3. ASSUME NEW l \in Laps, Capture(l) PROVE ServedMeansClosed'
  BY <1>3 DEF Capture
<1>4. CASE Poll
  <2>1. CASE PollAsks BY <2>1 DEF PollAsks
  <2>2. CASE PollServed BY <2>2 DEF PollServed
  <2>3. CASE PollFails BY <2>3 DEF PollFails
  <2>4. CASE PollDropped BY <2>4 DEF PollDropped
  <2>5. CASE PollApplied BY <2>5 DEF PollApplied, Adopted, ResolveUnresolved
  <2>6. CASE PollSettles BY <2>6 DEF PollSettles, PollMaySettle
  <2>7. CASE PollSettleFails BY <2>7 DEF PollSettleFails
  <2>8. ASSUME NEW w \in BOOLEAN, PollSettleReplies(w) PROVE ServedMeansClosed'
    BY <2>8 DEF PollSettleReplies, ClearDebt
  <2> QED BY <1>4, <2>1, <2>2, <2>3, <2>4, <2>5, <2>6, <2>7, <2>8 DEF Poll
<1>5. CASE Console
  <2>1. ASSUME NEW w \in BOOLEAN, Press(w) PROVE ServedMeansClosed'
    BY <2>1 DEF Press, EmptyTheSeat, RecordDebt, OwedToBackend
  <2>2. ASSUME NEW w \in BOOLEAN, ExitSeated(w) PROVE ServedMeansClosed'
    BY <2>2 DEF ExitSeated, EmptyTheSeat, RecordDebt, OwedToBackend
  <2>3. ASSUME NEW w \in BOOLEAN, PressReplies(w) PROVE ServedMeansClosed'
    BY <2>3 DEF PressReplies, ClearDebt, AfterPress
  <2>4. CASE PressFails BY <2>4 DEF PressFails, AfterPress
  <2>5. CASE EmptySeatAsks BY <2>5 DEF EmptySeatAsks
  <2>6. CASE EmptySeatFails BY <2>6 DEF EmptySeatFails
  <2>7. ASSUME NEW w \in BOOLEAN, EmptySeatReplies(w) PROVE ServedMeansClosed'
    BY <2>7 DEF EmptySeatReplies, ClearDebt
  <2>8. ASSUME NEW d \in Drivers, SignInStarts(d) PROVE ServedMeansClosed'
    BY <2>8 DEF SignInStarts, SettlesFirst
  <2>9. ASSUME NEW w \in BOOLEAN, SignInSettled(w) PROVE ServedMeansClosed'
    BY <2>9 DEF SignInSettled, ClearDebt
  <2>10. ASSUME NEW w \in BOOLEAN, ExitAbandonsSignIn(w) PROVE ServedMeansClosed'
    BY <2>10 DEF ExitAbandonsSignIn, RecordDebt
  <2>11. CASE SignInUnsettled BY <2>11 DEF SignInUnsettled
  <2>12. CASE SeatCheckedInDriver BY <2>12 DEF SeatCheckedInDriver
  <2>13. CASE CheckInFails BY <2>13 DEF CheckInFails
  <2> QED
    BY <1>5, <2>1, <2>2, <2>3, <2>4, <2>5, <2>6, <2>7,
       <2>8, <2>9, <2>10, <2>11, <2>12, <2>13 DEF Console
<1>6. CASE Backend
  <2>1. ASSUME NEW d \in Drivers, NEW s \in Stints, PhoneCheckIn(d, s) PROVE
      ServedMeansClosed'
    BY <2>1 DEF PhoneCheckIn, ServerCheckIn
  <2>2. CASE SessionEnds BY <2>2 DEF SessionEnds
  <2>3. ASSUME NEW t \in Tasks, CheckoutServed(t) PROVE ServedMeansClosed'
    BY <2>3 DEF CheckoutServed
  <2>4. ASSUME NEW s \in Stints, CheckInServed(s) PROVE ServedMeansClosed'
    BY <2>4 DEF CheckInServed, ServerCheckIn
  <2> QED BY <1>6, <2>1, <2>2, <2>3, <2>4 DEF Backend
<1>7. CASE UNCHANGED vars BY <1>7 DEF vars
<1> QED BY <1>1, <1>2, <1>3, <1>4, <1>5, <1>6, <1>7 DEF Next

(* Every write of the debt to memory is matched by the one to disk.        *)
LEMMA DurableDebtNext == TypeOK /\ DurableDebt /\ [Next]_vars => DurableDebt'
<1> SUFFICES ASSUME TypeOK, DurableDebt, [Next]_vars PROVE DurableDebt'
  OBVIOUS
<1> USE SeatAssumption DEF DurableDebt, TypeOK, backend, debt, history
<1>1. CASE Boot BY <1>1 DEF Boot
<1>2. CASE Stop BY <1>2 DEF Stop
<1>3. ASSUME NEW l \in Laps, Capture(l) PROVE DurableDebt'
  BY <1>3 DEF Capture
<1>4. CASE Poll
  <2>1. CASE PollAsks BY <2>1 DEF PollAsks
  <2>2. CASE PollServed BY <2>2 DEF PollServed
  <2>3. CASE PollFails BY <2>3 DEF PollFails
  <2>4. CASE PollDropped BY <2>4 DEF PollDropped
  <2>5. CASE PollApplied BY <2>5 DEF PollApplied, Adopted, ResolveUnresolved
  <2>6. CASE PollSettles BY <2>6 DEF PollSettles, PollMaySettle
  <2>7. CASE PollSettleFails BY <2>7 DEF PollSettleFails
  <2>8. ASSUME NEW w \in BOOLEAN, PollSettleReplies(w) PROVE DurableDebt'
    BY <2>8 DEF PollSettleReplies, ClearDebt
  <2> QED BY <1>4, <2>1, <2>2, <2>3, <2>4, <2>5, <2>6, <2>7, <2>8 DEF Poll
<1>5. CASE Console
  <2>1. ASSUME NEW w \in BOOLEAN, Press(w) PROVE DurableDebt'
    BY <2>1 DEF Press, EmptyTheSeat, RecordDebt, OwedToBackend
  <2>2. ASSUME NEW w \in BOOLEAN, ExitSeated(w) PROVE DurableDebt'
    BY <2>2 DEF ExitSeated, EmptyTheSeat, RecordDebt, OwedToBackend
  <2>3. ASSUME NEW w \in BOOLEAN, PressReplies(w) PROVE DurableDebt'
    BY <2>3 DEF PressReplies, ClearDebt, AfterPress
  <2>4. CASE PressFails BY <2>4 DEF PressFails, AfterPress
  <2>5. CASE EmptySeatAsks BY <2>5 DEF EmptySeatAsks
  <2>6. CASE EmptySeatFails BY <2>6 DEF EmptySeatFails
  <2>7. ASSUME NEW w \in BOOLEAN, EmptySeatReplies(w) PROVE DurableDebt'
    BY <2>7 DEF EmptySeatReplies, ClearDebt
  <2>8. ASSUME NEW d \in Drivers, SignInStarts(d) PROVE DurableDebt'
    BY <2>8 DEF SignInStarts, SettlesFirst
  <2>9. ASSUME NEW w \in BOOLEAN, SignInSettled(w) PROVE DurableDebt'
    BY <2>9 DEF SignInSettled, ClearDebt
  <2>10. ASSUME NEW w \in BOOLEAN, ExitAbandonsSignIn(w) PROVE DurableDebt'
    BY <2>10 DEF ExitAbandonsSignIn, RecordDebt
  <2>11. CASE SignInUnsettled BY <2>11 DEF SignInUnsettled
  <2>12. CASE SeatCheckedInDriver BY <2>12 DEF SeatCheckedInDriver
  <2>13. CASE CheckInFails BY <2>13 DEF CheckInFails
  <2> QED
    BY <1>5, <2>1, <2>2, <2>3, <2>4, <2>5, <2>6, <2>7,
       <2>8, <2>9, <2>10, <2>11, <2>12, <2>13 DEF Console
<1>6. CASE Backend
  <2>1. ASSUME NEW d \in Drivers, NEW s \in Stints, PhoneCheckIn(d, s) PROVE DurableDebt'
    BY <2>1 DEF PhoneCheckIn, ServerCheckIn
  <2>2. CASE SessionEnds BY <2>2 DEF SessionEnds
  <2>3. ASSUME NEW t \in Tasks, CheckoutServed(t) PROVE DurableDebt'
    BY <2>3 DEF CheckoutServed
  <2>4. ASSUME NEW s \in Stints, CheckInServed(s) PROVE DurableDebt'
    BY <2>4 DEF CheckInServed, ServerCheckIn
  <2> QED BY <1>6, <2>1, <2>2, <2>3, <2>4 DEF Backend
<1>7. CASE UNCHANGED vars BY <1>7 DEF vars
<1> QED BY <1>1, <1>2, <1>3, <1>4, <1>5, <1>6, <1>7 DEF Next

(* A debt is cleared only for a stint the backend has closed.              *)
LEMMA SignedOutIsOwedNext ==
  TypeOK /\ AtRest /\ Known /\ OneThingAtATime /\ ServedMeansClosed /\ SignedOutIsOwed
  /\ [Next]_vars
    => SignedOutIsOwed'
<1> SUFFICES ASSUME TypeOK, AtRest, Known, OneThingAtATime, ServedMeansClosed,
    SignedOutIsOwed, [Next]_vars PROVE SignedOutIsOwed'
  OBVIOUS
<1> USE SeatAssumption DEF SignedOutIsOwed, TypeOK, AtRest, Known, Begun, OneThingAtATime,
    ServedMeansClosed, Calls, SignIns, Tasks, NoCall, NoSignIn, backend, debt, history
<1>1. CASE Boot BY <1>1 DEF Boot
<1>2. CASE Stop BY <1>2 DEF Stop
<1>3. ASSUME NEW l \in Laps, Capture(l) PROVE SignedOutIsOwed'
  BY <1>3 DEF Capture
<1>4. CASE Poll
  <2>1. CASE PollAsks BY <2>1 DEF PollAsks
  <2>2. CASE PollServed BY <2>2 DEF PollServed
  <2>3. CASE PollFails BY <2>3 DEF PollFails
  <2>4. CASE PollDropped BY <2>4 DEF PollDropped
  <2>5. CASE PollApplied BY <2>5 DEF PollApplied, Adopted, ResolveUnresolved
  <2>6. CASE PollSettles BY <2>6 DEF PollSettles, PollMaySettle
  <2>7. CASE PollSettleFails BY <2>7 DEF PollSettleFails
  <2>8. ASSUME NEW w \in BOOLEAN, PollSettleReplies(w) PROVE SignedOutIsOwed'
    BY <2>8 DEF PollSettleReplies, ClearDebt
  <2> QED BY <1>4, <2>1, <2>2, <2>3, <2>4, <2>5, <2>6, <2>7, <2>8 DEF Poll
<1>5. CASE Console
  <2>1. ASSUME NEW w \in BOOLEAN, Press(w) PROVE SignedOutIsOwed'
    BY <2>1 DEF Press, EmptyTheSeat, RecordDebt, OwedToBackend
  <2>2. ASSUME NEW w \in BOOLEAN, ExitSeated(w) PROVE SignedOutIsOwed'
    BY <2>2 DEF ExitSeated, EmptyTheSeat, RecordDebt, OwedToBackend
  <2>3. ASSUME NEW w \in BOOLEAN, PressReplies(w) PROVE SignedOutIsOwed'
    BY <2>3 DEF PressReplies, ClearDebt, AfterPress
  <2>4. CASE PressFails BY <2>4 DEF PressFails, AfterPress
  <2>5. CASE EmptySeatAsks BY <2>5 DEF EmptySeatAsks
  <2>6. CASE EmptySeatFails BY <2>6 DEF EmptySeatFails
  <2>7. ASSUME NEW w \in BOOLEAN, EmptySeatReplies(w) PROVE SignedOutIsOwed'
    BY <2>7 DEF EmptySeatReplies, ClearDebt
  <2>8. ASSUME NEW d \in Drivers, SignInStarts(d) PROVE SignedOutIsOwed'
    BY <2>8 DEF SignInStarts, SettlesFirst
  <2>9. ASSUME NEW w \in BOOLEAN, SignInSettled(w) PROVE SignedOutIsOwed'
    BY <2>9 DEF SignInSettled, ClearDebt
  <2>10. ASSUME NEW w \in BOOLEAN, ExitAbandonsSignIn(w) PROVE SignedOutIsOwed'
    BY <2>10 DEF ExitAbandonsSignIn, RecordDebt
  <2>11. CASE SignInUnsettled BY <2>11 DEF SignInUnsettled
  <2>12. CASE SeatCheckedInDriver BY <2>12 DEF SeatCheckedInDriver
  <2>13. CASE CheckInFails BY <2>13 DEF CheckInFails
  <2> QED
    BY <1>5, <2>1, <2>2, <2>3, <2>4, <2>5, <2>6, <2>7,
       <2>8, <2>9, <2>10, <2>11, <2>12, <2>13 DEF Console
<1>6. CASE Backend
  <2>1. ASSUME NEW d \in Drivers, NEW s \in Stints, PhoneCheckIn(d, s) PROVE
      SignedOutIsOwed'
    BY <2>1 DEF PhoneCheckIn, ServerCheckIn
  <2>2. CASE SessionEnds BY <2>2 DEF SessionEnds
  <2>3. ASSUME NEW t \in Tasks, CheckoutServed(t) PROVE SignedOutIsOwed'
    BY <2>3 DEF CheckoutServed
  <2>4. ASSUME NEW s \in Stints, CheckInServed(s) PROVE SignedOutIsOwed'
    BY <2>4 DEF CheckInServed, ServerCheckIn
  <2> QED BY <1>6, <2>1, <2>2, <2>3, <2>4 DEF Backend
<1>7. CASE UNCHANGED vars BY <1>7 DEF vars
<1> QED BY <1>1, <1>2, <1>3, <1>4, <1>5, <1>6, <1>7 DEF Next

(* While an assured stint is open nothing displaces it unseen.             *)
LEMMA NobodyElseNext ==
  TypeOK /\ AtRest /\ Known /\ OneThingAtATime /\ ServedMeansClosed /\ SignedOutIsOwed
  /\ TombstoneHolds /\ NobodyElseIsSeated /\ [Next]_vars
    => NobodyElseIsSeated'
<1> SUFFICES ASSUME TypeOK, AtRest, Known, OneThingAtATime, ServedMeansClosed,
    SignedOutIsOwed, TombstoneHolds, NobodyElseIsSeated, [Next]_vars PROVE
    NobodyElseIsSeated'
  OBVIOUS
<1> USE SeatAssumption DEF NobodyElseIsSeated, Assured, TypeOK, AtRest, Known, Begun,
    OneThingAtATime, ServedMeansClosed, Calls, Polls, SignIns, Tasks, NoCall, NoPoll,
    NoSignIn, backend, debt, history
<1>1. CASE Boot BY <1>1 DEF Boot
<1>2. CASE Stop BY <1>2 DEF Stop
<1>3. ASSUME NEW l \in Laps, Capture(l) PROVE NobodyElseIsSeated'
  BY <1>3 DEF Capture
<1>4. CASE Poll
  <2>1. CASE PollAsks BY <2>1 DEF PollAsks
  <2>2. CASE PollServed BY <2>2 DEF PollServed
  <2>3. CASE PollFails BY <2>3 DEF PollFails
  <2>4. CASE PollDropped BY <2>4 DEF PollDropped
  <2>5. CASE PollApplied BY <2>5 DEF PollApplied, Adopted, ResolveUnresolved
  <2>6. CASE PollSettles BY <2>6 DEF PollSettles, PollMaySettle
  <2>7. CASE PollSettleFails BY <2>7 DEF PollSettleFails
  <2>8. ASSUME NEW w \in BOOLEAN, PollSettleReplies(w) PROVE NobodyElseIsSeated'
    BY <2>8 DEF PollSettleReplies, ClearDebt
  <2> QED BY <1>4, <2>1, <2>2, <2>3, <2>4, <2>5, <2>6, <2>7, <2>8 DEF Poll
<1>5. CASE Console
  <2>1. ASSUME NEW w \in BOOLEAN, Press(w) PROVE NobodyElseIsSeated'
    <3>1. call'["console"].owes \in {None, Unnamed, seat, pending}
      BY <2>1 DEF Press, EmptyTheSeat, RecordDebt, OwedToBackend
    <3>2. call'["console"].at = "wire"
      BY <2>1 DEF Press, EmptyTheSeat
    <3>3. {pending', durablePending'} \subseteq {seat, pending, durablePending}
      BY <2>1 DEF Press, EmptyTheSeat, RecordDebt
    <3>4. \A s \in Stints : s \in Assured' => s \in Assured \cup {seat, pending}
      BY <2>1, <3>1 DEF Press
    <3>5. seat' = None /\ signIn.at = "none"
      BY <2>1 DEF Press, EmptyTheSeat
    <3> QED BY <2>1, <3>2, <3>3, <3>4, <3>5 DEF Press
  <2>2. ASSUME NEW w \in BOOLEAN, ExitSeated(w) PROVE NobodyElseIsSeated'
    BY <2>2 DEF ExitSeated, EmptyTheSeat, RecordDebt, OwedToBackend
  <2>3. ASSUME NEW w \in BOOLEAN, PressReplies(w) PROVE NobodyElseIsSeated'
    <3>1. {pending', durablePending'} \subseteq {None, pending, durablePending}
      BY <2>3 DEF PressReplies, ClearDebt
    <3>2. call'["console"] = NoCall /\ console' \in {"closing", "idle"}
      BY <2>3 DEF PressReplies, AfterPress
    <3> QED BY <2>3, <3>1, <3>2 DEF PressReplies
  <2>4. CASE PressFails BY <2>4 DEF PressFails, AfterPress
  <2>5. CASE EmptySeatAsks BY <2>5 DEF EmptySeatAsks
  <2>6. CASE EmptySeatFails BY <2>6 DEF EmptySeatFails
  <2>7. ASSUME NEW w \in BOOLEAN, EmptySeatReplies(w) PROVE NobodyElseIsSeated'
    BY <2>7 DEF EmptySeatReplies, ClearDebt
  <2>8. ASSUME NEW d \in Drivers, SignInStarts(d) PROVE NobodyElseIsSeated'
    BY <2>8 DEF SignInStarts, SettlesFirst
  <2>9. ASSUME NEW w \in BOOLEAN, SignInSettled(w) PROVE NobodyElseIsSeated'
    BY <2>9 DEF SignInSettled, ClearDebt
  <2>10. ASSUME NEW w \in BOOLEAN, ExitAbandonsSignIn(w) PROVE NobodyElseIsSeated'
    BY <2>10 DEF ExitAbandonsSignIn, RecordDebt
  <2>11. CASE SignInUnsettled BY <2>11 DEF SignInUnsettled
  <2>12. CASE SeatCheckedInDriver BY <2>12 DEF SeatCheckedInDriver
  <2>13. CASE CheckInFails BY <2>13 DEF CheckInFails
  <2> QED
    BY <1>5, <2>1, <2>2, <2>3, <2>4, <2>5, <2>6, <2>7,
       <2>8, <2>9, <2>10, <2>11, <2>12, <2>13 DEF Console
<1>6. CASE Backend
  <2>1. ASSUME NEW d \in Drivers, NEW s \in Stints, PhoneCheckIn(d, s) PROVE
      NobodyElseIsSeated'
    BY <2>1 DEF PhoneCheckIn, ServerCheckIn
  <2>2. CASE SessionEnds BY <2>2 DEF SessionEnds
  <2>3. ASSUME NEW t \in Tasks, CheckoutServed(t) PROVE NobodyElseIsSeated'
    BY <2>3 DEF CheckoutServed
  <2>4. ASSUME NEW s \in Stints, CheckInServed(s) PROVE NobodyElseIsSeated'
    BY <2>4 DEF CheckInServed, ServerCheckIn
  <2> QED BY <1>6, <2>1, <2>2, <2>3, <2>4 DEF Backend
<1>7. CASE UNCHANGED vars BY <1>7 DEF vars
<1> QED BY <1>1, <1>2, <1>3, <1>4, <1>5, <1>6, <1>7 DEF Next

(* Only the end of the stint, or an unnamed debt, displaces an assured one. *)
LEMMA AssuranceNext ==
  TypeOK /\ AtRest /\ Known /\ OneThingAtATime /\ ServedMeansClosed /\ DurableDebt /\
  NobodyElseIsSeated /\ AssuranceKept /\ [Next]_vars
    => AssuranceKept'
<1> SUFFICES ASSUME TypeOK, AtRest, Known, OneThingAtATime, ServedMeansClosed,
    DurableDebt, NobodyElseIsSeated, AssuranceKept, [Next]_vars PROVE AssuranceKept'
  OBVIOUS
<1> USE SeatAssumption DEF AssuranceKept, NobodyElseIsSeated, DurableDebt, Assured,
    TypeOK, AtRest, Known, Begun, OneThingAtATime, ServedMeansClosed, Calls, Tasks,
    NoCall, backend, debt, history
<1>1. CASE Boot BY <1>1 DEF Boot
<1>2. CASE Stop BY <1>2 DEF Stop
<1>3. ASSUME NEW l \in Laps, Capture(l) PROVE AssuranceKept'
  BY <1>3 DEF Capture
<1>4. CASE Poll
  <2>1. CASE PollAsks BY <2>1 DEF PollAsks
  <2>2. CASE PollServed BY <2>2 DEF PollServed
  <2>3. CASE PollFails BY <2>3 DEF PollFails
  <2>4. CASE PollDropped BY <2>4 DEF PollDropped
  <2>5. CASE PollApplied BY <2>5 DEF PollApplied, Adopted, ResolveUnresolved
  <2>6. CASE PollSettles BY <2>6 DEF PollSettles, PollMaySettle
  <2>7. CASE PollSettleFails BY <2>7 DEF PollSettleFails
  <2>8. ASSUME NEW w \in BOOLEAN, PollSettleReplies(w) PROVE AssuranceKept'
    BY <2>8 DEF PollSettleReplies, ClearDebt
  <2> QED BY <1>4, <2>1, <2>2, <2>3, <2>4, <2>5, <2>6, <2>7, <2>8 DEF Poll
<1>5. CASE Console
  <2>1. ASSUME NEW w \in BOOLEAN, Press(w) PROVE AssuranceKept'
    BY <2>1 DEF Press, EmptyTheSeat, RecordDebt, OwedToBackend
  <2>2. ASSUME NEW w \in BOOLEAN, ExitSeated(w) PROVE AssuranceKept'
    BY <2>2 DEF ExitSeated, EmptyTheSeat, RecordDebt, OwedToBackend
  <2>3. ASSUME NEW w \in BOOLEAN, PressReplies(w) PROVE AssuranceKept'
    BY <2>3 DEF PressReplies, ClearDebt, AfterPress
  <2>4. CASE PressFails BY <2>4 DEF PressFails, AfterPress
  <2>5. CASE EmptySeatAsks BY <2>5 DEF EmptySeatAsks
  <2>6. CASE EmptySeatFails BY <2>6 DEF EmptySeatFails
  <2>7. ASSUME NEW w \in BOOLEAN, EmptySeatReplies(w) PROVE AssuranceKept'
    BY <2>7 DEF EmptySeatReplies, ClearDebt
  <2>8. ASSUME NEW d \in Drivers, SignInStarts(d) PROVE AssuranceKept'
    BY <2>8 DEF SignInStarts, SettlesFirst
  <2>9. ASSUME NEW w \in BOOLEAN, SignInSettled(w) PROVE AssuranceKept'
    BY <2>9 DEF SignInSettled, ClearDebt
  <2>10. ASSUME NEW w \in BOOLEAN, ExitAbandonsSignIn(w) PROVE AssuranceKept'
    BY <2>10 DEF ExitAbandonsSignIn, RecordDebt
  <2>11. CASE SignInUnsettled BY <2>11 DEF SignInUnsettled
  <2>12. CASE SeatCheckedInDriver BY <2>12 DEF SeatCheckedInDriver
  <2>13. CASE CheckInFails BY <2>13 DEF CheckInFails
  <2> QED
    BY <1>5, <2>1, <2>2, <2>3, <2>4, <2>5, <2>6, <2>7,
       <2>8, <2>9, <2>10, <2>11, <2>12, <2>13 DEF Console
<1>6. CASE Backend
  <2>1. ASSUME NEW d \in Drivers, NEW s \in Stints, PhoneCheckIn(d, s) PROVE AssuranceKept'
    BY <2>1 DEF PhoneCheckIn, ServerCheckIn
  <2>2. CASE SessionEnds BY <2>2 DEF SessionEnds
  <2>3. ASSUME NEW t \in Tasks, CheckoutServed(t) PROVE AssuranceKept'
    BY <2>3 DEF CheckoutServed
  <2>4. ASSUME NEW s \in Stints, CheckInServed(s) PROVE AssuranceKept'
    BY <2>4 DEF CheckInServed, ServerCheckIn
  <2> QED BY <1>6, <2>1, <2>2, <2>3, <2>4 DEF Backend
<1>7. CASE UNCHANGED vars BY <1>7 DEF vars
<1> QED BY <1>1, <1>2, <1>3, <1>4, <1>5, <1>6, <1>7 DEF Next

(* The seat changes hands with superseded set, or from the answer itself.  *)
LEMMA FreshAnswerNext == TypeOK /\ Known /\ FreshAnswer /\ [Next]_vars => FreshAnswer'
<1> SUFFICES ASSUME TypeOK, Known, FreshAnswer, [Next]_vars PROVE FreshAnswer'
  OBVIOUS
<1> USE SeatAssumption DEF FreshAnswer, TypeOK, Known, Begun, Polls, NoPoll, backend,
    debt, history
<1>1. CASE Boot BY <1>1 DEF Boot
<1>2. CASE Stop BY <1>2 DEF Stop
<1>3. ASSUME NEW l \in Laps, Capture(l) PROVE FreshAnswer'
  BY <1>3 DEF Capture
<1>4. CASE Poll
  <2>1. CASE PollAsks BY <2>1 DEF PollAsks
  <2>2. CASE PollServed BY <2>2 DEF PollServed
  <2>3. CASE PollFails BY <2>3 DEF PollFails
  <2>4. CASE PollDropped BY <2>4 DEF PollDropped
  <2>5. CASE PollApplied BY <2>5 DEF PollApplied, Adopted, ResolveUnresolved
  <2>6. CASE PollSettles BY <2>6 DEF PollSettles, PollMaySettle
  <2>7. CASE PollSettleFails BY <2>7 DEF PollSettleFails
  <2>8. ASSUME NEW w \in BOOLEAN, PollSettleReplies(w) PROVE FreshAnswer'
    BY <2>8 DEF PollSettleReplies, ClearDebt
  <2> QED BY <1>4, <2>1, <2>2, <2>3, <2>4, <2>5, <2>6, <2>7, <2>8 DEF Poll
<1>5. CASE Console
  <2>1. ASSUME NEW w \in BOOLEAN, Press(w) PROVE FreshAnswer'
    BY <2>1 DEF Press, EmptyTheSeat, RecordDebt, OwedToBackend
  <2>2. ASSUME NEW w \in BOOLEAN, ExitSeated(w) PROVE FreshAnswer'
    BY <2>2 DEF ExitSeated, EmptyTheSeat, RecordDebt, OwedToBackend
  <2>3. ASSUME NEW w \in BOOLEAN, PressReplies(w) PROVE FreshAnswer'
    BY <2>3 DEF PressReplies, ClearDebt, AfterPress
  <2>4. CASE PressFails BY <2>4 DEF PressFails, AfterPress
  <2>5. CASE EmptySeatAsks BY <2>5 DEF EmptySeatAsks
  <2>6. CASE EmptySeatFails BY <2>6 DEF EmptySeatFails
  <2>7. ASSUME NEW w \in BOOLEAN, EmptySeatReplies(w) PROVE FreshAnswer'
    BY <2>7 DEF EmptySeatReplies, ClearDebt
  <2>8. ASSUME NEW d \in Drivers, SignInStarts(d) PROVE FreshAnswer'
    BY <2>8 DEF SignInStarts, SettlesFirst
  <2>9. ASSUME NEW w \in BOOLEAN, SignInSettled(w) PROVE FreshAnswer'
    BY <2>9 DEF SignInSettled, ClearDebt
  <2>10. ASSUME NEW w \in BOOLEAN, ExitAbandonsSignIn(w) PROVE FreshAnswer'
    BY <2>10 DEF ExitAbandonsSignIn, RecordDebt
  <2>11. CASE SignInUnsettled BY <2>11 DEF SignInUnsettled
  <2>12. CASE SeatCheckedInDriver BY <2>12 DEF SeatCheckedInDriver
  <2>13. CASE CheckInFails BY <2>13 DEF CheckInFails
  <2> QED
    BY <1>5, <2>1, <2>2, <2>3, <2>4, <2>5, <2>6, <2>7,
       <2>8, <2>9, <2>10, <2>11, <2>12, <2>13 DEF Console
<1>6. CASE Backend
  <2>1. ASSUME NEW d \in Drivers, NEW s \in Stints, PhoneCheckIn(d, s) PROVE FreshAnswer'
    BY <2>1 DEF PhoneCheckIn, ServerCheckIn
  <2>2. CASE SessionEnds BY <2>2 DEF SessionEnds
  <2>3. ASSUME NEW t \in Tasks, CheckoutServed(t) PROVE FreshAnswer'
    BY <2>3 DEF CheckoutServed
  <2>4. ASSUME NEW s \in Stints, CheckInServed(s) PROVE FreshAnswer'
    BY <2>4 DEF CheckInServed, ServerCheckIn
  <2> QED BY <1>6, <2>1, <2>2, <2>3, <2>4 DEF Backend
<1>7. CASE UNCHANGED vars BY <1>7 DEF vars
<1> QED BY <1>1, <1>2, <1>3, <1>4, <1>5, <1>6, <1>7 DEF Next

(* A poll filters the owed stint out; a check-in starts owing nothing.     *)
LEMMA TombstoneNext ==
  TypeOK /\ AtRest /\ OneThingAtATime /\ TombstoneHolds /\ [Next]_vars
    => TombstoneHolds'
<1> SUFFICES ASSUME TypeOK, AtRest, OneThingAtATime, TombstoneHolds, [Next]_vars PROVE
    TombstoneHolds'
  OBVIOUS
<1> USE SeatAssumption DEF TombstoneHolds, TypeOK, AtRest, OneThingAtATime, backend, debt,
    history
<1>1. CASE Boot BY <1>1 DEF Boot
<1>2. CASE Stop BY <1>2 DEF Stop
<1>3. ASSUME NEW l \in Laps, Capture(l) PROVE TombstoneHolds'
  BY <1>3 DEF Capture
<1>4. CASE Poll
  <2>1. CASE PollAsks BY <2>1 DEF PollAsks
  <2>2. CASE PollServed BY <2>2 DEF PollServed
  <2>3. CASE PollFails BY <2>3 DEF PollFails
  <2>4. CASE PollDropped BY <2>4 DEF PollDropped
  <2>5. CASE PollApplied BY <2>5 DEF PollApplied, Adopted, ResolveUnresolved
  <2>6. CASE PollSettles BY <2>6 DEF PollSettles, PollMaySettle
  <2>7. CASE PollSettleFails BY <2>7 DEF PollSettleFails
  <2>8. ASSUME NEW w \in BOOLEAN, PollSettleReplies(w) PROVE TombstoneHolds'
    BY <2>8 DEF PollSettleReplies, ClearDebt
  <2> QED BY <1>4, <2>1, <2>2, <2>3, <2>4, <2>5, <2>6, <2>7, <2>8 DEF Poll
<1>5. CASE Console
  <2>1. ASSUME NEW w \in BOOLEAN, Press(w) PROVE TombstoneHolds'
    BY <2>1 DEF Press, EmptyTheSeat, RecordDebt, OwedToBackend
  <2>2. ASSUME NEW w \in BOOLEAN, ExitSeated(w) PROVE TombstoneHolds'
    BY <2>2 DEF ExitSeated, EmptyTheSeat, RecordDebt, OwedToBackend
  <2>3. ASSUME NEW w \in BOOLEAN, PressReplies(w) PROVE TombstoneHolds'
    BY <2>3 DEF PressReplies, ClearDebt, AfterPress
  <2>4. CASE PressFails BY <2>4 DEF PressFails, AfterPress
  <2>5. CASE EmptySeatAsks BY <2>5 DEF EmptySeatAsks
  <2>6. CASE EmptySeatFails BY <2>6 DEF EmptySeatFails
  <2>7. ASSUME NEW w \in BOOLEAN, EmptySeatReplies(w) PROVE TombstoneHolds'
    BY <2>7 DEF EmptySeatReplies, ClearDebt
  <2>8. ASSUME NEW d \in Drivers, SignInStarts(d) PROVE TombstoneHolds'
    BY <2>8 DEF SignInStarts, SettlesFirst
  <2>9. ASSUME NEW w \in BOOLEAN, SignInSettled(w) PROVE TombstoneHolds'
    BY <2>9 DEF SignInSettled, ClearDebt
  <2>10. ASSUME NEW w \in BOOLEAN, ExitAbandonsSignIn(w) PROVE TombstoneHolds'
    BY <2>10 DEF ExitAbandonsSignIn, RecordDebt
  <2>11. CASE SignInUnsettled BY <2>11 DEF SignInUnsettled
  <2>12. CASE SeatCheckedInDriver BY <2>12 DEF SeatCheckedInDriver
  <2>13. CASE CheckInFails BY <2>13 DEF CheckInFails
  <2> QED
    BY <1>5, <2>1, <2>2, <2>3, <2>4, <2>5, <2>6, <2>7,
       <2>8, <2>9, <2>10, <2>11, <2>12, <2>13 DEF Console
<1>6. CASE Backend
  <2>1. ASSUME NEW d \in Drivers, NEW s \in Stints, PhoneCheckIn(d, s) PROVE TombstoneHolds'
    BY <2>1 DEF PhoneCheckIn, ServerCheckIn
  <2>2. CASE SessionEnds BY <2>2 DEF SessionEnds
  <2>3. ASSUME NEW t \in Tasks, CheckoutServed(t) PROVE TombstoneHolds'
    BY <2>3 DEF CheckoutServed
  <2>4. ASSUME NEW s \in Stints, CheckInServed(s) PROVE TombstoneHolds'
    BY <2>4 DEF CheckInServed, ServerCheckIn
  <2> QED BY <1>6, <2>1, <2>2, <2>3, <2>4 DEF Backend
<1>7. CASE UNCHANGED vars BY <1>7 DEF vars
<1> QED BY <1>1, <1>2, <1>3, <1>4, <1>5, <1>6, <1>7 DEF Next

(* Walk-up mode: a seat comes from a check-in that owes nothing.           *)
LEMMA SignedOutStaysNext ==
  TypeOK /\ AtRest /\ OneThingAtATime /\ SignedOutIsOwed /\ (WalkUp =>
  SignedOutStaysOut) /\ [Next]_vars
    => (WalkUp => SignedOutStaysOut)'
<1> SUFFICES ASSUME TypeOK, AtRest, OneThingAtATime, SignedOutIsOwed, (WalkUp =>
    SignedOutStaysOut), [Next]_vars PROVE (WalkUp => SignedOutStaysOut)'
  OBVIOUS
<1> USE SeatAssumption DEF SignedOutStaysOut, SignedOutIsOwed, TypeOK, AtRest,
    OneThingAtATime, backend, debt, history
<1>1. CASE Boot BY <1>1 DEF Boot
<1>2. CASE Stop BY <1>2 DEF Stop
<1>3. ASSUME NEW l \in Laps, Capture(l) PROVE (WalkUp => SignedOutStaysOut)'
  BY <1>3 DEF Capture
<1>4. CASE Poll
  <2>1. CASE PollAsks BY <2>1 DEF PollAsks
  <2>2. CASE PollServed BY <2>2 DEF PollServed
  <2>3. CASE PollFails BY <2>3 DEF PollFails
  <2>4. CASE PollDropped BY <2>4 DEF PollDropped
  <2>5. CASE PollApplied BY <2>5 DEF PollApplied, Adopted, ResolveUnresolved
  <2>6. CASE PollSettles BY <2>6 DEF PollSettles, PollMaySettle
  <2>7. CASE PollSettleFails BY <2>7 DEF PollSettleFails
  <2>8. ASSUME NEW w \in BOOLEAN, PollSettleReplies(w) PROVE (WalkUp => SignedOutStaysOut)'
    BY <2>8 DEF PollSettleReplies, ClearDebt
  <2> QED BY <1>4, <2>1, <2>2, <2>3, <2>4, <2>5, <2>6, <2>7, <2>8 DEF Poll
<1>5. CASE Console
  <2>1. ASSUME NEW w \in BOOLEAN, Press(w) PROVE (WalkUp => SignedOutStaysOut)'
    BY <2>1 DEF Press, EmptyTheSeat, RecordDebt, OwedToBackend
  <2>2. ASSUME NEW w \in BOOLEAN, ExitSeated(w) PROVE (WalkUp => SignedOutStaysOut)'
    BY <2>2 DEF ExitSeated, EmptyTheSeat, RecordDebt, OwedToBackend
  <2>3. ASSUME NEW w \in BOOLEAN, PressReplies(w) PROVE (WalkUp => SignedOutStaysOut)'
    BY <2>3 DEF PressReplies, ClearDebt, AfterPress
  <2>4. CASE PressFails BY <2>4 DEF PressFails, AfterPress
  <2>5. CASE EmptySeatAsks BY <2>5 DEF EmptySeatAsks
  <2>6. CASE EmptySeatFails BY <2>6 DEF EmptySeatFails
  <2>7. ASSUME NEW w \in BOOLEAN, EmptySeatReplies(w) PROVE (WalkUp => SignedOutStaysOut)'
    BY <2>7 DEF EmptySeatReplies, ClearDebt
  <2>8. ASSUME NEW d \in Drivers, SignInStarts(d) PROVE (WalkUp => SignedOutStaysOut)'
    BY <2>8 DEF SignInStarts, SettlesFirst
  <2>9. ASSUME NEW w \in BOOLEAN, SignInSettled(w) PROVE (WalkUp => SignedOutStaysOut)'
    BY <2>9 DEF SignInSettled, ClearDebt
  <2>10. ASSUME NEW w \in BOOLEAN, ExitAbandonsSignIn(w) PROVE (WalkUp =>
      SignedOutStaysOut)'
    BY <2>10 DEF ExitAbandonsSignIn, RecordDebt
  <2>11. CASE SignInUnsettled BY <2>11 DEF SignInUnsettled
  <2>12. CASE SeatCheckedInDriver BY <2>12 DEF SeatCheckedInDriver
  <2>13. CASE CheckInFails BY <2>13 DEF CheckInFails
  <2> QED
    BY <1>5, <2>1, <2>2, <2>3, <2>4, <2>5, <2>6, <2>7,
       <2>8, <2>9, <2>10, <2>11, <2>12, <2>13 DEF Console
<1>6. CASE Backend
  <2>1. ASSUME NEW d \in Drivers, NEW s \in Stints, PhoneCheckIn(d, s) PROVE (WalkUp =>
      SignedOutStaysOut)'
    BY <2>1 DEF PhoneCheckIn, ServerCheckIn
  <2>2. CASE SessionEnds BY <2>2 DEF SessionEnds
  <2>3. ASSUME NEW t \in Tasks, CheckoutServed(t) PROVE (WalkUp => SignedOutStaysOut)'
    BY <2>3 DEF CheckoutServed
  <2>4. ASSUME NEW s \in Stints, CheckInServed(s) PROVE (WalkUp => SignedOutStaysOut)'
    BY <2>4 DEF CheckInServed, ServerCheckIn
  <2> QED BY <1>6, <2>1, <2>2, <2>3, <2>4 DEF Backend
<1>7. CASE UNCHANGED vars BY <1>7 DEF vars
<1> QED BY <1>1, <1>2, <1>3, <1>4, <1>5, <1>6, <1>7 DEF Next

(* The first answer resolves every held lap and no later lap is held.      *)
LEMMA HeldNext ==
  TypeOK /\ AtRest /\ NothingHeldAfterFirstPoll /\ [Next]_vars
    => NothingHeldAfterFirstPoll'
<1> SUFFICES ASSUME TypeOK, AtRest, NothingHeldAfterFirstPoll, [Next]_vars PROVE
    NothingHeldAfterFirstPoll'
  OBVIOUS
<1> USE DEF NothingHeldAfterFirstPoll, TypeOK, AtRest, LapRows, backend, debt, history
<1>1. CASE Boot BY <1>1 DEF Boot
<1>2. CASE Stop BY <1>2 DEF Stop
<1>3. ASSUME NEW l \in Laps, Capture(l) PROVE NothingHeldAfterFirstPoll'
  BY <1>3 DEF Capture
<1>4. CASE Poll
  <2>1. CASE PollAsks BY <2>1 DEF PollAsks
  <2>2. CASE PollServed BY <2>2 DEF PollServed
  <2>3. CASE PollFails BY <2>3 DEF PollFails
  <2>4. CASE PollDropped BY <2>4 DEF PollDropped
  <2>5. CASE PollApplied
    <3>1. CASE hasPolled
      BY <2>5, <3>1 DEF PollApplied
    <3>2. CASE ~hasPolled
      BY <2>5, <3>2, Resolved DEF PollApplied
    <3> QED BY <3>1, <3>2
  <2>6. CASE PollSettles BY <2>6 DEF PollSettles, PollMaySettle
  <2>7. CASE PollSettleFails BY <2>7 DEF PollSettleFails
  <2>8. ASSUME NEW w \in BOOLEAN, PollSettleReplies(w) PROVE NothingHeldAfterFirstPoll'
    BY <2>8 DEF PollSettleReplies, ClearDebt
  <2> QED BY <1>4, <2>1, <2>2, <2>3, <2>4, <2>5, <2>6, <2>7, <2>8 DEF Poll
<1>5. CASE Console
  <2>1. ASSUME NEW w \in BOOLEAN, Press(w) PROVE NothingHeldAfterFirstPoll'
    BY <2>1 DEF Press, EmptyTheSeat, RecordDebt, OwedToBackend
  <2>2. ASSUME NEW w \in BOOLEAN, ExitSeated(w) PROVE NothingHeldAfterFirstPoll'
    BY <2>2 DEF ExitSeated, EmptyTheSeat, RecordDebt, OwedToBackend
  <2>3. ASSUME NEW w \in BOOLEAN, PressReplies(w) PROVE NothingHeldAfterFirstPoll'
    BY <2>3 DEF PressReplies, ClearDebt, AfterPress
  <2>4. CASE PressFails BY <2>4 DEF PressFails, AfterPress
  <2>5. CASE EmptySeatAsks BY <2>5 DEF EmptySeatAsks
  <2>6. CASE EmptySeatFails BY <2>6 DEF EmptySeatFails
  <2>7. ASSUME NEW w \in BOOLEAN, EmptySeatReplies(w) PROVE NothingHeldAfterFirstPoll'
    BY <2>7 DEF EmptySeatReplies, ClearDebt
  <2>8. ASSUME NEW d \in Drivers, SignInStarts(d) PROVE NothingHeldAfterFirstPoll'
    BY <2>8 DEF SignInStarts, SettlesFirst
  <2>9. ASSUME NEW w \in BOOLEAN, SignInSettled(w) PROVE NothingHeldAfterFirstPoll'
    BY <2>9 DEF SignInSettled, ClearDebt
  <2>10. ASSUME NEW w \in BOOLEAN, ExitAbandonsSignIn(w) PROVE NothingHeldAfterFirstPoll'
    BY <2>10 DEF ExitAbandonsSignIn, RecordDebt
  <2>11. CASE SignInUnsettled BY <2>11 DEF SignInUnsettled
  <2>12. CASE SeatCheckedInDriver BY <2>12 DEF SeatCheckedInDriver
  <2>13. CASE CheckInFails BY <2>13 DEF CheckInFails
  <2> QED
    BY <1>5, <2>1, <2>2, <2>3, <2>4, <2>5, <2>6, <2>7,
       <2>8, <2>9, <2>10, <2>11, <2>12, <2>13 DEF Console
<1>6. CASE Backend
  <2>1. ASSUME NEW d \in Drivers, NEW s \in Stints, PhoneCheckIn(d, s) PROVE
      NothingHeldAfterFirstPoll'
    BY <2>1 DEF PhoneCheckIn, ServerCheckIn
  <2>2. CASE SessionEnds BY <2>2 DEF SessionEnds
  <2>3. ASSUME NEW t \in Tasks, CheckoutServed(t) PROVE NothingHeldAfterFirstPoll'
    BY <2>3 DEF CheckoutServed
  <2>4. ASSUME NEW s \in Stints, CheckInServed(s) PROVE NothingHeldAfterFirstPoll'
    BY <2>4 DEF CheckInServed, ServerCheckIn
  <2> QED BY <1>6, <2>1, <2>2, <2>3, <2>4 DEF Backend
<1>7. CASE UNCHANGED vars BY <1>7 DEF vars
<1> QED BY <1>1, <1>2, <1>3, <1>4, <1>5, <1>6, <1>7 DEF Next

-----------------------------------------------------------------------------
(* The variables of the agent and of the backend keep their types.         *)
THEOREM TypeCorrect == Spec => []TypeOK
BY TypeInit, TypeNext, PTL DEF Spec

(* The inductive invariant, at the start.                                  *)
LEMMA IInvInit == Init => IInv
<1> SUFFICES ASSUME Init PROVE IInv
  OBVIOUS
<1> USE SeatAssumption DEF Init, NoPoll, NoCall, NoSignIn, NoLap
<1>1. TypeOK
  BY TypeInit
<1>2. AtRest /\ DurableDebt /\ FreshAnswer
  BY DEF AtRest, DurableDebt, FreshAnswer
<1>3. Known
  BY DEF Known, Tasks
<1>4. OneThingAtATime /\ ServedMeansClosed
  BY DEF OneThingAtATime, ServedMeansClosed, Tasks
<1>5. SignedOutIsOwed /\ NobodyElseIsSeated /\ AssuranceKept
  BY DEF SignedOutIsOwed, NobodyElseIsSeated, AssuranceKept, Assured, Tasks
<1>6. TombstoneHolds /\ SignedOutStaysOut /\ NothingHeldAfterFirstPoll
  BY DEF TombstoneHolds, SignedOutStaysOut, NothingHeldAfterFirstPoll
<1> QED BY <1>1, <1>2, <1>3, <1>4, <1>5, <1>6 DEF IInv

(* The inductive invariant, at every step.                                 *)
LEMMA IInvNext == IInv /\ [Next]_vars => IInv'
BY TypeNext, AtRestNext, KnownNext, OneThingNext, ServedNext, DurableDebtNext,
   SignedOutIsOwedNext, NobodyElseNext, AssuranceNext, FreshAnswerNext,
   TombstoneNext, SignedOutStaysNext, HeldNext DEF IInv

(* The inductive invariant holds of every run.                             *)
THEOREM Invariance == Spec => []IInv
BY IInvInit, IInvNext, PTL DEF Spec

(* The tombstone: an owed stint is never in the seat, in either mode.      *)
THEOREM Tombstone == Spec => []TombstoneHolds
<1>1. IInv => TombstoneHolds
  BY DEF IInv
<1> QED BY Invariance, <1>1, PTL

(* Walk-up mode: who signed out at this rig is never put back in its seat. *)
THEOREM SignedOut == Spec => [](WalkUp => SignedOutStaysOut)
<1>1. IInv => (WalkUp => SignedOutStaysOut)
  BY DEF IInv
<1> QED BY Invariance, <1>1, PTL

(* Walk-up mode: a checkout that names no stint never overlaps a check-in. *)
THEOREM RunsAlone == Spec => []UnnamedCheckoutRunsAlone
<1>1. IInv => UnnamedCheckoutRunsAlone
  <2> SUFFICES ASSUME IInv, WalkUp, NEW t \in Tasks,
                      call[t].at = "wire", call[t].target = Unnamed
               PROVE  seat = None /\ signIn.at = "none"
    BY DEF UnnamedCheckoutRunsAlone
  <2>1. t = "console"
    BY SeatAssumption DEF IInv, OneThingAtATime, Tasks
  <2>2. call["console"] # NoCall
    BY <2>1 DEF NoCall
  <2>3. console \notin {"checkingIn", "driving"}
    BY <2>2 DEF IInv, OneThingAtATime
  <2> QED BY <2>3 DEF IInv, OneThingAtATime
<1> QED BY Invariance, <1>1, PTL

(* A promised sign-out outlives restarts and other settles on the disk.    *)
THEOREM Promise == Spec => []PromiseKept
<1>1. IInv => PromiseKept
  BY DEF IInv, TypeOK, AssuranceKept, Assured, PromiseKept
<1> QED BY Invariance, <1>1, PTL

(* After the first answer no captured lap is left without a stamp.         *)
THEOREM HeldLaps == Spec => []NothingHeldAfterFirstPoll
<1>1. IInv => NothingHeldAfterFirstPoll
  BY DEF IInv
<1> QED BY Invariance, <1>1, PTL

(* A poll never empties or changes a seat whose stint is still open.       *)
THEOREM OpenStint == Spec => OpenStintKeepsItsSeat
<1>1. IInv /\ [Next]_vars =>
        [PollApplied /\ seat # None /\ seat = open => seat' = seat]_vars
  <2> SUFFICES ASSUME IInv, PollApplied, seat # None, seat = open
               PROVE  seat' = seat
    OBVIOUS
  <2>1. poll.answer = seat
    BY DEF IInv, FreshAnswer, PollApplied
  <2>2. seat # pending
    BY DEF IInv, TombstoneHolds
  <2> QED BY <2>1, <2>2 DEF PollApplied, Adopted
<1> QED BY Invariance, <1>1, PTL DEF Spec, OpenStintKeepsItsSeat

(* Walk-up mode: a seat is only ever filled by this rig's own check-in.    *)
THEOREM OwnCheckIn == Spec => OnlyOwnCheckInSeats
<1>1. [Next]_vars => [WalkUp /\ seat' \notin {None, seat} => seat' = signIn.stint]_vars
  <2> SUFFICES ASSUME Next, WalkUp, seat' \notin {None, seat}
               PROVE  seat' = signIn.stint
    OBVIOUS
  <2>1. CASE Poll
    BY <2>1 DEF Poll, PollAsks, PollServed, PollFails, PollDropped, PollApplied,
       Adopted, PollSettles, PollSettleFails, PollSettleReplies
  <2>2. CASE Console
    BY <2>2 DEF Console, Press, ExitSeated, EmptyTheSeat, PressReplies, PressFails,
       EmptySeatAsks, EmptySeatFails, EmptySeatReplies, SignInStarts, SignInSettled,
       ExitAbandonsSignIn, SignInUnsettled, SeatCheckedInDriver, CheckInFails
  <2>3. CASE Backend
    BY <2>3 DEF Backend, PhoneCheckIn, SessionEnds, CheckoutServed, CheckInServed
  <2>4. CASE Boot \/ Stop \/ \E l \in Laps : Capture(l)
    BY <2>4 DEF Boot, Stop, Capture
  <2> QED BY <2>1, <2>2, <2>3, <2>4 DEF Next
<1> QED BY <1>1, PTL DEF Spec, OnlyOwnCheckInSeats
=============================================================================
