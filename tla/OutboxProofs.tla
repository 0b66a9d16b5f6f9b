---------------------------- MODULE OutboxProofs ----------------------------
(***************************************************************************)
(* Proofs about Outbox for any laps, owners, requests and batch size, and  *)
(* that it implements LapLedger.                                           *)
(*                                                                         *)
(* The argument: only a lap whose owner is decided is ever sent, a decided *)
(* owner never changes, so every copy of a lap in flight carries the stamp *)
(* on the disk (CopiesCarryTheStamp); and what the agent reads of an answer*)
(* is about the batch it sent (AnswerIsTrue), so it only removes laps that *)
(* are recorded and only parks laps that are refused.                      *)
(***************************************************************************)
EXTENDS Outbox, SequenceTheorems, TLAPS

(* Every copy of a lap in a request carries the owner the disk has.        *)
CopiesCarryTheStamp ==
  \A h \in Handlers : \A i \in DOMAIN handler[h].batch :
    handler[h].batch[i].owner = stamp[handler[h].batch[i].lap]

(* A request being stored has passed the schema.                           *)
StoringIsValid == \A h \in Handlers : handler[h].at = "storing" => Offending(h) = {}

(* The request the flush loop waits for carries the batch it sent.         *)
AwaitedIsOurs ==
  flush.at = "waiting" =>
    /\ flush.by \in Handlers
    /\ handler[flush.by].at # "free"
    /\ DOMAIN handler[flush.by].batch = DOMAIN flush.batch
    /\ \A i \in DOMAIN flush.batch : handler[flush.by].batch[i].lap = flush.batch[i]

(* What a request has settled is recorded, and so is what an answer says;  *)
(* and the positions an answer refuses hold refused laps.                  *)
Recorded == {l \in Laps : laps[l] # <<>>}
AnswerIsTrue ==
  /\ \A h \in Handlers : handler[h].settled \subseteq Recorded
  /\ flush.answer.settled \subseteq Recorded
  /\ \A i \in flush.answer.refused : i \in DOMAIN flush.batch /\ flush.batch[i] \in Refused

OutboxWasDriven == \A l \in outbox : stamp[l] # Undriven

IInv ==
  /\ TypeOK /\ CopiesCarryTheStamp /\ StoringIsValid /\ AwaitedIsOurs /\ AnswerIsTrue
  /\ OutboxWasDriven /\ NoLapLost /\ RecordedAsStamped /\ OnlyRefusedAreParked

-----------------------------------------------------------------------------
(* The records a step resets are of their types.                           *)
LEMMA BlankRecords == NoFlush \in Flushes /\ NoWork \in Requests /\ NoAnswer \in Answers
<1>1. <<>> \in Batches /\ <<>> \in Payloads
  BY DEF Batches, Payloads
<1> QED BY <1>1 DEF NoFlush, Flushes, NoWork, Requests, NoAnswer, Answers

(* Time and the check-ins leave the rig and the requests alone.            *)
LEMMA OnlyTimePasses ==
  ASSUME Venue
  PROVE  UNCHANGED <<running, hasPolled, outbox, earlier, stamp, parked, held, flush,
                     handler, laps>>
BY DEF Venue, Tick, StintOpens, disk

(* What is left over of a division.                                        *)
LEMMA Remainder ==
  ASSUME NEW a \in Nat, NEW b \in Nat \ {0}
  PROVE  a % b \in 0 .. (b - 1)
BY SMT

(* A Date header is less than a second behind.                             *)
LEMMA HeaderIsLate ==
  ASSUME NEW time \in Nat
  PROVE  Header(time) \in Int /\ Header(time) <= time /\ time < Header(time) + Second
<1> DEFINE rest == time % Second
<1>1. Second \in Nat \ {0}
  BY OutboxAssumption
<1>2. rest \in 0 .. (Second - 1)
  BY <1>1, Remainder
<1>3. Header(time) = time - rest
  BY DEF Header
<1> HIDE DEF rest
<1> QED BY <1>1, <1>2, <1>3

(* The types, at the start.                                                *)
LEMMA TypeInit == Init => TypeOK
<1> SUFFICES ASSUME Init PROVE TypeOK
  OBVIOUS
<1>1. laps \in [Laps -> Seq(KnownOwners)]
  BY DEF Init
<1>2. held \in [Laps -> Holds]
  BY DEF Init, Holds, NoHold
<1>3. now \in Nat /\ since \in [Owners -> Nat \cup {Never}]
  BY DEF Init
<1> QED BY <1>1, <1>2, <1>3, BlankRecords DEF Init, TypeOK

(* A batch is a sequence of laps of the outbox whose owner is decided.     *)
LEMMA BatchOfDecidedLaps ==
  ASSUME TypeOK, OutboxWasDriven, NEW batch \in PendingBatches
  PROVE  /\ batch \in Batches
         /\ \A i \in DOMAIN batch : batch[i] \in outbox /\ stamp[batch[i]] \in KnownOwners
         /\ [i \in DOMAIN batch |-> [lap |-> batch[i], owner |-> stamp[batch[i]]]] \in Payloads
<1>1. PICK n \in 1 .. BatchSize : batch \in [1 .. n -> Resolved \ parked]
  BY DEF PendingBatches, Oldest
<1>2. n \in Nat /\ DOMAIN batch = 1 .. n
  BY <1>1, OutboxAssumption
<1>3. \A i \in DOMAIN batch : batch[i] \in Resolved
  BY <1>1
<1>4. \A l \in Resolved : l \in outbox /\ l \in Laps /\ stamp[l] \in KnownOwners
  BY OutboxAssumption DEF Resolved, TypeOK, OutboxWasDriven
<1>5. \A i \in DOMAIN batch : /\ batch[i] \in outbox /\ batch[i] \in Laps
                              /\ stamp[batch[i]] \in KnownOwners
  BY <1>3, <1>4
<1>6. batch \in [1 .. n -> Laps]
  BY <1>1, <1>2, <1>5
<1>7. [i \in DOMAIN batch |-> [lap |-> batch[i], owner |-> stamp[batch[i]]]]
        \in [1 .. n -> [lap : Laps, owner : KnownOwners]]
  BY <1>2, <1>5
<1> QED BY <1>2, <1>5, <1>6, <1>7, SeqDef DEF Batches, Payloads

(* Where a request that is being stored has got to.                        *)
LEMMA Cursor ==
  ASSUME TypeOK, NEW h \in Handlers
  PROVE  /\ handler[h].next + 1 \in Nat \ {0}
         /\ handler[h].next <= Len(handler[h].batch) =>
              /\ handler[h].next \in DOMAIN handler[h].batch
              /\ handler[h].batch[handler[h].next] \in [lap : Laps, owner : KnownOwners]
<1> DEFINE n == handler[h].next
           b == handler[h].batch
<1>1. n \in Nat \ {0} /\ b \in Seq([lap : Laps, owner : KnownOwners])
  BY DEF TypeOK, Requests, Payloads
<1> HIDE DEF n, b
<1>2. n + 1 \in Nat \ {0} /\ (n <= Len(b) => n \in 1 .. Len(b))
  BY <1>1
<1>3. n \in 1 .. Len(b) => n \in DOMAIN b /\ b[n] \in [lap : Laps, owner : KnownOwners]
  BY <1>1, ElementOfSeq, LenProperties
<1> QED BY <1>2, <1>3 DEF n, b

(* What a step of the backend leaves of a request.                         *)
LEMMA RequestSteps ==
  ASSUME TypeOK, NEW h \in Handlers, Serves(h)
  PROVE  /\ \A k \in Handlers \ {h} : handler'[k] = handler[k]
         /\ \/ handler'[h] = NoWork
            \/ /\ handler'[h].batch = handler[h].batch
               /\ handler[h].at # "free" /\ handler'[h].at = "storing"
               /\ handler[h].at = "storing" \/ Offending(h) = {}
<1>1. handler \in [Handlers -> Requests] /\ handler[h] \in Requests
  BY DEF TypeOK
<1>2. CASE Validates(h)
  BY <1>1, <1>2 DEF Validates, Requests
<1>3. CASE LapErrors(h)
  BY <1>1, <1>3 DEF LapErrors, Requests
<1>4. CASE BatchAnswered(h)
  BY <1>1, <1>4 DEF BatchAnswered
<1>5. CASE BatchDies(h)
  BY <1>1, <1>5 DEF BatchDies
<1>6. ASSUME NEW l \in Laps, LapStored(h, l)
      PROVE  /\ \A k \in Handlers \ {h} : handler'[k] = handler[k]
             /\ handler'[h].batch = handler[h].batch
             /\ handler'[h].at = "storing" /\ handler[h].at = "storing"
  BY <1>1, <1>6 DEF LapStored, Requests
<1> QED BY <1>2, <1>3, <1>4, <1>5, <1>6 DEF Serves

(* A copy of a lap carries an owner, so the owner of its lap is decided.    *)
LEMMA CopiesAreDecided ==
  ASSUME TypeOK, CopiesCarryTheStamp, NEW h \in Handlers, NEW i \in DOMAIN handler[h].batch
  PROVE  /\ handler[h].batch[i].lap \in Laps
         /\ stamp[handler[h].batch[i].lap] \notin {Undriven, Undecided}
<1>1. handler[h].batch \in Seq([lap : Laps, owner : KnownOwners])
  BY DEF TypeOK, Requests, Payloads
<1>2. handler[h].batch[i] \in [lap : Laps, owner : KnownOwners]
  BY <1>1, ElementOfSeq, LenProperties
<1>3. handler[h].batch[i].owner \notin {Undriven, Undecided}
  BY <1>2, OutboxAssumption DEF KnownOwners
<1> QED BY <1>2, <1>3 DEF CopiesCarryTheStamp

(* The backend never touches the rig's disk.                               *)
LEMMA StampStays == ASSUME NEW h \in Handlers, Serves(h) PROVE stamp' = stamp
BY DEF Serves, Validates, LapErrors, BatchAnswered, BatchDies, LapStored, disk

(* The types, at every step.                                               *)
LEMMA TypeNext == TypeOK /\ OutboxWasDriven /\ [Next]_vars => TypeOK'
<1> SUFFICES ASSUME TypeOK, OutboxWasDriven, [Next]_vars PROVE TypeOK'
  OBVIOUS
<1> USE OutboxAssumption, BlankRecords DEF TypeOK, disk, server
<1>1. CASE Agent
  <2>1. CASE Boot BY <2>1 DEF Boot
  <2>2. CASE Stop BY <2>2 DEF Stop
  <2>3. ASSUME NEW l \in Laps, NEW o \in KnownOwners, NEW error \in ClockErrors,
             Capture(l, o, error)
      PROVE  TypeOK'
    <3>1. now + error \in Int
      BY <2>3
    <3>2. [driven |-> now, reading |-> now + error] \in Holds
      BY <3>1 DEF Holds
    <3>3. held' \in [Laps -> Holds]
      BY <2>3, <3>2 DEF Capture
    <3>4. stamp' \in [Laps -> KnownOwners \cup {Undriven, Undecided}]
      BY <2>3 DEF Capture
    <3>5. outbox' \in SUBSET Laps
      BY <2>3 DEF Capture
    <3>6. earlier' \in [Laps -> SUBSET Laps]
      <4>1. earlier' = [earlier EXCEPT ![l] = {k \in Laps : stamp[k] # Undriven}]
        BY <2>3 DEF Capture
      <4> QED BY <4>1
    <3> QED BY <2>3, <3>3, <3>4, <3>5, <3>6 DEF Capture
  <2>4. ASSUME NEW o \in KnownOwners, NEW date \in 0 .. now, NEW offset \in Offsets(date),
             FirstPoll(o, date, offset)
      PROVE  TypeOK'
    BY <2>4 DEF FirstPoll, OwnerOf, KnownOwners, NoHold, Holds
  <2>5. ASSUME NEW h \in Handlers, FlushSends(h) PROVE TypeOK'
    <3>1. PICK batch \in PendingBatches :
            /\ flush' = [at |-> "waiting", batch |-> batch, by |-> h, answer |-> NoAnswer]
            /\ handler' = [handler EXCEPT ![h] =
                 [at |-> "received", next |-> 1, settled |-> {},
                  batch |-> [i \in DOMAIN batch |-> [lap |-> batch[i], owner |->
                      stamp[batch[i]]]]]]
      BY <2>5 DEF FlushSends
    <3>2. /\ batch \in Batches
          /\ [i \in DOMAIN batch |-> [lap |-> batch[i], owner |-> stamp[batch[i]]]] \in
              Payloads
      BY BatchOfDecidedLaps
    <3>4. flush' \in Flushes
      BY <3>1, <3>2 DEF Flushes
    <3>5. handler' \in [Handlers -> Requests]
      BY <3>1, <3>2 DEF Requests
    <3> QED BY <2>5, <3>4, <3>5 DEF FlushSends
  <2>6. CASE FlushFails BY <2>6 DEF FlushFails
  <2>7. ASSUME NEW w \in BOOLEAN, FlushApplied(w) PROVE TypeOK'
    BY <2>7 DEF FlushApplied
  <2> QED BY <1>1, <2>1, <2>2, <2>3, <2>4, <2>5, <2>6, <2>7
      DEF Agent, Polls
<1>2. ASSUME NEW h \in Handlers, Serves(h) PROVE TypeOK'
  <2>1. CASE Validates(h)
    <3>1. [handler[h] EXCEPT !.at = "storing"] \in Requests
      BY DEF Requests
    <3>2. handler' \in [Handlers -> Requests]
      BY <2>1, <3>1 DEF Validates
    <3>3. [settled |-> {}, refused |-> Offending(h)] \in Answers
      BY DEF Offending, Requests, Payloads, Answers
    <3>4. flush' \in Flushes
      BY <2>1, <3>3 DEF Validates, Responds, Flushes
    <3> QED BY <2>1, <3>2, <3>4 DEF Validates
  <2>2. CASE LapErrors(h)
    <3>1. [handler[h] EXCEPT !.next = handler[h].next + 1] \in Requests
      BY Cursor DEF Requests
    <3>2. handler' \in [Handlers -> Requests]
      BY <2>2, <3>1 DEF LapErrors
    <3> QED BY <2>2, <3>2 DEF LapErrors
  <2>3. CASE BatchAnswered(h)
    <3>1. handler[h].settled \in SUBSET Laps
      BY Cursor DEF Requests
    <3>2. flush' \in Flushes
      BY <2>3, <3>1 DEF BatchAnswered, Responds, Flushes, Answers
    <3> QED BY <2>3, <3>2 DEF BatchAnswered
  <2>4. CASE BatchDies(h) BY <2>4 DEF BatchDies
  <2>5. ASSUME NEW l \in Laps, LapStored(h, l) PROVE TypeOK'
    <3>1. [handler[h] EXCEPT !.next = handler[h].next + 1, !.settled = handler[h].settled
        \cup {l}] \in Requests
      BY Cursor DEF Requests
    <3>2. handler' \in [Handlers -> Requests]
      BY <2>5, <3>1 DEF LapStored
    <3>4. handler[h].batch[handler[h].next].owner \in KnownOwners
      BY <2>5, Cursor DEF LapStored
    <3>5. PICK o \in AttributedTo(handler[h].batch[handler[h].next].owner) : InsertOnce(l, o)
      BY <2>5 DEF LapStored
    <3>6. o \in KnownOwners
      BY <3>4, <3>5 DEF AttributedTo, KnownOwners
    <3>7. laps' \in [Laps -> Seq(KnownOwners)]
      BY <3>5, <3>6 DEF InsertOnce
    <3> QED BY <2>5, <3>2, <3>7 DEF LapStored
  <2> QED BY <1>2, <2>1, <2>2, <2>3, <2>4, <2>5 DEF Serves
<1>3. CASE Venue
  <2>1. CASE Tick BY <2>1 DEF Tick
  <2>2. ASSUME NEW o \in Owners, StintOpens(o) PROVE TypeOK'
    BY <2>2 DEF StintOpens
  <2> QED BY <1>3, <2>1, <2>2 DEF Venue
<1>4. CASE UNCHANGED vars BY <1>4 DEF vars
<1> QED BY <1>1, <1>2, <1>3, <1>4 DEF Next

(* A copy in flight keeps the stamp of its lap.                            *)
LEMMA CopiesNext == TypeOK /\ CopiesCarryTheStamp /\ [Next]_vars => CopiesCarryTheStamp'
<1> SUFFICES ASSUME TypeOK, CopiesCarryTheStamp, [Next]_vars PROVE CopiesCarryTheStamp'
  OBVIOUS
<1> USE DEF CopiesCarryTheStamp, TypeOK, disk, NoFlush, NoWork, NoAnswer
<1>1. CASE Agent
  <2>1. CASE Boot BY <2>1 DEF Boot
  <2>2. CASE Stop BY <2>2 DEF Stop
  <2>3. ASSUME NEW l \in Laps, NEW o \in KnownOwners, NEW error \in ClockErrors,
             Capture(l, o, error)
      PROVE  CopiesCarryTheStamp'
    BY <2>3, CopiesAreDecided DEF Capture
  <2>4. ASSUME NEW o \in KnownOwners, NEW date \in 0 .. now, NEW offset \in Offsets(date),
             FirstPoll(o, date, offset)
      PROVE  CopiesCarryTheStamp'
    BY <2>4, CopiesAreDecided DEF FirstPoll, OwnerOf
  <2>5. ASSUME NEW h \in Handlers, FlushSends(h) PROVE CopiesCarryTheStamp'
    <3>1. ASSUME NEW k \in Handlers, NEW i \in DOMAIN handler'[k].batch
          PROVE  handler'[k].batch[i].owner = stamp'[handler'[k].batch[i].lap]
      <4>1. CASE k = h
        BY <2>5, <3>1, <4>1 DEF FlushSends
      <4>2. CASE k # h
        BY <2>5, <3>1, <4>2 DEF FlushSends
      <4> QED BY <4>1, <4>2
    <3> QED BY <3>1
  <2>6. CASE FlushFails BY <2>6 DEF FlushFails
  <2>7. ASSUME NEW w \in BOOLEAN, FlushApplied(w) PROVE CopiesCarryTheStamp'
    BY <2>7 DEF FlushApplied
  <2> QED BY <1>1, <2>1, <2>2, <2>3, <2>4, <2>5, <2>6, <2>7
      DEF Agent, Polls
<1>2. ASSUME NEW h \in Handlers, Serves(h) PROVE CopiesCarryTheStamp'
  <2>1. ASSUME NEW k \in Handlers, NEW i \in DOMAIN handler'[k].batch
        PROVE  handler'[k].batch[i].owner = stamp'[handler'[k].batch[i].lap]
    <3>1. i \in DOMAIN handler[k].batch /\ handler'[k].batch[i] = handler[k].batch[i]
      BY <1>2, <2>1, RequestSteps
    <3>2. stamp' = stamp
      BY <1>2, StampStays
    <3>3. handler[k].batch[i].owner = stamp[handler[k].batch[i].lap]
      BY <3>1
    <3> QED BY <3>1, <3>2, <3>3
  <2> QED BY <2>1
<1>3. CASE Venue BY <1>3, OnlyTimePasses
<1>4. CASE UNCHANGED vars BY <1>4 DEF vars
<1> QED BY <1>1, <1>2, <1>3, <1>4 DEF Next

(* A request passes the schema before it is stored.                        *)
LEMMA StoringNext == TypeOK /\ StoringIsValid /\ [Next]_vars => StoringIsValid'
<1> SUFFICES ASSUME TypeOK, StoringIsValid, [Next]_vars PROVE StoringIsValid'
  OBVIOUS
<1> USE DEF StoringIsValid, Offending, TypeOK, disk, NoFlush, NoWork, NoAnswer
<1>1. CASE Agent
  <2>1. CASE Boot BY <2>1 DEF Boot
  <2>2. CASE Stop BY <2>2 DEF Stop
  <2>3. ASSUME NEW l \in Laps, NEW o \in KnownOwners, NEW error \in ClockErrors,
             Capture(l, o, error)
      PROVE  StoringIsValid'
    BY <2>3 DEF Capture
  <2>4. ASSUME NEW o \in KnownOwners, NEW date \in 0 .. now, NEW offset \in Offsets(date),
             FirstPoll(o, date, offset)
      PROVE  StoringIsValid'
    BY <2>4 DEF FirstPoll, OwnerOf
  <2>5. ASSUME NEW h \in Handlers, FlushSends(h) PROVE StoringIsValid'
    BY <2>5 DEF FlushSends
  <2>6. CASE FlushFails BY <2>6 DEF FlushFails
  <2>7. ASSUME NEW w \in BOOLEAN, FlushApplied(w) PROVE StoringIsValid'
    BY <2>7 DEF FlushApplied
  <2> QED BY <1>1, <2>1, <2>2, <2>3, <2>4, <2>5, <2>6, <2>7
      DEF Agent, Polls
<1>2. ASSUME NEW h \in Handlers, Serves(h) PROVE StoringIsValid'
  <2> HIDE DEF TypeOK
  <2>1. \A k \in Handlers \ {h} : handler'[k] = handler[k]
    BY <1>2, RequestSteps
  <2>2. \/ handler'[h] = NoWork
        \/ handler'[h].batch = handler[h].batch /\ Offending(h) = {}
    <3> HIDE DEF NoWork, Offending
    <3> QED BY <1>2, RequestSteps
  <2>3. handler'[h].at = "storing" => Offending(h)' = {}
    BY <2>2
  <2> QED BY <2>1, <2>3
<1>3. CASE Venue BY <1>3, OnlyTimePasses
<1>4. CASE UNCHANGED vars BY <1>4 DEF vars
<1> QED BY <1>1, <1>2, <1>3, <1>4 DEF Next

(* The flush loop goes on waiting for the request it sent.                 *)
LEMMA AwaitedNext == TypeOK /\ AwaitedIsOurs /\ [Next]_vars => AwaitedIsOurs'
<1> SUFFICES ASSUME TypeOK, AwaitedIsOurs, [Next]_vars PROVE AwaitedIsOurs'
  OBVIOUS
<1> USE OutboxAssumption DEF AwaitedIsOurs, TypeOK, disk, NoFlush, NoWork, NoAnswer
<1>1. CASE Agent
  <2>1. CASE Boot BY <2>1 DEF Boot
  <2>2. CASE Stop BY <2>2 DEF Stop
  <2>3. ASSUME NEW l \in Laps, NEW o \in KnownOwners, NEW error \in ClockErrors,
             Capture(l, o, error)
      PROVE  AwaitedIsOurs'
    BY <2>3 DEF Capture
  <2>4. ASSUME NEW o \in KnownOwners, NEW date \in 0 .. now, NEW offset \in Offsets(date),
             FirstPoll(o, date, offset)
      PROVE  AwaitedIsOurs'
    BY <2>4 DEF FirstPoll, OwnerOf
  <2>5. ASSUME NEW h \in Handlers, FlushSends(h) PROVE AwaitedIsOurs'
    BY <2>5 DEF FlushSends
  <2>6. CASE FlushFails BY <2>6 DEF FlushFails
  <2>7. ASSUME NEW w \in BOOLEAN, FlushApplied(w) PROVE AwaitedIsOurs'
    BY <2>7 DEF FlushApplied
  <2> QED BY <1>1, <2>1, <2>2, <2>3, <2>4, <2>5, <2>6, <2>7
      DEF Agent, Polls
<1>2. ASSUME NEW h \in Handlers, Serves(h) PROVE AwaitedIsOurs'
  <2>1. CASE Validates(h)
    <3>1. CASE Offending(h) = {}
      <4>1. Serves(h) /\ flush' = flush /\ handler'[h].at = "storing"
        BY <2>1, <3>1 DEF Validates, Serves, Requests
      <4>2. ASSUME flush.by \in Handlers
            PROVE  /\ handler'[flush.by].batch = handler[flush.by].batch
                   /\ handler[flush.by].at # "free" => handler'[flush.by].at # "free"
        <5>1. CASE flush.by = h
          BY <4>1, <4>2, <5>1, RequestSteps
        <5>2. CASE flush.by # h
          BY <4>1, <4>2, <5>2, RequestSteps
        <5> QED BY <5>1, <5>2
      <4> QED BY <4>1, <4>2
    <3>2. CASE Offending(h) # {}
      <4>1. handler' = [handler EXCEPT ![h] = NoWork]
        BY <2>1, <3>2 DEF Validates
      <4>2. flush'.at = "waiting" => flush' = flush /\ flush.by # h
        BY <2>1, <3>2 DEF Validates, Responds, Flushes
      <4> QED BY <4>1, <4>2
    <3> QED BY <3>1, <3>2
  <2>2. CASE LapErrors(h) BY <2>2, RequestSteps DEF LapErrors, Serves
  <2>3. CASE BatchAnswered(h)
    BY <2>3, RequestSteps DEF BatchAnswered, Serves, Responds, Flushes
  <2>4. CASE BatchDies(h) BY <2>4, RequestSteps DEF BatchDies, Serves, Flushes
  <2>5. ASSUME NEW l \in Laps, LapStored(h, l) PROVE AwaitedIsOurs'
    <3>1. Serves(h) /\ flush' = flush /\ handler'[h].at = "storing"
      <4>1. Serves(h) /\ flush' = flush
        BY <2>5 DEF LapStored, Serves
      <4>2. handler[h].at = "storing" /\ handler[h] \in Requests
        BY <2>5 DEF LapStored
      <4>3. handler'[h].at = handler[h].at
        BY <2>5 DEF LapStored
      <4> QED BY <4>1, <4>2, <4>3
    <3>2. ASSUME flush.by \in Handlers
          PROVE  /\ handler'[flush.by].batch = handler[flush.by].batch
                 /\ handler[flush.by].at # "free" => handler'[flush.by].at # "free"
      <4>1. CASE flush.by = h
        BY <3>1, <3>2, <4>1, RequestSteps
      <4>2. CASE flush.by # h
        BY <3>1, <3>2, <4>2, RequestSteps
      <4> QED BY <4>1, <4>2
    <3> QED BY <3>1, <3>2
  <2> QED BY <1>2, <2>1, <2>2, <2>3, <2>4, <2>5 DEF Serves
<1>3. CASE Venue BY <1>3, OnlyTimePasses
<1>4. CASE UNCHANGED vars BY <1>4 DEF vars
<1> QED BY <1>1, <1>2, <1>3, <1>4 DEF Next

(* What is settled is recorded, what is refused by name is refused.        *)
LEMMA AnswerNext == TypeOK /\ AwaitedIsOurs /\ AnswerIsTrue /\ [Next]_vars => AnswerIsTrue'
<1> SUFFICES ASSUME TypeOK, AwaitedIsOurs, AnswerIsTrue, [Next]_vars PROVE AnswerIsTrue'
  OBVIOUS
<1> USE OutboxAssumption DEF AnswerIsTrue, Recorded, TypeOK, Flushes, Requests, disk,
    NoFlush, NoWork, NoAnswer
<1>1. CASE Agent
  <2>1. CASE Boot BY <2>1 DEF Boot
  <2>2. CASE Stop BY <2>2 DEF Stop
  <2>3. ASSUME NEW l \in Laps, NEW o \in KnownOwners, NEW error \in ClockErrors,
             Capture(l, o, error)
      PROVE  AnswerIsTrue'
    BY <2>3 DEF Capture
  <2>4. ASSUME NEW o \in KnownOwners, NEW date \in 0 .. now, NEW offset \in Offsets(date),
             FirstPoll(o, date, offset)
      PROVE  AnswerIsTrue'
    BY <2>4 DEF FirstPoll, OwnerOf
  <2>5. ASSUME NEW h \in Handlers, FlushSends(h) PROVE AnswerIsTrue'
    BY <2>5 DEF FlushSends
  <2>6. CASE FlushFails BY <2>6 DEF FlushFails
  <2>7. ASSUME NEW w \in BOOLEAN, FlushApplied(w) PROVE AnswerIsTrue'
    BY <2>7 DEF FlushApplied
  <2> QED BY <1>1, <2>1, <2>2, <2>3, <2>4, <2>5, <2>6, <2>7
      DEF Agent, Polls
<1>2. ASSUME NEW h \in Handlers, Serves(h) PROVE AnswerIsTrue'
  <2>1. CASE Validates(h)
    <3>1. laps' = laps /\ handler[h].batch \in Payloads
      BY <2>1 DEF Validates
    <3>2. \A k \in Handlers : handler'[k].settled \subseteq Recorded
      <4>1. handler' = [handler EXCEPT ![h].at = "storing"]
              \/ handler' = [handler EXCEPT ![h] = NoWork]
        BY <2>1 DEF Validates
      <4>2. ASSUME NEW k \in Handlers PROVE handler'[k].settled \subseteq Recorded
        <5>1. handler[k].settled \subseteq Recorded
          OBVIOUS
        <5>2. handler'[k].settled \in {handler[k].settled, {}}
          <6>1. handler \in [Handlers -> Requests] /\ handler[h] \in Requests
            OBVIOUS
          <6>2. CASE k = h
            BY <4>1, <6>1, <6>2 DEF Requests
          <6>3. CASE k # h
            BY <4>1, <6>1, <6>3
          <6> QED BY <6>2, <6>3
        <5> QED BY <5>1, <5>2, <3>1
      <4> QED BY <4>2
    <3>3. CASE flush' = flush
      BY <3>1, <3>2, <3>3
    <3>4. CASE flush' # flush
      <4>1. /\ flush.by = h /\ flush.at = "waiting"
            /\ flush' = [flush EXCEPT !.at = "answered",
                          !.answer = [settled |-> {}, refused |-> Offending(h)]]
        BY <2>1, <3>4 DEF Validates, Responds
      <4>2. /\ flush'.answer.settled = {} /\ flush'.answer.refused = Offending(h)
            /\ flush'.batch = flush.batch
        BY <4>1
      <4>3. \A i \in Offending(h) : i \in DOMAIN flush.batch /\ flush.batch[i] \in Refused
        BY <4>1 DEF Offending, AwaitedIsOurs
      <4> QED BY <3>1, <3>2, <4>2, <4>3
    <3> QED BY <3>3, <3>4
  <2>2. CASE LapErrors(h) BY <2>2 DEF LapErrors
  <2>3. CASE BatchAnswered(h) BY <2>3 DEF BatchAnswered, Responds
  <2>4. CASE BatchDies(h) BY <2>4 DEF BatchDies
  <2>5. ASSUME NEW l \in Laps, LapStored(h, l) PROVE AnswerIsTrue'
    BY <2>5 DEF LapStored, InsertOnce, AttributedTo
  <2> QED BY <1>2, <2>1, <2>2, <2>3, <2>4, <2>5 DEF Serves
<1>3. CASE Venue BY <1>3, OnlyTimePasses
<1>4. CASE UNCHANGED vars BY <1>4 DEF vars
<1> QED BY <1>1, <1>2, <1>3, <1>4 DEF Next

(* Only driven laps are queued.                                            *)
LEMMA DrivenNext == TypeOK /\ OutboxWasDriven /\ [Next]_vars => OutboxWasDriven'
<1> SUFFICES ASSUME TypeOK, OutboxWasDriven, [Next]_vars PROVE OutboxWasDriven'
  OBVIOUS
<1> USE OutboxAssumption DEF OutboxWasDriven, TypeOK, KnownOwners, disk, NoFlush, NoWork,
    NoAnswer
<1>1. CASE Agent
  <2>1. CASE Boot BY <2>1 DEF Boot
  <2>2. CASE Stop BY <2>2 DEF Stop
  <2>3. ASSUME NEW l \in Laps, NEW o \in KnownOwners, NEW error \in ClockErrors,
             Capture(l, o, error)
      PROVE  OutboxWasDriven'
    BY <2>3 DEF Capture
  <2>4. ASSUME NEW o \in KnownOwners, NEW date \in 0 .. now, NEW offset \in Offsets(date),
             FirstPoll(o, date, offset)
      PROVE  OutboxWasDriven'
    BY <2>4 DEF FirstPoll, OwnerOf
  <2>5. ASSUME NEW h \in Handlers, FlushSends(h) PROVE OutboxWasDriven'
    BY <2>5 DEF FlushSends
  <2>6. CASE FlushFails BY <2>6 DEF FlushFails
  <2>7. ASSUME NEW w \in BOOLEAN, FlushApplied(w) PROVE OutboxWasDriven'
    BY <2>7 DEF FlushApplied
  <2> QED BY <1>1, <2>1, <2>2, <2>3, <2>4, <2>5, <2>6, <2>7
      DEF Agent, Polls
<1>2. ASSUME NEW h \in Handlers, Serves(h) PROVE OutboxWasDriven'
  <2>1. CASE Validates(h) BY <2>1 DEF Validates
  <2>2. CASE LapErrors(h) BY <2>2 DEF LapErrors
  <2>3. CASE BatchAnswered(h) BY <2>3 DEF BatchAnswered
  <2>4. CASE BatchDies(h) BY <2>4 DEF BatchDies
  <2>5. ASSUME NEW l \in Laps, LapStored(h, l) PROVE OutboxWasDriven'
    BY <2>5 DEF LapStored
  <2> QED BY <1>2, <2>1, <2>2, <2>3, <2>4, <2>5 DEF Serves
<1>3. CASE Venue BY <1>3, OnlyTimePasses
<1>4. CASE UNCHANGED vars BY <1>4 DEF vars
<1> QED BY <1>1, <1>2, <1>3, <1>4 DEF Next

(* No step loses a lap.                                                    *)
LEMMA LostNext == TypeOK /\ AnswerIsTrue /\ NoLapLost /\ [Next]_vars => NoLapLost'
<1> SUFFICES ASSUME TypeOK, AnswerIsTrue, NoLapLost, [Next]_vars PROVE NoLapLost'
  OBVIOUS
<1> USE OutboxAssumption DEF NoLapLost, TypeOK, disk, NoFlush, NoWork, NoAnswer
<1>1. CASE Agent
  <2>1. CASE Boot BY <2>1 DEF Boot
  <2>2. CASE Stop BY <2>2 DEF Stop
  <2>3. ASSUME NEW l \in Laps, NEW o \in KnownOwners, NEW error \in ClockErrors,
             Capture(l, o, error)
      PROVE  NoLapLost'
    BY <2>3 DEF Capture
  <2>4. ASSUME NEW o \in KnownOwners, NEW date \in 0 .. now, NEW offset \in Offsets(date),
             FirstPoll(o, date, offset)
      PROVE  NoLapLost'
    BY <2>4 DEF FirstPoll, OwnerOf
  <2>5. ASSUME NEW h \in Handlers, FlushSends(h) PROVE NoLapLost'
    BY <2>5 DEF FlushSends
  <2>6. CASE FlushFails BY <2>6 DEF FlushFails
  <2>7. ASSUME NEW w \in BOOLEAN, FlushApplied(w) PROVE NoLapLost'
    BY <2>7 DEF FlushApplied, SettledLaps, AnswerIsTrue, Recorded
  <2> QED BY <1>1, <2>1, <2>2, <2>3, <2>4, <2>5, <2>6, <2>7
      DEF Agent, Polls
<1>2. ASSUME NEW h \in Handlers, Serves(h) PROVE NoLapLost'
  <2>1. CASE Validates(h) BY <2>1 DEF Validates
  <2>2. CASE LapErrors(h) BY <2>2 DEF LapErrors
  <2>3. CASE BatchAnswered(h) BY <2>3 DEF BatchAnswered
  <2>4. CASE BatchDies(h) BY <2>4 DEF BatchDies
  <2>5. ASSUME NEW l \in Laps, LapStored(h, l) PROVE NoLapLost'
    BY <2>5 DEF LapStored, InsertOnce, AttributedTo
  <2> QED BY <1>2, <2>1, <2>2, <2>3, <2>4, <2>5 DEF Serves
<1>3. CASE Venue BY <1>3, OnlyTimePasses
<1>4. CASE UNCHANGED vars BY <1>4 DEF vars
<1> QED BY <1>1, <1>2, <1>3, <1>4 DEF Next

(* No step records a lap twice, or under another owner.                    *)
LEMMA RecordedNext ==
  TypeOK /\ CopiesCarryTheStamp /\ RecordedAsStamped /\ [Next]_vars
    => RecordedAsStamped'
<1> SUFFICES ASSUME TypeOK, CopiesCarryTheStamp, RecordedAsStamped, [Next]_vars PROVE
    RecordedAsStamped'
  OBVIOUS
<1> USE OutboxAssumption DEF RecordedAsStamped, TypeOK, KnownOwners, disk, NoFlush,
    NoWork, NoAnswer
<1>1. CASE Agent
  <2>1. CASE Boot BY <2>1 DEF Boot
  <2>2. CASE Stop BY <2>2 DEF Stop
  <2>3. ASSUME NEW l \in Laps, NEW o \in KnownOwners, NEW error \in ClockErrors,
             Capture(l, o, error)
      PROVE  RecordedAsStamped'
    BY <2>3 DEF Capture
  <2>4. ASSUME NEW o \in KnownOwners, NEW date \in 0 .. now, NEW offset \in Offsets(date),
             FirstPoll(o, date, offset)
      PROVE  RecordedAsStamped'
    BY <2>4 DEF FirstPoll, OwnerOf
  <2>5. ASSUME NEW h \in Handlers, FlushSends(h) PROVE RecordedAsStamped'
    BY <2>5 DEF FlushSends
  <2>6. CASE FlushFails BY <2>6 DEF FlushFails
  <2>7. ASSUME NEW w \in BOOLEAN, FlushApplied(w) PROVE RecordedAsStamped'
    BY <2>7 DEF FlushApplied
  <2> QED BY <1>1, <2>1, <2>2, <2>3, <2>4, <2>5, <2>6, <2>7
      DEF Agent, Polls
<1>2. ASSUME NEW h \in Handlers, Serves(h) PROVE RecordedAsStamped'
  <2>1. CASE Validates(h) BY <2>1 DEF Validates
  <2>2. CASE LapErrors(h) BY <2>2 DEF LapErrors
  <2>3. CASE BatchAnswered(h) BY <2>3 DEF BatchAnswered
  <2>4. CASE BatchDies(h) BY <2>4 DEF BatchDies
  <2>5. ASSUME NEW l \in Laps, LapStored(h, l) PROVE RecordedAsStamped'
    <3> DEFINE i == handler[h].next
               item == handler[h].batch[i]
    <3>1. stamp' = stamp /\ item.lap = l /\ handler[h].at = "storing"
      BY <2>5 DEF LapStored
    <3>2. PICK o \in AttributedTo(item.owner) : InsertOnce(l, o)
      BY <2>5 DEF LapStored
    <3>3. i \in DOMAIN handler[h].batch
      BY <2>5, Cursor DEF LapStored
    <3>4. item.owner = stamp[l]
      BY <3>1, <3>3 DEF CopiesCarryTheStamp
    <3>5. o \in {stamp[l], None}
      BY <3>2, <3>4 DEF AttributedTo
    <3> HIDE DEF item, i
    <3> QED BY <3>1, <3>2, <3>5 DEF InsertOnce
  <2> QED BY <1>2, <2>1, <2>2, <2>3, <2>4, <2>5 DEF Serves
<1>3. CASE Venue BY <1>3, OnlyTimePasses
<1>4. CASE UNCHANGED vars BY <1>4 DEF vars
<1> QED BY <1>1, <1>2, <1>3, <1>4 DEF Next

(* No step parks a good lap.                                               *)
LEMMA ParkedNext ==
  TypeOK /\ AnswerIsTrue /\ OnlyRefusedAreParked /\ [Next]_vars
    => OnlyRefusedAreParked'
<1> SUFFICES ASSUME TypeOK, AnswerIsTrue, OnlyRefusedAreParked, [Next]_vars PROVE
    OnlyRefusedAreParked'
  OBVIOUS
<1> USE DEF OnlyRefusedAreParked, TypeOK, disk, NoFlush, NoWork, NoAnswer
<1>1. CASE Agent
  <2>1. CASE Boot BY <2>1 DEF Boot
  <2>2. CASE Stop BY <2>2 DEF Stop
  <2>3. ASSUME NEW l \in Laps, NEW o \in KnownOwners, NEW error \in ClockErrors,
             Capture(l, o, error)
      PROVE  OnlyRefusedAreParked'
    BY <2>3 DEF Capture
  <2>4. ASSUME NEW o \in KnownOwners, NEW date \in 0 .. now, NEW offset \in Offsets(date),
             FirstPoll(o, date, offset)
      PROVE  OnlyRefusedAreParked'
    BY <2>4 DEF FirstPoll, OwnerOf
  <2>5. ASSUME NEW h \in Handlers, FlushSends(h) PROVE OnlyRefusedAreParked'
    BY <2>5 DEF FlushSends
  <2>6. CASE FlushFails BY <2>6 DEF FlushFails
  <2>7. ASSUME NEW w \in BOOLEAN, FlushApplied(w) PROVE OnlyRefusedAreParked'
    BY <2>7 DEF FlushApplied, NamedInBatch, AnswerIsTrue
  <2> QED BY <1>1, <2>1, <2>2, <2>3, <2>4, <2>5, <2>6, <2>7
      DEF Agent, Polls
<1>2. ASSUME NEW h \in Handlers, Serves(h) PROVE OnlyRefusedAreParked'
  <2>1. CASE Validates(h) BY <2>1 DEF Validates
  <2>2. CASE LapErrors(h) BY <2>2 DEF LapErrors
  <2>3. CASE BatchAnswered(h) BY <2>3 DEF BatchAnswered
  <2>4. CASE BatchDies(h) BY <2>4 DEF BatchDies
  <2>5. ASSUME NEW l \in Laps, LapStored(h, l) PROVE OnlyRefusedAreParked'
    BY <2>5 DEF LapStored
  <2> QED BY <1>2, <2>1, <2>2, <2>3, <2>4, <2>5 DEF Serves
<1>3. CASE Venue BY <1>3, OnlyTimePasses
<1>4. CASE UNCHANGED vars BY <1>4 DEF vars
<1> QED BY <1>1, <1>2, <1>3, <1>4 DEF Next

-----------------------------------------------------------------------------
(* The inductive invariant, and what follows from it.                      *)

(* The inductive invariant, at the start.                                  *)
LEMMA InvInit == Init => IInv
<1> SUFFICES ASSUME Init PROVE IInv
  OBVIOUS
<1>1. TypeOK
  BY TypeInit
<1>2. CopiesCarryTheStamp /\ StoringIsValid /\ AwaitedIsOurs
  BY DEF Init, CopiesCarryTheStamp, StoringIsValid, AwaitedIsOurs, NoWork, NoFlush
<1>3. AnswerIsTrue
  BY DEF Init, AnswerIsTrue, NoWork, NoFlush, NoAnswer
<1>4. OutboxWasDriven /\ NoLapLost /\ RecordedAsStamped /\ OnlyRefusedAreParked
  BY DEF Init, OutboxWasDriven, NoLapLost, RecordedAsStamped, OnlyRefusedAreParked
<1> QED BY <1>1, <1>2, <1>3, <1>4 DEF IInv

(* The inductive invariant, at every step.                                 *)
LEMMA InvNext == IInv /\ [Next]_vars => IInv'
<1> SUFFICES ASSUME IInv, [Next]_vars PROVE IInv'
  OBVIOUS
<1>1. /\ TypeOK /\ CopiesCarryTheStamp /\ StoringIsValid /\ AwaitedIsOurs /\ AnswerIsTrue
      /\ OutboxWasDriven /\ NoLapLost /\ RecordedAsStamped /\ OnlyRefusedAreParked
  BY DEF IInv
<1>2. TypeOK' /\ OutboxWasDriven'
  BY <1>1, TypeNext, DrivenNext
<1>3. CopiesCarryTheStamp' /\ StoringIsValid'
  BY <1>1, CopiesNext, StoringNext
<1>4. AwaitedIsOurs' /\ AnswerIsTrue'
  BY <1>1, AwaitedNext, AnswerNext
<1>5. NoLapLost' /\ RecordedAsStamped' /\ OnlyRefusedAreParked'
  BY <1>1, LostNext, RecordedNext, ParkedNext
<1> QED BY <1>2, <1>3, <1>4, <1>5 DEF IInv

(* Every reachable state satisfies the inductive invariant.                *)
THEOREM Invariance == Spec => []IInv
<1> QED BY InvInit, InvNext, PTL DEF Spec

(* Type correctness of the outbox, the flush loop and the route's requests. *)
THEOREM TypeCorrect == Spec => []TypeOK
<1>1. IInv => TypeOK
  BY DEF IInv
<1> QED BY <1>1, Invariance, PTL

(* Remove takes a lap out of the outbox only once it is in the laps table, *)
(* whatever timed out, crashed or was answered in part.                    *)
THEOREM LapsAreKept == Spec => []NoLapLost
<1>1. IInv => NoLapLost
  BY DEF IInv
<1> QED BY <1>1, Invariance, PTL

(* However often a lap is sent, it is recorded at most once, and under the *)
(* owner the rig stamped it with or under nobody.                          *)
THEOREM LapsAreRecordedAsStamped == Spec => []RecordedAsStamped
<1>1. IInv => RecordedAsStamped
  BY DEF IInv
<1> QED BY <1>1, Invariance, PTL

(* Quarantine parks the laps the backend named and no other of the batch.  *)
THEOREM GoodLapsAreNotParked == Spec => []OnlyRefusedAreParked
<1>1. IInv => OnlyRefusedAreParked
  BY DEF IInv
<1> QED BY <1>1, Invariance, PTL

(* The rig's error cancels between the lap and the offset, and what is left *)
(* of the offset is what the header rounds off and the answer took to come, *)
(* both of which make the lap look older than it is: so no lap driven before *)
(* the check-in is credited, and none driven so much after it is withheld.  *)
LEMMA TimedRight ==
  ASSUME TypeOK, NEW o \in Owners, NEW date \in 0 .. now, NEW arrived \in date .. now,
         NEW error \in ClockErrors, FirstPoll(o, date, Offset(date, arrived, error)),
         NEW l \in Laps, stamp[l] = Undecided, held[l].reading - held[l].driven = error
  PROVE  /\ stamp'[l] = o => held[l].driven >= since[o]
         /\ stamp'[l] = None => held[l].driven < since[o] + Second + (arrived - date)
<1> DEFINE driven  == held[l].driven
           reading == held[l].reading
           start   == since[o]
           dated   == Header(date)
<1>1. /\ date \in Int /\ arrived \in Int /\ error \in Int /\ Second \in Int
      /\ date <= arrived /\ date \in Nat
  BY OutboxAssumption DEF TypeOK
<1>2. dated \in Int /\ dated <= date /\ date < dated + Second
  BY <1>1, HeaderIsLate
<1>3. driven \in Int /\ reading \in Int /\ reading - driven = error
  BY DEF TypeOK, Holds
<1>4. o # None /\ start \in Int
  BY OutboxAssumption DEF FirstPoll, TypeOK
<1>5. stamp'[l] = IF reading + (dated - (arrived + error)) >= start THEN o ELSE None
  BY <1>4 DEF FirstPoll, OwnerOf, Offset
<1> HIDE DEF driven, reading, start, dated
<1>6. reading + (dated - (arrived + error)) = driven + dated - arrived
  BY <1>1, <1>2, <1>3
<1>7. CASE driven + dated - arrived >= start
  <2>1. stamp'[l] = o /\ driven >= start
    BY <1>1, <1>2, <1>3, <1>4, <1>5, <1>6, <1>7
  <2> QED BY <2>1, <1>4 DEF driven, start
<1>8. CASE ~(driven + dated - arrived >= start)
  <2>1. stamp'[l] = None
    BY <1>5, <1>6, <1>8
  <2>2. driven < start + Second + (arrived - date)
    BY <1>1, <1>2, <1>3, <1>4, <1>8
  <2> QED BY <2>1, <2>2, <1>4 DEF driven, start
<1> QED BY <1>7, <1>8

(* A lap held for the first poll goes to the driver it names only if driven *)
(* after their check-in, and to nobody only if driven before it or within a *)
(* second and the answer's way of it, whatever the rig's clock shows.       *)
THEOREM HeldLapsAreTimed == Spec => HeldLapsFindTheirDriver
<1>1. TypeOK /\ [Next]_vars =>
        [\A o \in Owners, date \in 0 .. now, error \in ClockErrors :
           \A arrived \in date .. now : FirstPoll(o, date, Offset(date, arrived, error)) =>
             \A l \in Laps :
               stamp[l] = Undecided /\ held[l].reading - held[l].driven = error =>
                 /\ stamp'[l] = o => held[l].driven >= since[o]
                 /\ stamp'[l] = None =>
                      held[l].driven < since[o] + Second + (arrived - date)]_vars
  BY TimedRight
<1> QED BY <1>1, TypeCorrect, PTL DEF Spec, HeldLapsFindTheirDriver

-----------------------------------------------------------------------------
(* Refinement: every step is a step of LapLedger or leaves it alone.       *)

LedgerVars == <<stamp, laps, parked>>

(* Every step is one of LapLedger or leaves the ledger alone.              *)
LEMMA LedgerStep == IInv /\ [Next]_vars => Ledger!Next \/ UNCHANGED LedgerVars
<1> SUFFICES ASSUME IInv, [Next]_vars PROVE Ledger!Next \/ UNCHANGED LedgerVars
  OBVIOUS
<1> USE DEF LedgerVars, disk
<1>0. TypeOK /\ CopiesCarryTheStamp /\ StoringIsValid /\ AnswerIsTrue /\ RecordedAsStamped
  BY DEF IInv
<1>1. CASE Agent
  <2>1. CASE Boot BY <2>1 DEF Boot
  <2>2. CASE Stop BY <2>2 DEF Stop
  <2>3. ASSUME NEW l \in Laps, NEW o \in KnownOwners, NEW error \in ClockErrors,
             Capture(l, o, error)
      PROVE  Ledger!Take(l)
    <3>1. /\ stamp[l] = Undriven
          /\ \E u \in Owners \cup {None, Undecided} : stamp' = [stamp EXCEPT ![l] = u]
          /\ laps' = laps /\ parked' = parked
      BY <2>3 DEF Capture, KnownOwners
    <3> QED BY <3>1 DEF Ledger!Take
  <2>4. ASSUME NEW o \in KnownOwners, NEW date \in 0 .. now, NEW offset \in Offsets(date),
             FirstPoll(o, date, offset)
      PROVE  Ledger!Decide
    <3>1. \A l \in Laps : stamp[l] \in KnownOwners \cup {Undriven, Undecided}
      BY <1>0 DEF TypeOK
    <3>2. stamp' = [l \in Laps |-> IF stamp[l] = Undecided THEN OwnerOf(l, o, offset)
                                                         ELSE stamp[l]]
      BY <2>4 DEF FirstPoll
    <3>7. \A l \in Laps : OwnerOf(l, o, offset) \in {o, None}
      BY DEF OwnerOf
    <3>3. stamp' \in [Laps -> Owners \cup {None, Undriven}]
      BY <3>1, <3>2, <3>7 DEF KnownOwners
    <3>4. \A l \in Laps : stamp[l] # Undecided => stamp'[l] = stamp[l]
      BY <3>2
    <3>5. \A l \in Laps : stamp[l] = Undecided => stamp'[l] \in {o, None}
      BY <3>2, <3>7
    <3>6. laps' = laps /\ parked' = parked
      BY <2>4 DEF FirstPoll
    <3> QED BY <3>3, <3>4, <3>5, <3>6 DEF Ledger!Decide, KnownOwners
  <2>5. ASSUME NEW h \in Handlers, FlushSends(h) PROVE UNCHANGED LedgerVars
    BY <2>5 DEF FlushSends
  <2>6. CASE FlushFails BY <2>6 DEF FlushFails
  <2>7. ASSUME NEW w \in BOOLEAN, FlushApplied(w)
        PROVE  Ledger!TurnAway \/ UNCHANGED LedgerVars
    <3>1. stamp' = stamp /\ laps' = laps
      BY <2>7 DEF FlushApplied
    <3>2. parked \subseteq parked' /\ parked' \subseteq Refused
      <4>1. parked \subseteq Refused
        BY DEF IInv, OnlyRefusedAreParked
      <4>2. NamedInBatch(flush.answer) \subseteq Refused
        BY <1>0 DEF NamedInBatch, AnswerIsTrue
      <4> QED BY <2>7, <4>1, <4>2 DEF FlushApplied
    <3> QED BY <3>1, <3>2 DEF Ledger!TurnAway
  <2> QED BY <1>1, <2>1, <2>2, <2>3, <2>4, <2>5, <2>6, <2>7
      DEF Agent, Polls, Ledger!Next
<1>2. ASSUME NEW h \in Handlers, Serves(h) PROVE Ledger!Next \/ UNCHANGED LedgerVars
  <2>1. CASE Validates(h) BY <2>1 DEF Validates
  <2>2. CASE LapErrors(h) BY <2>2 DEF LapErrors
  <2>3. CASE BatchAnswered(h) BY <2>3 DEF BatchAnswered
  <2>4. CASE BatchDies(h) BY <2>4 DEF BatchDies
  <2>5. ASSUME NEW l \in Laps, LapStored(h, l)
        PROVE  Ledger!Record(l) \/ UNCHANGED LedgerVars
    <3> DEFINE i == handler[h].next
               item == handler[h].batch[i]
    <3>1. /\ stamp' = stamp /\ parked' = parked
          /\ item.lap = l
          /\ handler[h].at = "storing"
      BY <2>5 DEF LapStored, disk
    <3>2. i \in DOMAIN handler[h].batch /\ item.owner \in KnownOwners
      BY <1>0, <2>5, Cursor DEF LapStored
    <3>3. l \notin Refused
      BY <1>0, <3>1, <3>2 DEF StoringIsValid, Offending
    <3>4. item.owner = stamp[l]
      BY <1>0, <3>1, <3>2 DEF CopiesCarryTheStamp
    <3>5. PICK o \in AttributedTo(item.owner) : InsertOnce(l, o)
      BY <2>5 DEF LapStored
    <3>6. o \in {stamp[l], None}
      BY <3>4, <3>5 DEF AttributedTo
    <3> HIDE DEF item, i
    <3> QED BY <3>1, <3>2, <3>3, <3>4, <3>5, <3>6 DEF Ledger!Record, KnownOwners, InsertOnce
  <2> QED BY <1>2, <2>1, <2>2, <2>3, <2>4, <2>5 DEF Serves, Ledger!Next
<1>3. CASE Venue BY <1>3, OnlyTimePasses
<1>4. CASE UNCHANGED vars BY <1>4 DEF vars
<1> QED BY <1>1, <1>2, <1>3, <1>4 DEF Next

(* The outbox, the flush loop and the ingestion route together do to a lap *)
(* only what LapLedger allows: take it, decide its owner once, record it   *)
(* once under that owner or nobody, or turn it away because the schema     *)
(* refuses it.                                                             *)
THEOREM Implements == Spec => ImplementsLapLedger
<1>1. Init => Ledger!Init
  BY DEF Init, Ledger!Init
<1>2. IInv /\ [Next]_vars => [Ledger!Next]_(Ledger!vars)
  BY LedgerStep DEF LedgerVars, Ledger!vars
<1> QED BY <1>1, <1>2, Invariance, PTL DEF Spec, ImplementsLapLedger, Ledger!Spec
=============================================================================
