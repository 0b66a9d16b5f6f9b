---------------------------- MODULE CheckInProofs ----------------------------
(***************************************************************************)
(* Proofs about CheckIn for any drivers, rigs and requests: at most one    *)
(* open stint to a rig and to a driver, no one displaced unconfirmed, the  *)
(* locked rows stay as they were read, and CheckIn implements Seats.       *)
(*                                                                         *)
(* The argument: a row never changes its driver or its rig, so what a      *)
(* transaction read of the rows it closes stays true of them (Sound); the  *)
(* unique indexes see to it that when it commits every open row of its     *)
(* driver or on its rig is one it closes.  The locks are needed only for   *)
(* the rows to be still open (LockedStintsStayOpen).                       *)
(***************************************************************************)
EXTENDS CheckIn, NaturalsInduction, WellFoundedInduction, TLAPS

Used == {i \in Stints : stint[i] \in Rows}

(* What is true of a transaction wherever it has got to.                   *)
Sound(t) ==
  /\ txn[t].wants \cup txn[t].holds \subseteq Used
  /\ txn[t].closes \subseteq txn[t].holds
  /\ txn[t].at # "closing" => txn[t].closes = {}
  /\ txn[t].at \in {"idle", "ending"} => txn[t].holds = {}
  /\ txn[t].at \in {"locking", "reading", "closing"} =>
       txn[t].row \in [driver : Drivers, rig : Rigs, end : {"open"}]
  /\ txn[t].at = "ending" => txn[t].row.end = "ended"
  /\ txn[t].at \in {"idle", "ending", "locking"} => txn[t].current = NoStint
  /\ txn[t].at # "closing" => txn[t].occupant = NoStint
  /\ txn[t].current # NoStint =>
       txn[t].current \in Used /\ stint[txn[t].current].driver = txn[t].row.driver

(* The rows a check-in closes, or is about to: its driver's stint on       *)
(* another rig, and the stint of another driver on its rig.                *)
Displaces(t) ==
  txn[t].at = "closing" =>
    \A i \in txn[t].wants \cup txn[t].closes :
      /\ i \in {txn[t].current, txn[t].occupant}
      /\ \/ /\ stint[i].driver = txn[t].row.driver
            /\ stint[i].rig # txn[t].row.rig
            /\ "move" \in txn[t].confirms
         \/ /\ stint[i].driver # txn[t].row.driver
            /\ stint[i].rig = txn[t].row.rig
            /\ "takeover" \in txn[t].confirms

LocksAreExclusive ==
  \A t, u \in Requests : t # u => txn[t].holds \cap txn[u].holds = {}

AllSound == \A t \in Requests : Sound(t) /\ Displaces(t)

-----------------------------------------------------------------------------
(* The steps, by what they do to a transaction.                            *)

Quits(t) == Answers(t) /\ UNCHANGED stint

(* A request that has just begun.                                          *)
Fresh(q) ==
  /\ q \in Transactions
  /\ q.wants \subseteq Open
  /\ q.holds = {} /\ q.closes = {}
  /\ q.current = NoStint /\ q.occupant = NoStint
  /\ \/ q.at = "locking" /\ q.row \in [driver : Drivers, rig : Rigs, end : {"open"}]
     \/ q.at = "ending" /\ q.row.end = "ended"

(* A free connection is of its type.                                       *)
LEMMA IdleIsATransaction == Idle \in Transactions
BY DEF Idle, Transactions, NoRow, NoStint

(* Each of the four endpoints begins a fresh request and writes nothing.   *)
LEMMA StartsFresh ==
  ASSUME TypeOK, NEW t \in Requests, Starts(t)
  PROVE  \E q : Fresh(q) /\ Begins(t, q)
<1>1. Idle \in Transactions
  BY IdleIsATransaction
<1>2. \A d : OpenOf(d) \subseteq Open /\ OpenOn(d) \subseteq Open
  BY DEF OpenOf, OpenOn
<1>3. Open \subseteq Stints
  BY DEF Open
<1>4. ASSUME NEW d \in Drivers, NEW r \in Rigs, NEW c \in Confirmations,
             StartsCheckIn(t, d, r, c)
      PROVE  \E q : Fresh(q) /\ Begins(t, q)
  <2> DEFINE q == [Idle EXCEPT !.at = "locking",
                               !.row = [driver |-> d, rig |-> r, end |-> "open"],
                               !.confirms = c,
                               !.wants = OpenOf(d) \cup OpenOn(r)]
  <2>1. Begins(t, q)
    BY <1>4 DEF StartsCheckIn
  <2>2. c \in SUBSET {"move", "takeover"}
    BY CheckInAssumption
  <2>3. Fresh(q)
    BY <1>1, <1>2, <1>3, <2>2 DEF Fresh, Transactions, Idle
  <2> QED BY <2>1, <2>3
<1>5. ASSUME NEW rows \in SUBSET Open, NEW d \in Drivers \cup {Nobody},
             NEW r \in Rigs \cup {Nobody}, Ends(t, rows, d, r)
      PROVE  \E q : Fresh(q) /\ Begins(t, q)
  <2> DEFINE q == [Idle EXCEPT !.at = "ending", !.wants = rows,
                               !.row = [driver |-> d, rig |-> r, end |-> "ended"]]
  <2>1. Begins(t, q)
    BY <1>5 DEF Ends
  <2>2. Fresh(q)
    BY <1>1, <1>3 DEF Fresh, Transactions, Idle
  <2> QED BY <2>1, <2>2
<1>6. ASSUME NEW d \in Drivers, EndsSession(t, d) PROVE \E q : Fresh(q) /\ Begins(t, q)
  BY <1>2, <1>5, <1>6 DEF EndsSession
<1>7. ASSUME NEW r \in Rigs, ClearsRig(t, r) PROVE \E q : Fresh(q) /\ Begins(t, q)
  BY <1>2, <1>5, <1>7 DEF ClearsRig
<1>8. ASSUME NEW r \in Rigs, NEW i \in Stints, ChecksOut(t, r, i)
      PROVE  \E q : Fresh(q) /\ Begins(t, q)
  <2>1. OpenOn(r) \cap {i} \in SUBSET Open
    BY <1>2
  <2> QED BY <1>5, <1>8, <2>1 DEF ChecksOut
<1> QED BY <1>4, <1>6, <1>7, <1>8 DEF Starts

(* Every step is one of eight kinds.                                       *)
LEMMA Steps ==
  ASSUME TypeOK, Next
  PROVE  \E t \in Requests :
           \/ \E q : Fresh(q) /\ Begins(t, q)
           \/ Locks(t) \/ ReadsCurrent(t) \/ ReadsOccupant(t)
           \/ Closes(t) \/ Opens(t) \/ EndTakes(t) \/ Quits(t)
<1>1. PICK t \in Requests : Starts(t) \/ Proceeds(t) \/ RollsBack(t)
  BY DEF Next
<1>2. CASE Starts(t)
  BY <1>2, StartsFresh
<1>3. CASE Proceeds(t)
  BY <1>3 DEF Proceeds, Quits, Conflicts, EndMisses, DeadlockFails
<1>4. CASE RollsBack(t)
  BY <1>4 DEF RollsBack, Quits
<1> QED BY <1>1, <1>2, <1>3, <1>4

-----------------------------------------------------------------------------
(* Types.                                                                  *)

(* An open row is a full row; an unused one is none.                       *)
LEMMA RowsOfAType ==
  ASSUME TypeOK
  PROVE  /\ \A i \in Open : stint[i] \in Rows /\ i \in Used /\ i \in Stints
         /\ \A i \in Used : i \in Stints /\ stint[i] # NoRow
<1>1. NoRow \notin Rows
  BY CheckInAssumption DEF NoRow, Rows
<1>2. \A i \in Open : i \in Stints /\ stint[i] # NoRow
  BY DEF Open, NoRow
<1>3. \A i \in Open : stint[i] \in Rows
  BY <1>2 DEF TypeOK
<1> QED BY <1>1, <1>2, <1>3 DEF Used

(* A select finds one of its rows, if it has any.                          *)
LEMMA FoundOne ==
  ASSUME NEW rows \in SUBSET Stints
  PROVE  /\ Found(rows) \in Stints \cup {NoStint}
         /\ Found(rows) # NoStint => Found(rows) \in rows
         /\ rows # {} => Found(rows) \in rows
BY DEF Found, NoStint, Stints

(* The types, at the start.                                                *)
LEMMA TypeInit == Init => TypeOK
BY IdleIsATransaction DEF Init, TypeOK

(* The types, at every step.                                               *)
LEMMA TypeNext == TypeOK /\ AllSound /\ Next => TypeOK'
<1> SUFFICES ASSUME TypeOK, AllSound, Next PROVE TypeOK'
  OBVIOUS
<1>1. PICK t \in Requests :
           \/ \E q : Fresh(q) /\ Begins(t, q)
           \/ Locks(t) \/ ReadsCurrent(t) \/ ReadsOccupant(t)
           \/ Closes(t) \/ Opens(t) \/ EndTakes(t) \/ Quits(t)
  BY Steps
<1>2. txn \in [Requests -> Transactions] /\ txn[t] \in Transactions
  BY DEF TypeOK
<1>3. stint \in [Stints -> Rows \cup {NoRow}]
  BY DEF TypeOK
<1>4. Open \subseteq Stints /\ (\A d : OpenOf(d) \subseteq Stints /\ OpenOn(d) \subseteq Stints)
  BY DEF Open, OpenOf, OpenOn
<1>5. ASSUME NEW q, Fresh(q), Begins(t, q) PROVE TypeOK'
  BY <1>2, <1>3, <1>5 DEF Fresh, Begins, TypeOK
<1>6. CASE Locks(t)
  <2>1. PICK i \in LowestWanted(t) :
          txn' = [txn EXCEPT ![t].wants = @ \ {i}, ![t].holds = @ \cup {i}]
    BY <1>6 DEF Locks
  <2>2. i \in Stints
    BY <1>2 DEF LowestWanted, Transactions
  <2>3. [txn[t] EXCEPT !.wants = @ \ {i}, !.holds = @ \cup {i}] \in Transactions
    BY <1>2, <2>2 DEF Transactions
  <2>4. txn' \in [Requests -> Transactions]
    BY <1>2, <2>1, <2>3
  <2> QED BY <1>3, <1>6, <2>4 DEF Locks, TypeOK
<1>7. CASE ReadsCurrent(t)
  <2> DEFINE found == Found(OpenOf(txn[t].row.driver))
  <2>1. found \in Stints \cup {NoStint}
    BY <1>4, FoundOne
  <2> HIDE DEF found
  <2>2. [txn[t] EXCEPT !.at = "reading", !.current = found] \in Transactions
    BY <1>2, <2>1 DEF Transactions
  <2>3. txn' \in [Requests -> Transactions]
    BY <1>2, <1>7, <2>2 DEF ReadsCurrent, found
  <2> QED BY <1>3, <1>7, <2>3 DEF ReadsCurrent, TypeOK
<1>8. CASE ReadsOccupant(t)
  <2> DEFINE occupied == OpenOn(txn[t].row.rig)
  <2>1. Found(occupied) \in Stints \cup {NoStint}
    BY <1>4, FoundOne
  <2>2. ToClose(t, occupied) \in SUBSET Stints
    BY <1>2, <1>4 DEF ToClose, MovesFrom, Transactions
  <2>3. [txn[t] EXCEPT !.at = "closing", !.occupant = Found(occupied),
                       !.wants = ToClose(t, occupied)] \in Transactions
    BY <1>2, <2>1, <2>2 DEF Transactions
  <2>4. txn' \in [Requests -> Transactions]
    BY <1>2, <1>8, <2>3, IdleIsATransaction DEF ReadsOccupant, Answers
  <2> QED BY <1>3, <1>8, <2>4 DEF ReadsOccupant, TypeOK
<1>9. CASE Closes(t)
  <2> DEFINE i == NextToClose(t)
  <2>1. i \in Stints
    <3>1. Displaces(t) /\ txn[t].wants \in SUBSET Stints
      BY <1>2 DEF AllSound, Transactions
    <3> QED BY <1>9, <3>1 DEF Closes, Displaces, NextToClose
  <2> HIDE DEF i
  <2>2. [txn[t] EXCEPT !.wants = @ \ {i}, !.holds = @ \cup {i}, !.closes = @ \cup {i}]
          \in Transactions
    BY <1>2, <2>1 DEF Transactions
  <2>3. txn' \in [Requests -> Transactions]
    BY <1>2, <1>9, <2>2 DEF Closes, i
  <2> QED BY <1>3, <1>9, <2>3 DEF Closes, TypeOK
<1>10. CASE Opens(t)
  <2>1. txn' \in [Requests -> Transactions]
    BY <1>2, <1>10, IdleIsATransaction DEF Opens, Answers
  <2>2. txn[t].row \in Rows
    BY <1>10 DEF Opens, AllSound, Sound, Rows
  <2>3. \A i \in txn[t].closes : stint[i] \in Rows
    BY <1>10 DEF AllSound, Sound, Used
  <2>4. \A i \in Stints : EndReason(t, i) \in Ended
    BY DEF EndReason, Ended
  <2>5. \A i \in txn[t].closes : [stint[i] EXCEPT !.end = EndReason(t, i)] \in Rows
    BY <1>2, <2>3, <2>4 DEF Rows, Transactions
  <2>6. stint' \in [Stints -> Rows \cup {NoRow}]
    BY <1>3, <1>10, <2>2, <2>5 DEF Opens
  <2> QED BY <2>1, <2>6 DEF TypeOK
<1>11. CASE EndTakes(t)
  <2>1. PICK i \in txn[t].wants \cap Open : stint' = [stint EXCEPT ![i].end = txn[t].row.end]
    BY <1>11 DEF EndTakes
  <2>2. txn[t].row.end \in Ended
    BY <1>11 DEF EndTakes, AllSound, Sound, Ended
  <2>3. stint[i] \in Rows
    BY RowsOfAType
  <2>4. [stint[i] EXCEPT !.end = txn[t].row.end] \in Rows
    BY <2>2, <2>3 DEF Rows
  <2>5. stint' \in [Stints -> Rows \cup {NoRow}]
    BY <1>3, <2>1, <2>4
  <2>6. txn' \in [Requests -> Transactions]
    BY <1>2, <1>11, IdleIsATransaction DEF EndTakes, Answers
  <2> QED BY <2>5, <2>6 DEF TypeOK
<1>12. CASE Quits(t)
  BY <1>2, <1>3, <1>12, IdleIsATransaction DEF Quits, Answers, TypeOK
<1> QED BY <1>1, <1>5, <1>6, <1>7, <1>8, <1>9, <1>10, <1>11, <1>12

-----------------------------------------------------------------------------
(* A row keeps its driver and its rig for ever.                            *)

(* Only the end of a row is ever written again.                            *)
LEMMA RowsStay ==
  ASSUME TypeOK, AllSound, Next
  PROVE  \A i \in Used : /\ i \in Used'
                         /\ stint'[i].driver = stint[i].driver
                         /\ stint'[i].rig = stint[i].rig
<1>1. PICK t \in Requests :
           \/ \E q : Fresh(q) /\ Begins(t, q)
           \/ Locks(t) \/ ReadsCurrent(t) \/ ReadsOccupant(t)
           \/ Closes(t) \/ Opens(t) \/ EndTakes(t) \/ Quits(t)
  BY Steps
<1>2. TypeOK'
  BY TypeNext
<1>3. SUFFICES ASSUME NEW i \in Used
               PROVE  /\ stint'[i].driver = stint[i].driver
                      /\ stint'[i].rig = stint[i].rig
                      /\ stint'[i] \in Rows
  BY DEF Used
<1>4. stint[i] \in Rows /\ i \in Stints /\ stint[i] # NoRow
  BY RowsOfAType DEF Used
<1>5. CASE stint' = stint
  BY <1>4, <1>5
<1>6. CASE Opens(t)
  <2>1. PICK new \in Stints :
          /\ stint[new] = NoRow
          /\ stint' = [j \in Stints |->
               IF j = new THEN txn[t].row
               ELSE IF j \in txn[t].closes THEN [stint[j] EXCEPT !.end = EndReason(t, j)]
               ELSE stint[j]]
    BY <1>6 DEF Opens
  <2>2. stint'[i] \in {stint[i], [stint[i] EXCEPT !.end = EndReason(t, i)]}
    BY <1>4, <2>1
  <2>3. EndReason(t, i) \in Ended
    BY DEF EndReason, Ended
  <2> QED BY <1>4, <2>2, <2>3 DEF Rows
<1>7. CASE EndTakes(t)
  <2>1. PICK j \in txn[t].wants \cap Open : stint' = [stint EXCEPT ![j].end = txn[t].row.end]
    BY <1>7 DEF EndTakes
  <2>2. stint'[i] \in {stint[i], [stint[i] EXCEPT !.end = txn[t].row.end]}
    BY <1>4, <2>1 DEF TypeOK
  <2>3. txn[t].row.end \in Ended
    BY <1>7 DEF EndTakes, AllSound, Sound, Ended
  <2> QED BY <1>4, <2>2, <2>3 DEF Rows
<1> QED BY <1>1, <1>5, <1>6, <1>7 DEF Begins, Locks, ReadsCurrent, ReadsOccupant, Closes, Quits

-----------------------------------------------------------------------------
(* Sound and Displaces.                                                    *)

(* A transaction that did not step is as sound as it was.                  *)
LEMMA OthersStaySound ==
  ASSUME TypeOK, AllSound, Next, NEW u \in Requests, txn'[u] = txn[u]
  PROVE  Sound(u)' /\ Displaces(u)'
<1>1. Sound(u) /\ Displaces(u)
  BY DEF AllSound
<1>2. Used \subseteq Used'
  BY RowsStay
<1>3. \A i \in Used : stint'[i].driver = stint[i].driver /\ stint'[i].rig = stint[i].rig
  BY RowsStay
<1>4. Sound(u)'
  BY <1>1, <1>2, <1>3 DEF Sound
<1>5. txn[u].at = "closing" => txn[u].wants \cup txn[u].closes \subseteq Used
  BY <1>1 DEF Sound
<1>6. Displaces(u)'
  BY <1>1, <1>3, <1>5 DEF Displaces
<1> QED BY <1>4, <1>6

(* A free connection is sound.                                             *)
LEMMA IdleIsSound ==
  ASSUME NEW t \in Requests, txn[t] = Idle PROVE Sound(t) /\ Displaces(t)
BY DEF Idle, Sound, Displaces, NoStint

(* Every step leaves every transaction sound.                              *)
LEMMA SoundNext == TypeOK /\ AllSound /\ OneOpenPerSeat /\ Next => AllSound'
<1> SUFFICES ASSUME TypeOK, AllSound, OneOpenPerSeat, Next PROVE AllSound'
  OBVIOUS
<1>1. PICK t \in Requests :
           \/ \E q : Fresh(q) /\ Begins(t, q)
           \/ Locks(t) \/ ReadsCurrent(t) \/ ReadsOccupant(t)
           \/ Closes(t) \/ Opens(t) \/ EndTakes(t) \/ Quits(t)
  BY Steps
<1>2. txn \in [Requests -> Transactions] /\ txn[t] \in Transactions
  BY DEF TypeOK
<1>3. \A u \in Requests \ {t} : txn'[u] = txn[u]
  BY <1>1, <1>2 DEF Begins, Locks, ReadsCurrent, ReadsOccupant, Closes, Opens, EndTakes,
                    Quits, Answers
<1>4. \A u \in Requests \ {t} : Sound(u)' /\ Displaces(u)'
  BY <1>3, OthersStaySound
<1>5. Sound(t) /\ Displaces(t)
  BY DEF AllSound
<1>6. Used \subseteq Used'
  BY RowsStay
<1>7. \A i \in Used : stint'[i].driver = stint[i].driver /\ stint'[i].rig = stint[i].rig
  BY RowsStay
<1>8. SUFFICES Sound(t)' /\ Displaces(t)'
  BY <1>4 DEF AllSound
<1>9. CASE txn'[t] = Idle
  BY <1>9 DEF Idle, Sound, Displaces, NoStint
<1>10. ASSUME NEW q, Fresh(q), Begins(t, q) PROVE Sound(t)' /\ Displaces(t)'
  <2>1. txn'[t] = q /\ stint' = stint
    BY <1>2, <1>10 DEF Begins
  <2>2. Open \subseteq Used
    BY RowsOfAType
  <2> QED BY <1>10, <2>1, <2>2, <1>6 DEF Fresh, Sound, Displaces, NoStint
<1>11. CASE Locks(t)
  <2>1. PICK i \in LowestWanted(t) :
          txn' = [txn EXCEPT ![t].wants = @ \ {i}, ![t].holds = @ \cup {i}]
    BY <1>11 DEF Locks
  <2>2. txn'[t] = [txn[t] EXCEPT !.wants = @ \ {i}, !.holds = @ \cup {i}]
    BY <1>2, <2>1
  <2>3. i \in txn[t].wants /\ txn[t].at = "locking"
    BY <1>11 DEF LowestWanted, Locks
  <2>4. /\ txn'[t].wants = txn[t].wants \ {i} /\ txn'[t].holds = txn[t].holds \cup {i}
        /\ txn'[t].at = txn[t].at /\ txn'[t].closes = txn[t].closes
        /\ txn'[t].row = txn[t].row /\ txn'[t].current = txn[t].current
        /\ txn'[t].occupant = txn[t].occupant
    BY <1>2, <2>2 DEF Transactions
  <2> QED BY <1>5, <1>6, <1>7, <2>3, <2>4 DEF Sound, Displaces
<1>12. CASE ReadsCurrent(t)
  <2> DEFINE found == Found(OpenOf(txn[t].row.driver))
  <2>1. found # NoStint => found \in Used /\ stint[found].driver = txn[t].row.driver
    <3>1. OpenOf(txn[t].row.driver) \in SUBSET Stints
      BY DEF OpenOf, Open
    <3>2. found # NoStint => found \in OpenOf(txn[t].row.driver)
      BY <3>1, FoundOne
    <3> QED BY <3>2, RowsOfAType DEF OpenOf
  <2> HIDE DEF found
  <2>2. txn'[t] = [txn[t] EXCEPT !.at = "reading", !.current = found]
    BY <1>2, <1>12 DEF ReadsCurrent, found
  <2>3. /\ txn'[t].wants = txn[t].wants /\ txn'[t].holds = txn[t].holds
        /\ txn'[t].at = "reading" /\ txn'[t].closes = txn[t].closes
        /\ txn'[t].row = txn[t].row /\ txn'[t].current = found
        /\ txn'[t].occupant = txn[t].occupant /\ txn[t].at = "locking"
    BY <1>2, <1>12, <2>2 DEF Transactions, ReadsCurrent
  <2> QED BY <1>5, <1>6, <1>7, <2>1, <2>3 DEF Sound, Displaces
<1>13. CASE ReadsOccupant(t)
  <2> DEFINE occupied == OpenOn(txn[t].row.rig)
             r == txn[t].row.rig
             d == txn[t].row.driver
  <2>1. CASE occupied \cap OpenOf(d) # {} \/ Unconfirmed(t, occupied)
    <3>1. Answers(t)
      BY <1>13, <2>1 DEF ReadsOccupant
    <3> QED BY <3>1, <1>2, <1>9 DEF Answers
  <2>2. CASE ~(occupied \cap OpenOf(d) # {} \/ Unconfirmed(t, occupied))
    <3>1. txn'[t] = [txn[t] EXCEPT !.at = "closing", !.occupant = Found(occupied),
                                   !.wants = ToClose(t, occupied)]
      BY <1>2, <1>13, <2>2 DEF ReadsOccupant
    <3>2. occupied \in SUBSET Stints /\ occupied \subseteq Used
      BY RowsOfAType DEF OpenOn, Open
    <3>3. /\ txn'[t].wants = ToClose(t, occupied) /\ txn'[t].holds = txn[t].holds
          /\ txn'[t].at = "closing" /\ txn'[t].closes = txn[t].closes
          /\ txn'[t].row = txn[t].row /\ txn'[t].current = txn[t].current
          /\ txn'[t].occupant = Found(occupied) /\ txn'[t].confirms = txn[t].confirms
          /\ txn[t].at = "reading"
      BY <1>2, <1>13, <3>1 DEF Transactions, ReadsOccupant
    <3>4. \A i \in MovesFrom(t) : /\ i = txn[t].current /\ i \in Used
                                  /\ stint[i].driver = d /\ stint[i].rig # r
                                  /\ "move" \in txn[t].confirms
      BY <1>5, <2>2 DEF MovesFrom, Sound, Unconfirmed
    <3>5. ASSUME NEW i \in occupied
          PROVE  /\ i = Found(occupied) /\ i \in Used
                 /\ stint[i].driver # d /\ stint[i].rig = r
                 /\ "takeover" \in txn[t].confirms
      <4>1. stint[i].rig = r /\ i \in Used /\ i \in Open
        BY <3>2 DEF OpenOn
      <4>2. stint[i].driver # d /\ "takeover" \in txn[t].confirms
        BY <2>2, <4>1 DEF OpenOf, Unconfirmed
      <4>3. i = Found(occupied)
        BY <3>2, <4>1, FoundOne DEF OpenOn, OneOpenPerSeat
      <4> QED BY <4>1, <4>2, <4>3
    <3>6. ToClose(t, occupied) \subseteq Used
      BY <3>4, <3>5 DEF ToClose
    <3>7. Sound(t)'
      BY <1>5, <1>6, <1>7, <3>3, <3>6 DEF Sound
    <3>8. stint' = stint
      BY <1>13 DEF ReadsOccupant
    <3>9. txn[t].closes = {}
      BY <1>5, <3>3 DEF Sound
    <3>10. Displaces(t)'
      BY <3>3, <3>4, <3>5, <3>8, <3>9 DEF Displaces, ToClose
    <3> QED BY <3>7, <3>10
  <2> QED BY <2>1, <2>2
<1>14. CASE Closes(t)
  <2> DEFINE i == NextToClose(t)
  <2>1. i \in txn[t].wants
    BY <1>5, <1>14 DEF Closes, Displaces, NextToClose
  <2>2. txn'[t] = [txn[t] EXCEPT !.wants = @ \ {i}, !.holds = @ \cup {i},
                                 !.closes = @ \cup {i}]
    BY <1>2, <1>14 DEF Closes
  <2> HIDE DEF i
  <2>3. /\ txn'[t].wants = txn[t].wants \ {i} /\ txn'[t].holds = txn[t].holds \cup {i}
        /\ txn'[t].at = "closing" /\ txn'[t].closes = txn[t].closes \cup {i}
        /\ txn'[t].row = txn[t].row /\ txn'[t].current = txn[t].current
        /\ txn'[t].occupant = txn[t].occupant /\ txn'[t].confirms = txn[t].confirms
        /\ txn[t].at = "closing"
    BY <1>2, <1>14, <2>2 DEF Transactions, Closes
  <2>4. Sound(t)'
    BY <1>5, <1>6, <1>7, <2>1, <2>3 DEF Sound
  <2>5. stint' = stint
    BY <1>14 DEF Closes
  <2>6. txn'[t].wants \cup txn'[t].closes \subseteq txn[t].wants \cup txn[t].closes
    BY <2>1, <2>3
  <2>7. Displaces(t)'
    BY <1>5, <2>3, <2>5, <2>6 DEF Displaces
  <2> QED BY <2>4, <2>7
<1>15. CASE Opens(t) \/ EndTakes(t) \/ Quits(t)
  BY <1>2, <1>9, <1>15 DEF Opens, EndTakes, Quits, Answers
<1> QED BY <1>1, <1>10, <1>11, <1>12, <1>13, <1>14, <1>15

-----------------------------------------------------------------------------
(* The unique indexes.                                                     *)

(* What a check-in that commits does to the rows.                          *)
LEMMA OpensRows ==
  ASSUME TypeOK, AllSound, NEW t \in Requests, Opens(t)
  PROVE  \E new \in Stints :
           /\ Open' = (Open \ txn[t].closes) \cup {new}
           /\ new \notin Open /\ stint'[new] = txn[t].row
           /\ \A i \in Open \ txn[t].closes : stint'[i] = stint[i]
           /\ \A i \in Open : stint[i].rig = txn[t].row.rig
                                \/ stint[i].driver = txn[t].row.driver => i \in txn[t].closes
<1>1. PICK new \in Stints :
        /\ stint[new] = NoRow
        /\ stint' = [j \in Stints |->
             IF j = new THEN txn[t].row
             ELSE IF j \in txn[t].closes THEN [stint[j] EXCEPT !.end = EndReason(t, j)]
             ELSE stint[j]]
  BY DEF Opens
<1>2. txn[t].row.end = "open" /\ new \notin Open
  BY <1>1 DEF Opens, AllSound, Sound, Open, NoRow
<1>3. txn[t].closes \subseteq Used /\ new \notin txn[t].closes
  BY <1>1, RowsOfAType DEF AllSound, Sound
<1>4. \A i \in txn[t].closes : stint'[i].end # "open"
  <2>1. ASSUME NEW i \in txn[t].closes PROVE stint'[i].end # "open"
    <3>1. stint'[i] = [stint[i] EXCEPT !.end = EndReason(t, i)] /\ stint[i] \in Rows
      BY <1>1, <1>3, RowsOfAType DEF Used
    <3>2. EndReason(t, i) # "open"
      BY DEF EndReason
    <3> QED BY <3>1, <3>2 DEF Rows
  <2> QED BY <2>1
<1>5. \A i \in Stints : i # new /\ i \notin txn[t].closes => stint'[i] = stint[i]
  BY <1>1
<1>6. stint'[new] = txn[t].row
  BY <1>1
<1>7. Open' = (Open \ txn[t].closes) \cup {new}
  BY <1>2, <1>3, <1>4, <1>5, <1>6 DEF Open
<1>8. \A i \in Open : stint[i].rig = txn[t].row.rig
                        \/ stint[i].driver = txn[t].row.driver => i \in txn[t].closes
  BY DEF Opens, Collides, OpenOn, OpenOf
<1>9. \A i \in Open \ txn[t].closes : stint'[i] = stint[i]
  BY <1>2, <1>5 DEF Open
<1> QED BY <1>2, <1>6, <1>7, <1>8, <1>9

(* What an update that ends a stint does to the rows.                      *)
LEMMA EndTakesRows ==
  ASSUME TypeOK, AllSound, NEW t \in Requests, EndTakes(t)
  PROVE  \E i \in Open : /\ Open' = Open \ {i}
                         /\ OthersHold(t, i) = {}
                         /\ \A j \in Open \ {i} : stint'[j] = stint[j]
<1>1. PICK i \in txn[t].wants \cap Open :
        OthersHold(t, i) = {} /\ stint' = [stint EXCEPT ![i].end = txn[t].row.end]
  BY DEF EndTakes
<1>2. stint[i] \in Rows /\ i \in Stints
  BY RowsOfAType
<1>3. txn[t].row.end = "ended"
  BY DEF EndTakes, AllSound, Sound
<1>4. stint'[i] = [stint[i] EXCEPT !.end = txn[t].row.end]
  BY <1>1, <1>2 DEF TypeOK
<1>5. stint'[i].end # "open"
  BY <1>2, <1>3, <1>4 DEF Rows
<1>6. \A j \in Stints : j # i => stint'[j] = stint[j]
  BY <1>1 DEF TypeOK
<1>7. Open' = Open \ {i}
  BY <1>2, <1>5, <1>6 DEF Open
<1> QED BY <1>1, <1>2, <1>6, <1>7 DEF Open

(* Every step keeps one open stint to a rig and to a driver.               *)
LEMMA OneOpenNext == TypeOK /\ AllSound /\ OneOpenPerSeat /\ Next => OneOpenPerSeat'
<1> SUFFICES ASSUME TypeOK, AllSound, OneOpenPerSeat, Next PROVE OneOpenPerSeat'
  OBVIOUS
<1>1. PICK t \in Requests :
           \/ \E q : Fresh(q) /\ Begins(t, q)
           \/ Locks(t) \/ ReadsCurrent(t) \/ ReadsOccupant(t)
           \/ Closes(t) \/ Opens(t) \/ EndTakes(t) \/ Quits(t)
  BY Steps
<1>2. CASE stint' = stint
  BY <1>2 DEF OneOpenPerSeat, Open
<1>3. CASE Opens(t)
  <2>1. PICK new \in Stints :
           /\ Open' = (Open \ txn[t].closes) \cup {new}
           /\ new \notin Open /\ stint'[new] = txn[t].row
           /\ \A i \in Open \ txn[t].closes : stint'[i] = stint[i]
           /\ \A i \in Open : stint[i].rig = txn[t].row.rig
                                \/ stint[i].driver = txn[t].row.driver => i \in txn[t].closes
    BY <1>3, OpensRows
  <2> QED BY <2>1 DEF OneOpenPerSeat
<1>4. CASE EndTakes(t)
  BY <1>4, EndTakesRows DEF OneOpenPerSeat
<1> QED BY <1>1, <1>2, <1>3, <1>4 DEF Begins, Locks, ReadsCurrent, ReadsOccupant, Closes, Quits

-----------------------------------------------------------------------------
(* The locks.                                                              *)

(* What a check-in has read of a stint it has locked is still so.          *)
ReadsHold(t) ==
  \A i \in {txn[t].current, txn[t].occupant} \cap txn[t].holds :
    txn[t].at = "reading" \/ i \in txn[t].wants => i \in Open

AllReadsHold == \A t \in Requests : ReadsHold(t)

(* No step gives a row lock to two transactions.                           *)
LEMMA LocksNext == TypeOK /\ AllSound /\ LocksAreExclusive /\ Next => LocksAreExclusive'
<1> SUFFICES ASSUME TypeOK, AllSound, LocksAreExclusive, Next PROVE LocksAreExclusive'
  OBVIOUS
<1>1. PICK t \in Requests :
           \/ \E q : Fresh(q) /\ Begins(t, q)
           \/ Locks(t) \/ ReadsCurrent(t) \/ ReadsOccupant(t)
           \/ Closes(t) \/ Opens(t) \/ EndTakes(t) \/ Quits(t)
  BY Steps
<1>2. txn \in [Requests -> Transactions] /\ txn[t] \in Transactions
  BY DEF TypeOK
<1>3. \A u \in Requests \ {t} : txn'[u].holds = txn[u].holds
  BY <1>1, <1>2 DEF Begins, Locks, ReadsCurrent, ReadsOccupant, Closes, Opens, EndTakes,
                    Quits, Answers
<1>4. CASE txn'[t].holds \subseteq txn[t].holds
  BY <1>3, <1>4 DEF LocksAreExclusive
<1>5. ASSUME NEW i, OthersHold(t, i) = {}, txn'[t].holds = txn[t].holds \cup {i}
      PROVE  LocksAreExclusive'
  BY <1>3, <1>5 DEF LocksAreExclusive, OthersHold
<1>6. ASSUME NEW q, Fresh(q), Begins(t, q) PROVE txn'[t].holds \subseteq txn[t].holds
  BY <1>2, <1>6 DEF Fresh, Begins
<1>7. CASE Locks(t)
  <2>1. PICK i \in LowestWanted(t) :
          /\ OthersHold(t, i) = {}
          /\ txn' = [txn EXCEPT ![t].wants = @ \ {i}, ![t].holds = @ \cup {i}]
    BY <1>7 DEF Locks
  <2>2. txn'[t].holds = txn[t].holds \cup {i}
    BY <1>2, <2>1 DEF Transactions
  <2> QED BY <1>5, <2>1, <2>2
<1>8. CASE Closes(t)
  <2>1. txn'[t].holds = txn[t].holds \cup {NextToClose(t)}
    BY <1>2, <1>8 DEF Closes, Transactions
  <2> QED BY <1>5, <1>8, <2>1 DEF Closes
<1>9. CASE ReadsCurrent(t)
  BY <1>2, <1>4, <1>9 DEF ReadsCurrent, Transactions
<1>10. CASE ReadsOccupant(t)
  BY <1>2, <1>4, <1>10 DEF ReadsOccupant, Transactions, Answers, Idle
<1>11. CASE Opens(t) \/ EndTakes(t) \/ Quits(t)
  BY <1>2, <1>4, <1>11 DEF Opens, EndTakes, Quits, Answers, Idle
<1> QED BY <1>1, <1>4, <1>6, <1>7, <1>8, <1>9, <1>10, <1>11

(* A row that stops being open is one the transaction that steps has       *)
(* locked, or nobody has.                                                  *)
LEMMA OnlyOwnLocksEnd ==
  ASSUME TypeOK, AllSound, LocksAreExclusive, NEW t \in Requests, NEW u \in Requests \ {t},
         Opens(t) \/ EndTakes(t)
  PROVE  \A i \in Open \cap txn[u].holds : i \in Open'
<1>1. CASE Opens(t)
  <2>1. txn[t].closes \subseteq txn[t].holds
    BY DEF AllSound, Sound
  <2> QED BY <1>1, <2>1, OpensRows DEF LocksAreExclusive
<1>2. CASE EndTakes(t)
  BY <1>2, EndTakesRows DEF OthersHold
<1> QED BY <1>1, <1>2

(* No step makes stale what a check-in read of a stint it has locked.      *)
LEMMA ReadsHoldNext ==
  TypeOK /\ AllSound /\ LocksAreExclusive /\ AllReadsHold /\ Next => AllReadsHold'
<1> SUFFICES ASSUME TypeOK, AllSound, LocksAreExclusive, AllReadsHold, Next
             PROVE  AllReadsHold'
  OBVIOUS
<1>1. PICK t \in Requests :
           \/ \E q : Fresh(q) /\ Begins(t, q)
           \/ Locks(t) \/ ReadsCurrent(t) \/ ReadsOccupant(t)
           \/ Closes(t) \/ Opens(t) \/ EndTakes(t) \/ Quits(t)
  BY Steps
<1>2. txn \in [Requests -> Transactions] /\ txn[t] \in Transactions
  BY DEF TypeOK
<1>3. \A u \in Requests \ {t} : txn'[u] = txn[u]
  BY <1>1, <1>2 DEF Begins, Locks, ReadsCurrent, ReadsOccupant, Closes, Opens, EndTakes,
                    Quits, Answers
<1>4. stint' = stint \/ Opens(t) \/ EndTakes(t)
  BY <1>1 DEF Begins, Locks, ReadsCurrent, ReadsOccupant, Closes, Quits
<1>5. ASSUME NEW u \in Requests \ {t} PROVE ReadsHold(u)'
  <2>1. txn'[u] = txn[u] /\ ReadsHold(u)
    BY <1>3 DEF AllReadsHold
  <2>2. \A i \in Open \cap txn[u].holds : i \in Open'
    BY <1>4, OnlyOwnLocksEnd DEF Open
  <2> QED BY <2>1, <2>2 DEF ReadsHold
<1>6. Sound(t) /\ Displaces(t) /\ ReadsHold(t)
  BY DEF AllSound, AllReadsHold
<1>7. SUFFICES ReadsHold(t)'
  BY <1>5 DEF AllReadsHold
<1>8. CASE txn'[t] = Idle
  BY <1>8 DEF ReadsHold, Idle
<1>9. ASSUME NEW q, Fresh(q), Begins(t, q) PROVE ReadsHold(t)'
  <2>1. txn'[t].holds = {}
    BY <1>2, <1>9 DEF Fresh, Begins
  <2> QED BY <2>1 DEF ReadsHold
<1>10. CASE Locks(t)
  <2>1. /\ txn'[t].current = NoStint /\ txn'[t].occupant = txn[t].occupant
        /\ txn'[t].at = "locking"
    BY <1>2, <1>6, <1>10 DEF Locks, Sound, Transactions
  <2>2. TypeOK' /\ NoStint \notin Stints
    BY TypeNext DEF NoStint, Stints
  <2>3. txn'[t].occupant = NoStint
    BY <1>6, <1>10, <2>1 DEF Sound, Locks
  <2>4. txn'[t].holds \subseteq Stints
    BY <2>2 DEF TypeOK, Transactions
  <2> QED BY <2>1, <2>2, <2>3, <2>4 DEF ReadsHold
<1>11. CASE ReadsCurrent(t)
  <2> DEFINE found == Found(OpenOf(txn[t].row.driver))
  <2>1. found # NoStint => found \in Open
    <3>1. OpenOf(txn[t].row.driver) \in SUBSET Stints
      BY DEF OpenOf, Open
    <3> QED BY <3>1, FoundOne DEF OpenOf
  <2> HIDE DEF found
  <2>2. txn'[t] = [txn[t] EXCEPT !.at = "reading", !.current = found]
    BY <1>2, <1>11 DEF ReadsCurrent, found
  <2>3. /\ txn'[t].current = found /\ txn'[t].occupant = NoStint
        /\ txn'[t].holds \subseteq Stints /\ txn'[t].wants = {}
    BY <1>2, <1>6, <1>11, <2>2 DEF Transactions, ReadsCurrent, Sound
  <2>4. NoStint \notin Stints /\ Open' = Open
    BY <1>11 DEF NoStint, Stints, ReadsCurrent, Open
  <2> QED BY <2>1, <2>3, <2>4 DEF ReadsHold
<1>12. CASE ReadsOccupant(t)
  <2> DEFINE occupied == OpenOn(txn[t].row.rig)
  <2>1. CASE txn'[t] # Idle
    <3>1. txn'[t] = [txn[t] EXCEPT !.at = "closing", !.occupant = Found(occupied),
                                   !.wants = ToClose(t, occupied)]
      BY <1>2, <1>12, <2>1 DEF ReadsOccupant, Answers
    <3>2. /\ txn'[t].current = txn[t].current /\ txn'[t].occupant = Found(occupied)
          /\ txn'[t].holds = txn[t].holds /\ txn'[t].at = "closing"
          /\ txn[t].at = "reading"
      BY <1>2, <1>12, <3>1 DEF Transactions, ReadsOccupant
    <3>3. occupied \in SUBSET Stints /\ occupied \subseteq Open /\ Open' = Open
      BY <1>12 DEF OpenOn, Open, ReadsOccupant
    <3>4. Found(occupied) \in Open \/ Found(occupied) = NoStint
      BY <3>3, FoundOne
    <3>5. NoStint \notin txn[t].holds
      BY <1>2 DEF Transactions, NoStint, Stints
    <3>6. txn[t].current \in txn[t].holds => txn[t].current \in Open
      BY <1>6, <3>2 DEF ReadsHold
    <3> QED BY <3>2, <3>3, <3>4, <3>5, <3>6 DEF ReadsHold
  <2> QED BY <2>1, <1>8
<1>13. CASE Closes(t)
  <2> DEFINE i == NextToClose(t)
  <2>1. txn'[t] = [txn[t] EXCEPT !.wants = @ \ {i}, !.holds = @ \cup {i},
                                 !.closes = @ \cup {i}]
    BY <1>2, <1>13 DEF Closes
  <2> HIDE DEF i
  <2>2. /\ txn'[t].wants = txn[t].wants \ {i} /\ txn'[t].holds = txn[t].holds \cup {i}
        /\ txn'[t].current = txn[t].current /\ txn'[t].occupant = txn[t].occupant
        /\ txn'[t].at = "closing"
    BY <1>2, <1>13, <2>1 DEF Transactions, Closes
  <2>3. Open' = Open
    BY <1>13 DEF Closes, Open
  <2> QED BY <1>6, <2>2, <2>3 DEF ReadsHold
<1>14. CASE Opens(t) \/ EndTakes(t) \/ Quits(t)
  BY <1>2, <1>8, <1>14 DEF Opens, EndTakes, Quits, Answers
<1> QED BY <1>1, <1>9, <1>10, <1>11, <1>12, <1>13, <1>14

-----------------------------------------------------------------------------
(* The ordered pass.                                                       *)

(* A lock pass has what comes before what it still wants.                  *)
InOrder ==
  \A t \in Requests : txn[t].at = "locking" =>
    \A i \in txn[t].holds, j \in txn[t].wants : i < j

(* Every step keeps the lock passes in order.                              *)
LEMMA InOrderNext == TypeOK /\ AllSound /\ InOrder /\ Next => InOrder'
<1> SUFFICES ASSUME TypeOK, AllSound, InOrder, Next PROVE InOrder'
  OBVIOUS
<1>1. PICK t \in Requests :
           \/ \E q : Fresh(q) /\ Begins(t, q)
           \/ Locks(t) \/ ReadsCurrent(t) \/ ReadsOccupant(t)
           \/ Closes(t) \/ Opens(t) \/ EndTakes(t) \/ Quits(t)
  BY Steps
<1>2. txn \in [Requests -> Transactions] /\ txn[t] \in Transactions
  BY DEF TypeOK
<1>3. \A u \in Requests \ {t} : txn'[u] = txn[u]
  BY <1>1, <1>2 DEF Begins, Locks, ReadsCurrent, ReadsOccupant, Closes, Opens, EndTakes,
                    Quits, Answers
<1>4. CASE txn'[t].at # "locking" \/ txn'[t].holds = {}
  BY <1>3, <1>4 DEF InOrder
<1>5. ASSUME NEW q, Fresh(q), Begins(t, q) PROVE InOrder'
  BY <1>2, <1>4, <1>5 DEF Fresh, Begins
<1>6. CASE Locks(t)
  <2>1. PICK i \in LowestWanted(t) :
          txn' = [txn EXCEPT ![t].wants = @ \ {i}, ![t].holds = @ \cup {i}]
    BY <1>6 DEF Locks
  <2>2. /\ txn'[t].wants = txn[t].wants \ {i} /\ txn'[t].holds = txn[t].holds \cup {i}
        /\ txn[t].at = "locking"
    BY <1>2, <1>6, <2>1 DEF Transactions, Locks
  <2>3. i \in txn[t].wants /\ \A j \in txn[t].wants : i <= j
    BY <2>1 DEF LowestWanted
  <2>4. \A j \in txn[t].wants \cup txn[t].holds : j \in Nat
    BY <1>2, CheckInAssumption DEF Transactions, Stints
  <2>5. ASSUME NEW k \in txn'[t].holds, NEW j \in txn'[t].wants PROVE k < j
    <3>1. CASE k = i
      BY <2>2, <2>3, <2>4, <2>5, <3>1
    <3>2. CASE k # i
      BY <2>2, <2>5, <3>2 DEF InOrder
    <3> QED BY <3>1, <3>2
  <2> QED BY <1>3, <2>5 DEF InOrder
<1>7. CASE ReadsCurrent(t)
  BY <1>2, <1>4, <1>7 DEF ReadsCurrent
<1>8. CASE ReadsOccupant(t)
  <2>1. txn'[t] = Idle \/ txn'[t].at = "closing"
    BY <1>2, <1>8 DEF ReadsOccupant, Answers, Transactions
  <2> QED BY <1>4, <2>1 DEF Idle
<1>9. CASE Closes(t)
  BY <1>2, <1>4, <1>9 DEF Closes, Transactions
<1>10. CASE Opens(t) \/ EndTakes(t) \/ Quits(t)
  BY <1>2, <1>4, <1>10 DEF Opens, EndTakes, Quits, Answers, Idle
<1> QED BY <1>1, <1>5, <1>6, <1>7, <1>8, <1>9, <1>10

(* A non-empty set of stints has a last one.                               *)
LEMMA LastStint ==
  ASSUME NEW W \in SUBSET Stints, W # {} PROVE \E i \in W : \A j \in W : ~(i < j)
<1> DEFINE T == {MaxStints - i : i \in W}
<1>1. T \subseteq Nat /\ T # {}
  <2>1. \A i \in W : MaxStints - i \in Nat
    BY CheckInAssumption DEF Stints
  <2> QED BY <2>1
<1>2. \E x \in T : \A y \in T : ~(<<y, x>> \in OpToRel(<, Nat))
  <2> HIDE DEF T
  <2> QED BY <1>1, NatLessThanWellFounded, WFMin
<1>3. PICK i \in W : \A j \in W : ~(<<MaxStints - j, MaxStints - i>> \in OpToRel(<, Nat))
  BY <1>2
<1>4. ASSUME NEW j \in W, i < j PROVE FALSE
  <2>1. /\ MaxStints - j \in Nat /\ MaxStints - i \in Nat
        /\ MaxStints - j < MaxStints - i
    BY <1>4, CheckInAssumption DEF Stints
  <2>2. <<MaxStints - j, MaxStints - i>> \in OpToRel(<, Nat)
    BY <2>1 DEF OpToRel
  <2> QED BY <1>3, <2>2
<1> QED BY <1>4

(* In a ring of lock passes, whoever holds a row the ring waits for waits  *)
(* itself for a later one: there would be no last.                         *)
LEMMA NoRingOfPasses ==
  TypeOK /\ AllSound /\ InOrder => OrderedPassNeverDeadlocks
<1> SUFFICES ASSUME TypeOK, AllSound, InOrder,
                    NEW ring \in SUBSET Requests, Deadlocked(ring),
                    \A t \in ring : txn[t].at # "closing"
             PROVE  FALSE
  BY DEF OrderedPassNeverDeadlocks
<1> DEFINE W == {i \in Stints : \E v \in ring : i \in txn[v].holds}
<1>1. ASSUME NEW t \in ring
      PROVE  \E i \in txn[t].wants : \E v \in ring : i \in txn[v].holds
  <2>1. PICK v \in ring : v \in WaitsFor(t)
    BY DEF Deadlocked
  <2>2. txn[t].at \in {"locking", "ending"}
    BY <2>1 DEF WaitsFor
  <2>3. PICK i \in txn[t].wants : v \in OthersHold(t, i)
    BY <2>1, <2>2 DEF WaitsFor, LowestWanted
  <2> QED BY <2>3 DEF OthersHold
<1>2. W # {}
  <2>1. PICK t \in ring : TRUE
    BY DEF Deadlocked
  <2> QED BY <1>1, <2>1 DEF TypeOK, Transactions
<1>3. PICK i \in W : \A j \in W : ~(i < j)
  <2> HIDE DEF W
  <2>1. W \in SUBSET Stints
    BY DEF W
  <2> QED BY <1>2, <2>1, LastStint
<1>4. PICK v \in ring : i \in txn[v].holds
  OBVIOUS
<1>5. txn[v].at = "locking"
  <2>1. txn[v].at \in {"idle", "locking", "reading", "closing", "ending"} /\ Sound(v)
    BY DEF TypeOK, Transactions, AllSound
  <2>2. txn[v].at # "reading"
    BY DEF Deadlocked, WaitsFor
  <2> QED BY <1>4, <2>1, <2>2 DEF Sound
<1>6. PICK j \in txn[v].wants : \E u \in ring : j \in txn[u].holds
  BY <1>1, <1>4
<1>7. i < j
  BY <1>4, <1>5, <1>6 DEF InOrder
<1>8. j \in W
  BY <1>6 DEF TypeOK, Transactions
<1> QED BY <1>3, <1>7, <1>8

-----------------------------------------------------------------------------
(* The inductive invariant, and what follows from it.                      *)

IInv ==
  /\ TypeOK /\ AllSound /\ OneOpenPerSeat
  /\ LocksAreExclusive /\ AllReadsHold /\ InOrder

(* The inductive invariant, at the start.                                  *)
LEMMA InvInit == Init => IInv
<1> SUFFICES ASSUME Init PROVE IInv
  OBVIOUS
<1>1. TypeOK
  BY TypeInit
<1>2. \A t \in Requests : txn[t] = Idle
  BY DEF Init
<1>3. AllSound
  BY <1>2, IdleIsSound DEF AllSound
<1>4. OneOpenPerSeat
  BY DEF Init, OneOpenPerSeat, Open, NoRow
<1>5. LocksAreExclusive /\ AllReadsHold /\ InOrder
  BY <1>2 DEF LocksAreExclusive, AllReadsHold, ReadsHold, InOrder, Idle
<1> QED BY <1>1, <1>3, <1>4, <1>5 DEF IInv

(* The inductive invariant, at every step.                                 *)
LEMMA InvNext == IInv /\ [Next]_vars => IInv'
<1>1. IInv /\ Next => IInv'
  BY TypeNext, SoundNext, OneOpenNext, LocksNext, ReadsHoldNext, InOrderNext DEF IInv
<1>2. IInv /\ UNCHANGED vars => IInv'
  BY DEF IInv, vars, TypeOK, AllSound, Sound, Displaces, Used, OneOpenPerSeat, Open,
         LocksAreExclusive, AllReadsHold, ReadsHold, InOrder
<1> QED BY <1>1, <1>2

(* Every reachable state satisfies the inductive invariant.                *)
THEOREM Invariance == Spec => []IInv
<1> QED BY InvInit, InvNext, PTL DEF Spec

(* Type correctness of the rows and the transactions.                      *)
THEOREM TypeCorrect == Spec => []TypeOK
<1>1. IInv => TypeOK
  BY DEF IInv
<1> QED BY <1>1, Invariance, PTL

(* checkin_driver and the unique indexes keep the attribution invariant:   *)
(* one open stint to a rig and to a driver, for any number of phones.      *)
THEOREM OneOpen == Spec => []OneOpenPerSeat
<1>1. IInv => OneOpenPerSeat
  BY DEF IInv
<1> QED BY <1>1, Invariance, PTL

(* No one ends a stint that a check-in has locked and read.                *)
THEOREM LocksWork == Spec => []LockedStintsStayOpen
<1>1. IInv => LockedStintsStayOpen
  BY DEF IInv, LockedStintsStayOpen, AllReadsHold, ReadsHold
<1> QED BY <1>1, Invariance, PTL

(* The lock pass of checkin_driver cannot deadlock with other lock passes  *)
(* and with the updates that end a stint: a ring needs a check-in that is  *)
(* already closing.                                                        *)
THEOREM OrderedPass == Spec => []OrderedPassNeverDeadlocks
<1>1. IInv => OrderedPassNeverDeadlocks
  BY NoRingOfPasses DEF IInv
<1> QED BY <1>1, Invariance, PTL

(* No check-in ends a driver's stint without the confirmation for it.      *)
THEOREM Confirmed == Spec => DisplacedOnlyIfConfirmed
<1> DEFINE Conf == \A i \in Open : \A t \in Requests : stint[i] # stint'[i] /\ Opens(t) =>
       IF stint[i].driver = txn[t].row.driver THEN "move" \in txn[t].confirms
                                              ELSE "takeover" \in txn[t].confirms
<1>1. IInv /\ [Next]_vars => [Conf]_vars
  <2> SUFFICES ASSUME IInv, NEW i \in Open, NEW t \in Requests,
                      stint[i] # stint'[i], Opens(t)
               PROVE  IF stint[i].driver = txn[t].row.driver
                      THEN "move" \in txn[t].confirms ELSE "takeover" \in txn[t].confirms
    OBVIOUS
  <2>1. TypeOK /\ AllSound /\ Displaces(t)
    BY DEF IInv, AllSound
  <2>2. i \in txn[t].closes
    BY <2>1, OpensRows
  <2>3. txn[t].at = "closing"
    BY DEF Opens
  <2> QED BY <2>1, <2>2, <2>3 DEF Displaces
<1> QED BY <1>1, Invariance, PTL DEF Spec, DisplacedOnlyIfConfirmed

-----------------------------------------------------------------------------
(* Refinement: every step is a step of Seats or leaves the seats alone.    *)

(* A rig with an open stint seats its driver.                              *)
LEMMA SeatedBy ==
  ASSUME TypeOK, OneOpenPerSeat, NEW r \in Rigs
  PROVE  /\ \A i \in OpenOn(r) : Seating[r] = stint[i].driver /\ Seating[r] \in Drivers
         /\ OpenOn(r) = {} => Seating[r] = Nobody
<1>1. ASSUME NEW i \in OpenOn(r)
      PROVE  Seating[r] = stint[i].driver /\ Seating[r] \in Drivers
  <2>1. \A j \in OpenOn(r) : j = i
    BY DEF OneOpenPerSeat, OpenOn
  <2>2. (CHOOSE j \in OpenOn(r) : TRUE) = i
    BY <2>1
  <2>3. stint[i].driver \in Drivers
    BY RowsOfAType DEF OpenOn, Rows
  <2> QED BY <2>2, <2>3 DEF Seating
<1> QED BY <1>1 DEF Seating

(* Every step is a whole arrival, a whole departure, or neither.           *)
LEMMA SeatStep == IInv /\ IInv' /\ Next => Table!Next \/ UNCHANGED Seating
<1> SUFFICES ASSUME IInv, IInv', Next PROVE Table!Next \/ UNCHANGED Seating
  OBVIOUS
<1>1. TypeOK /\ AllSound /\ OneOpenPerSeat /\ TypeOK' /\ OneOpenPerSeat'
  BY DEF IInv
<1>2. PICK t \in Requests :
           \/ \E q : Fresh(q) /\ Begins(t, q)
           \/ Locks(t) \/ ReadsCurrent(t) \/ ReadsOccupant(t)
           \/ Closes(t) \/ Opens(t) \/ EndTakes(t) \/ Quits(t)
  BY <1>1, Steps
<1>3. CASE stint' = stint
  BY <1>3 DEF Seating, OpenOn, Open
<1>4. CASE Opens(t)
  <2>1. PICK d \in Drivers, r \in Rigs : d = txn[t].row.driver /\ r = txn[t].row.rig
    BY <1>1, <1>4 DEF Opens, AllSound, Sound
  <2>2. PICK new \in Stints :
           /\ Open' = (Open \ txn[t].closes) \cup {new}
           /\ new \notin Open /\ stint'[new] = txn[t].row
           /\ \A i \in Open \ txn[t].closes : stint'[i] = stint[i]
           /\ \A i \in Open : stint[i].rig = r \/ stint[i].driver = d => i \in txn[t].closes
    BY <1>1, <1>4, <2>1, OpensRows
  <2>3. \A i \in txn[t].closes : \/ stint[i].driver = d /\ stint[i].rig # r
                                 \/ stint[i].driver # d /\ stint[i].rig = r
    BY <1>1, <1>4, <2>1 DEF Opens, AllSound, Displaces
  <2>4. Seating[r] # d
    <3>1. CASE OpenOn(r) = {}
      BY <1>1, <2>1, <3>1, SeatedBy, CheckInAssumption
    <3>2. ASSUME NEW i \in OpenOn(r) PROVE Seating[r] # d
      <4>1. i \in Open /\ stint[i].rig = r
        BY DEF OpenOn
      <4>2. stint[i].driver # d
        BY <2>2, <2>3, <4>1
      <4> QED BY <1>1, <2>1, <4>2, SeatedBy
    <3> QED BY <3>1, <3>2
  <2>5. Seating'[r] = d
    <3>1. new \in OpenOn(r)'
      BY <2>1, <2>2 DEF OpenOn
    <3>2. \A j \in OpenOn(r)' : j = new
      BY <1>1, <3>1 DEF OneOpenPerSeat, OpenOn
    <3>3. (CHOOSE j \in OpenOn(r)' : TRUE) = new
      BY <3>1, <3>2
    <3> QED BY <2>1, <2>2, <3>1, <3>3 DEF Seating
  <2>6. ASSUME NEW q \in Rigs, q # r
        PROVE  Seating'[q] = IF Seating[q] = d THEN Nobody ELSE Seating[q]
    <3>1. OpenOn(q)' = {i \in OpenOn(q) : stint[i].driver # d}
      <4>1. ASSUME NEW i \in Open PROVE
              i \in Open' /\ stint'[i].rig = q <=> stint[i].rig = q /\ stint[i].driver # d
        BY <2>1, <2>2, <2>3, <2>6
      <4>2. ~(stint'[new].rig = q)
        BY <2>1, <2>2, <2>6
      <4> QED BY <2>2, <4>1, <4>2 DEF OpenOn
    <3>2. CASE OpenOn(q) = {}
      <4>1. OpenOn(q)' = {}
        BY <3>1, <3>2
      <4> QED BY <1>1, <2>1, <3>2, <4>1, SeatedBy DEF Seating
    <3>3. ASSUME NEW i \in OpenOn(q)
          PROVE  Seating'[q] = IF Seating[q] = d THEN Nobody ELSE Seating[q]
      <4>1. OpenOn(q) = {i} /\ Seating[q] = stint[i].driver
        BY <1>1, <3>3, SeatedBy DEF OneOpenPerSeat, OpenOn
      <4>2. CASE stint[i].driver = d
        <5>1. OpenOn(q)' = {}
          BY <3>1, <4>1, <4>2
        <5> QED BY <4>1, <4>2, <5>1 DEF Seating
      <4>3. CASE stint[i].driver # d
        <5>1. OpenOn(q)' = {i}
          BY <3>1, <4>1, <4>3
        <5>2. stint'[i] = stint[i]
          <6>1. i \in Open /\ i \in Open' /\ i # new
            BY <2>2, <3>3, <5>1 DEF OpenOn
          <6> QED BY <2>2, <6>1
        <5> QED BY <4>1, <4>3, <5>1, <5>2 DEF Seating
      <4> QED BY <4>2, <4>3
    <3> QED BY <3>2, <3>3
  <2>7. Seating' = [q \in Rigs |-> IF q = r THEN d
                                   ELSE IF Seating[q] = d THEN Nobody ELSE Seating[q]]
    <3>1. \A q \in Rigs : Seating'[q] = IF q = r THEN d
                                        ELSE IF Seating[q] = d THEN Nobody ELSE Seating[q]
      BY <2>5, <2>6
    <3>2. Seating' = [q \in Rigs |-> Seating'[q]]
      BY DEF Seating
    <3> QED BY <3>1, <3>2
  <2> QED BY <2>1, <2>4, <2>5, <2>7 DEF Table!Next, Table!Arrive
<1>5. CASE EndTakes(t)
  <2>1. PICK i \in Open : /\ Open' = Open \ {i}
                          /\ \A j \in Open \ {i} : stint'[j] = stint[j]
    BY <1>1, <1>5, EndTakesRows
  <2>2. PICK r \in Rigs : i \in OpenOn(r)
    BY <1>1, RowsOfAType DEF Rows, OpenOn
  <2>3. Seating[r] # Nobody
    BY <1>1, <2>2, SeatedBy, CheckInAssumption
  <2>4. OpenOn(r)' = {}
    BY <1>1, <2>1, <2>2 DEF OpenOn, OneOpenPerSeat
  <2>5. Seating'[r] = Nobody
    BY <2>2, <2>4 DEF Seating
  <2>6. ASSUME NEW q \in Rigs, q # r PROVE Seating'[q] = Seating[q]
    <3>1. OpenOn(q)' = OpenOn(q) /\ i \notin OpenOn(q)
      BY <2>1, <2>2, <2>6 DEF OpenOn
    <3>2. \A j \in OpenOn(q) : stint'[j] = stint[j]
      BY <2>1, <3>1 DEF OpenOn
    <3> QED BY <3>1, <3>2 DEF Seating
  <2>7. Seating' = [Seating EXCEPT ![r] = Nobody]
    <3>1. \A q \in Rigs : Seating'[q] = [Seating EXCEPT ![r] = Nobody][q]
      BY <2>5, <2>6 DEF Seating
    <3>2. Seating' = [q \in Rigs |-> Seating'[q]] /\ Seating = [q \in Rigs |-> Seating[q]]
      BY DEF Seating
    <3> QED BY <3>1, <3>2
  <2> QED BY <2>2, <2>3, <2>5, <2>7 DEF Table!Next, Table!Leave
<1> QED BY <1>2, <1>3, <1>4, <1>5 DEF Begins, Locks, ReadsCurrent, ReadsOccupant, Closes, Quits

(* Whatever transactions overlap, conflict, deadlock or roll back, who     *)
(* sits where changes by whole check-ins and whole sign-outs.              *)
THEOREM Implements == Spec => ImplementsSeats
<1>1. Init => Table!Init
  BY DEF Init, Table!Init, Seating, OpenOn, Open, NoRow
<1>2. IInv /\ IInv' /\ [Next]_vars => [Table!Next]_Seating
  <2>1. CASE Next
    BY <2>1, SeatStep
  <2>2. CASE UNCHANGED vars
    BY <2>2 DEF vars, Seating, OpenOn, Open
  <2> QED BY <2>1, <2>2
<1> QED BY <1>1, <1>2, Invariance, PTL DEF Spec, ImplementsSeats, Table!Spec
=============================================================================
