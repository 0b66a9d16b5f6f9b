------------------------------- MODULE CheckIn -------------------------------
(***************************************************************************)
(* The rig assignments as Postgres keeps them: checkin_driver, statement   *)
(* by statement under READ COMMITTED, and the single updates that end a    *)
(* stint (session/end, agent/checkout, staff/clear-rig).                   *)
(*                                                                         *)
(* A statement sees what was committed when it began, waits for the row    *)
(* locks it needs, and what a transaction wrote shows when it commits.     *)
(* The last statement of a transaction and its commit are one step.        *)
(***************************************************************************)
EXTENDS Naturals, FiniteSets

CONSTANTS
  Drivers, Rigs,
  MaxStints,      \* bounds the rows rig_assignments ever has
  Requests,       \* bounds the requests being served at once
  Confirmations,  \* the sets of confirmations a phone sends
  Nobody          \* no driver

ASSUME CheckInAssumption ==
  /\ MaxStints \in Nat
  /\ Nobody \notin Drivers
  /\ Confirmations \subseteq SUBSET {"move", "takeover"}

VARIABLES
  stint,  \* the committed rows of rig_assignments
  txn     \* the transactions in progress, and what each has read and locked

vars == <<stint, txn>>
-----------------------------------------------------------------------------
Stints   == 1 .. MaxStints  \* in the order of their ids
NoStint  == 0               \* a select that found no row

(* driver_ended, switched and staff_cleared are all "ended".               *)
Ended    == {"moved", "takeover", "ended"}
NoRow    == [driver |-> Nobody, rig |-> Nobody, end |-> "unused"]
Rows     == [driver : Drivers, rig : Rigs, end : Ended \cup {"open"}]
Idle     == [at |-> "idle", row |-> NoRow, confirms |-> {}, wants |-> {}, holds |-> {},
             current |-> NoStint, occupant |-> NoStint, closes |-> {}]

Transactions ==
  [at       : {"idle", "locking", "reading", "closing", "ending"},
   row      : [driver : Drivers \cup {Nobody}, rig : Rigs \cup {Nobody},
               end : {"open", "ended", "unused"}],  \* to insert, or whom to end
   confirms : SUBSET {"move", "takeover"},
   wants    : SUBSET Stints,               \* the row locks it has yet to take
   holds    : SUBSET Stints,               \* the row locks it has
   current  : Stints \cup {NoStint},       \* v_current
   occupant : Stints \cup {NoStint},       \* v_occupant
   closes   : SUBSET Stints]               \* the stints it has ended, uncommitted

TypeOK ==
  /\ stint \in [Stints -> Rows \cup {NoRow}]
  /\ txn \in [Requests -> Transactions]

Init ==
  /\ stint = [i \in Stints |-> NoRow]
  /\ txn = [t \in Requests |-> Idle]
-----------------------------------------------------------------------------
Open        == {i \in Stints : stint[i].end = "open"}
OpenOf(d)   == {i \in Open : stint[i].driver = d}
OpenOn(r)   == {i \in Open : stint[i].rig = r}

(* A select ... into: the row it finds, or null.                           *)
Found(rows) == IF rows = {} THEN NoStint ELSE CHOOSE i \in rows : TRUE

OthersHold(t, i) == {u \in Requests \ {t} : i \in txn[u].holds}

Begins(t, request) ==
  /\ txn[t] = Idle
  /\ txn' = [txn EXCEPT ![t] = request]
  /\ UNCHANGED stint

Answers(t) == txn' = [txn EXCEPT ![t] = Idle]
-----------------------------------------------------------------------------
(* checkin_driver.                                                         *)

Room == Cardinality({i \in Stints : stint[i] = NoRow})
          > Cardinality({t \in Requests : txn[t].row.end = "open"})

(* The lock pass finds its candidates as it starts, and takes them in the  *)
(* order of their ids.                                                     *)
StartsCheckIn(t, d, r, confirms) ==
  /\ Room
  /\ Begins(t, [Idle EXCEPT !.at = "locking",
                            !.row = [driver |-> d, rig |-> r, end |-> "open"],
                            !.confirms = confirms,
                            !.wants = OpenOf(d) \cup OpenOn(r)])

AnyWanted(t) == txn[t].wants
LowestWanted(t) == {i \in txn[t].wants : \A j \in txn[t].wants : i <= j}

Locks(t) ==
  /\ txn[t].at = "locking"
  /\ \E i \in LowestWanted(t) :
       /\ OthersHold(t, i) = {}
       /\ txn' = [txn EXCEPT ![t].wants = @ \ {i}, ![t].holds = @ \cup {i}]
  /\ UNCHANGED stint

ReadsCurrent(t) ==
  /\ txn[t].at = "locking"
  /\ txn[t].wants = {}
  /\ txn' = [txn EXCEPT ![t].at = "reading", ![t].current = Found(OpenOf(txn[t].row.driver))]
  /\ UNCHANGED stint

(* The stint on another rig that a check-in moves away from.               *)
MovesFrom(t) ==
  {i \in {txn[t].current} \ {NoStint} : stint[i].rig # txn[t].row.rig}

NeedsNoTakeover(t, occupied) == MovesFrom(t) # {} /\ "move" \notin txn[t].confirms
Unconfirmed(t, occupied) ==
  \/ MovesFrom(t) # {} /\ "move" \notin txn[t].confirms
  \/ occupied # {} /\ "takeover" \notin txn[t].confirms

ToClose(t, occupied) == MovesFrom(t) \cup occupied

(* already_checked_in and needs_confirmation end the transaction here.     *)
ReadsOccupant(t) ==
  /\ txn[t].at = "reading"
  /\ LET occupied == OpenOn(txn[t].row.rig)
         already  == occupied \cap OpenOf(txn[t].row.driver) # {}
     IN  IF already \/ Unconfirmed(t, occupied)
         THEN Answers(t)
         ELSE txn' = [txn EXCEPT ![t].at = "closing",
                                 ![t].occupant = Found(occupied),
                                 ![t].wants = ToClose(t, occupied)]
  /\ UNCHANGED stint

(* update ... where id = v_current.id, then where id = v_occupant.id: the  *)
(* row is closed whether or not it is still open once the lock is ours.    *)
NextToClose(t) == IF txn[t].current \in txn[t].wants THEN txn[t].current
                                                     ELSE txn[t].occupant

Closes(t) ==
  /\ txn[t].at = "closing"
  /\ txn[t].wants # {}
  /\ OthersHold(t, NextToClose(t)) = {}
  /\ txn' = [txn EXCEPT ![t].wants  = @ \ {NextToClose(t)},
                        ![t].holds  = @ \cup {NextToClose(t)},
                        ![t].closes = @ \cup {NextToClose(t)}]
  /\ UNCHANGED stint

(* The rows the insert collides with in the two partial unique indexes.    *)
CollidesOnRig(t) == OpenOn(txn[t].row.rig) \ txn[t].closes
Collides(t) == (OpenOn(txn[t].row.rig) \cup OpenOf(txn[t].row.driver)) \ txn[t].closes

EndReason(t, i) == IF i = txn[t].current THEN "moved" ELSE "takeover"

Opens(t) ==
  /\ txn[t].at = "closing"
  /\ txn[t].wants = {}
  /\ Collides(t) = {}
  /\ \E new \in Stints :
       /\ stint[new] = NoRow
       /\ stint' = [i \in Stints |->
            IF i = new THEN txn[t].row
            ELSE IF i \in txn[t].closes THEN [stint[i] EXCEPT !.end = EndReason(t, i)]
            ELSE stint[i]]
  /\ Answers(t)

(* A row another transaction is closing is waited for; any other is a      *)
(* unique violation, which the route answers with conflict_retry.          *)
Conflicts(t) ==
  /\ txn[t].at = "closing"
  /\ txn[t].wants = {}
  /\ \E i \in Collides(t) : \A u \in Requests : i \notin txn[u].closes
  /\ Answers(t)
  /\ UNCHANGED stint
-----------------------------------------------------------------------------
(* The updates that end a stint: one statement each, answered at once when *)
(* its snapshot has no open row to end.                                    *)

Ends(t, rows, d, r) ==
  /\ rows # {}
  /\ Begins(t, [Idle EXCEPT !.at = "ending", !.wants = rows,
                            !.row = [driver |-> d, rig |-> r, end |-> "ended"]])

(* session/end; staff/clear-rig and an unnamed agent/checkout; and an      *)
(* agent/checkout that names its stint.                                    *)
EndsSession(t, d)       == Ends(t, OpenOf(d), d, Nobody)
ClearsRig(t, r)         == Ends(t, OpenOn(r), Nobody, r)
ChecksOut(t, r, i)      == Ends(t, OpenOn(r) \cap {i}, Nobody, r)

(* Once the lock is free the where clause is tried again on the row as it  *)
(* now is.                                                                 *)
EndTakes(t) ==
  /\ txn[t].at = "ending"
  /\ \E i \in txn[t].wants \cap Open :
       /\ OthersHold(t, i) = {}
       /\ stint' = [stint EXCEPT ![i].end = txn[t].row.end]
  /\ Answers(t)

EndMisses(t) ==
  /\ txn[t].at = "ending"
  /\ \A i \in txn[t].wants : i \notin Open /\ OthersHold(t, i) = {}
  /\ Answers(t)
  /\ UNCHANGED stint
-----------------------------------------------------------------------------
(* A lost connection or an instance that goes away rolls back.             *)
RollsBack(t) ==
  /\ txn[t] # Idle
  /\ Answers(t)
  /\ UNCHANGED stint

WaitsFor(t) ==
  CASE txn[t].at = "locking" -> UNION {OthersHold(t, i) : i \in LowestWanted(t)}
    [] txn[t].at = "closing" /\ txn[t].wants # {} -> OthersHold(t, NextToClose(t))
    [] txn[t].at = "closing" /\ txn[t].wants = {} ->
         {u \in Requests \ {t} : txn[u].closes \cap Collides(t) # {}}
    [] txn[t].at = "ending"  -> UNION {OthersHold(t, i) : i \in txn[t].wants}
    [] OTHER -> {}

(* Everyone in ring waits for someone in it.                               *)
Deadlocked(ring) ==
  /\ ring # {}
  /\ \A t \in ring : WaitsFor(t) \cap ring # {}

(* deadlock_timeout: Postgres picks a transaction of the ring to fail.     *)
DeadlockFails(t) ==
  /\ \E ring \in SUBSET Requests :
       t \in ring /\ Deadlocked(ring) /\ \E u \in ring : t \in WaitsFor(u)
  /\ Answers(t)
  /\ UNCHANGED stint
-----------------------------------------------------------------------------
Starts(t) ==
  \/ \E d \in Drivers, r \in Rigs, c \in Confirmations :
       StartsCheckIn(t, d, r, c)
  \/ \E d \in Drivers : EndsSession(t, d)
  \/ \E r \in Rigs : ClearsRig(t, r)
  \/ \E r \in Rigs, i \in Stints : ChecksOut(t, r, i)

Proceeds(t) ==
  \/ Locks(t) \/ ReadsCurrent(t) \/ ReadsOccupant(t)
  \/ Closes(t) \/ Opens(t) \/ Conflicts(t)
  \/ EndTakes(t) \/ EndMisses(t)
  \/ DeadlockFails(t)

Next == \E t \in Requests : Starts(t) \/ Proceeds(t) \/ RollsBack(t)

Spec == Init /\ [][Next]_vars

-----------------------------------------------------------------------------
(* Safety.                                                                 *)

(* The attribution invariant: at most one open stint to a rig and to a     *)
(* driver, however many phones scan at once.                               *)
OneOpenPerSeat ==
  \A i, j \in Open :
    stint[i].rig = stint[j].rig \/ stint[i].driver = stint[j].driver => i = j

(* The row locks do their work: what a check-in read of a stint it has     *)
(* locked is still so when it closes it.                                   *)
LockedStintsStayOpen ==
  \A t \in Requests : \A i \in {txn[t].current, txn[t].occupant} \cap txn[t].holds :
    i \in txn[t].wants => i \in Open

(* The ordered pass never deadlocks by itself: two drivers swapping rigs,  *)
(* and whoever signs them out meanwhile, wait for each other in a ring only *)
(* once a check-in of the ring is past the pass and meets a stint it never *)
(* locked there, one that was opened after the pass looked.                *)
OrderedPassNeverDeadlocks ==
  \A ring \in SUBSET Requests :
    Deadlocked(ring) => \E t \in ring : txn[t].at = "closing"

(* A driver is put out of a rig by a check-in that confirmed the takeover, *)
(* and is moved by one of its own that confirmed the move, whatever else   *)
(* was checked in or ended while the request was being served.             *)
DisplacedOnlyIfConfirmed ==
  [][\A i \in Open : \A t \in Requests : stint[i] # stint'[i] /\ Opens(t) =>
       IF stint[i].driver = txn[t].row.driver THEN "move" \in txn[t].confirms
                                              ELSE "takeover" \in txn[t].confirms]_vars

(* Who sits where changes by whole check-ins and sign-outs.                *)
Seating == [r \in Rigs |-> IF OpenOn(r) = {} THEN Nobody
                           ELSE stint[CHOOSE i \in OpenOn(r) : TRUE].driver]

Table == INSTANCE Seats WITH seat <- Seating
ImplementsSeats == Table!Spec
=============================================================================
