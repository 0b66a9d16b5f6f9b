----------------------------- MODULE AutoScroll -----------------------------
(***************************************************************************)
(* The list of the event view of /tv (components/tv/auto-scroll.tsx): it    *)
(* scrolls on its own until somebody takes it in hand, and goes back to     *)
(* scrolling once nobody has touched it for a while.                        *)
(*                                                                          *)
(* Timers count down. Time is the caller's: `Elapses` is what one unit of   *)
(* it does here. A finger's lift may go to a row the list has just          *)
(* replaced, so what the frame believes (`touches`) and what is so          *)
(* (`finger`) are two variables.                                            *)
(***************************************************************************)
EXTENDS Integers

CONSTANTS
  IdleResume,   \* IDLE_RESUME_MS
  StaleTouch    \* STALE_TOUCH_MS

ASSUME ListTimesAssumption ==
  IdleResume \in Nat \ {0} /\ StaleTouch \in Nat \ {0}

VARIABLES
  overflows,   \* there are more rows than fit
  held,        \* heldRef.current: somebody has the list
  idleTimer,   \* idleTimer.current: what is left of it, or Unset
  touches,     \* touches.current: the fingers the frame believes are down
  drag,        \* drag.current # null: a mouse or pen has hold of the list
  sinceTouch,  \* Date.now() - lastTouchAt.current, up to StaleTouch
  finger,      \* a finger really is on the glass
  handsOff,    \* time since the frame last heard of a hand
  rowsAgo      \* time since a refresh last moved rows the frame believes a
               \* finger is on

frame == <<held, idleTimer, touches, drag, sinceTouch, finger, handsOff, rowsAgo>>

Unset == -1

LeastOf(a, b) == IF a < b THEN a ELSE b

ListInit ==
  /\ overflows = FALSE
  /\ held = FALSE
  /\ idleTimer = Unset
  /\ touches = 0
  /\ drag = FALSE
  /\ sinceTouch = StaleTouch
  /\ finger = FALSE
  /\ handsOff = IdleResume + StaleTouch + 1
  /\ rowsAgo = IdleResume + 1

(* armIdle() *)
ArmIdle == idleTimer' = IdleResume

(* takeOver(): only a list that overflows can be taken. *)
TakeOver == held' = (held \/ overflows)

HeardOfAHand == handsOff' = 0 /\ UNCHANGED rowsAgo

(* onPointerDown, then onTouchStart, of a finger. *)
Touches ==
  /\ ~finger
  /\ finger' = TRUE
  /\ touches' = 1
  /\ sinceTouch' = 0
  /\ TakeOver
  /\ ArmIdle
  /\ HeardOfAHand
  /\ UNCHANGED drag

(* onTouchMove: the finger is heard of, the timer stays as it is. *)
Swipes ==
  /\ finger
  /\ touches = 1
  /\ sinceTouch' = 0
  /\ HeardOfAHand
  /\ UNCHANGED <<held, idleTimer, touches, drag, finger>>

(* onTouchEnd and onTouchCancel, unless the lift went to a replaced row.    *)
Lifts(heard) ==
  /\ finger
  /\ finger' = FALSE
  /\ IF heard
       THEN touches' = 0 /\ sinceTouch' = 0 /\ ArmIdle /\ HeardOfAHand
       ELSE UNCHANGED <<touches, sinceTouch, idleTimer, handsOff, rowsAgo>>
  /\ UNCHANGED <<held, drag>>

(* onPointerDown of a mouse or pen, which starts a drag (dragsToScroll).    *)
Presses ==
  /\ ~drag
  /\ drag' = TRUE
  /\ sinceTouch' = 0
  /\ TakeOver
  /\ ArmIdle
  /\ HeardOfAHand
  /\ UNCHANGED <<touches, finger>>

(* onPointerMove while dragging: the frame's own scroll follows the pointer *)
(* (dragScrollTop), which onScroll hears of unless the list is at its end.  *)
Drags(scrolls) ==
  /\ drag
  /\ sinceTouch' = 0
  /\ scrolls => overflows
  /\ IF scrolls THEN TakeOver /\ ArmIdle ELSE UNCHANGED <<held, idleTimer>>
  /\ HeardOfAHand
  /\ UNCHANGED <<touches, drag, finger>>

(* onLostPointerCapture *)
Releases ==
  /\ drag
  /\ drag' = FALSE
  /\ ArmIdle
  /\ HeardOfAHand
  /\ UNCHANGED <<held, touches, sinceTouch, finger>>

(* onWheel, and onScroll of a scroll the other handlers did not see: a      *)
(* keyboard, or a flick that still runs.                                    *)
Wheels ==
  /\ TakeOver
  /\ ArmIdle
  /\ HeardOfAHand
  /\ UNCHANGED <<touches, drag, sinceTouch, finger>>

(* resumeIfIdle() of armIdle: a finger or drag that is fresh defers it, one *)
(* that is not is a lift the frame missed.                                  *)
BelievedDown == touches # 0 \/ drag

StillDown ==
  /\ BelievedDown
  /\ sinceTouch < StaleTouch

ResumesIfIdle ==
  /\ idleTimer = 0
  /\ IF StillDown
       THEN ArmIdle /\ UNCHANGED <<touches, drag, held>>
       ELSE /\ idleTimer' = Unset
            /\ touches' = 0
            /\ drag' = FALSE
            /\ held' = FALSE
  /\ UNCHANGED <<sinceTouch, finger, handsOff, rowsAgo>>

(* The rows changed: the ResizeObserver measures them, and the browser's    *)
(* scroll anchoring may move a held list to keep the same rows in view.     *)
(* onScroll leaves that scroll out of the idle clock unless the frame       *)
(* believes a finger is down: nobody made it, and it starts the clock anew. *)
Measured(more) == overflows' = more

RowsChange(more, scrolled) ==
  /\ Measured(more)
  /\ IF held /\ scrolled /\ touches # 0
       THEN ArmIdle /\ rowsAgo' = 0
       ELSE UNCHANGED <<idleTimer, rowsAgo>>
  /\ UNCHANGED <<held, touches, drag, sinceTouch, finger, handsOff>>

HandOnTheList ==
  \/ Touches \/ Swipes
  \/ \E heard \in BOOLEAN : Lifts(heard)
  \/ \E scrolls \in BOOLEAN : Drags(scrolls)
  \/ Presses \/ Releases \/ Wheels

(* One unit of time, which waits for a timer that is due. *)
MayElapse == idleTimer # 0

Elapses ==
  /\ idleTimer' = IF idleTimer = Unset THEN Unset ELSE idleTimer - 1
  /\ sinceTouch' = LeastOf(sinceTouch + 1, StaleTouch)
  /\ handsOff' = LeastOf(handsOff + 1, IdleResume + StaleTouch + 1)
  /\ rowsAgo' = LeastOf(rowsAgo + 1, IdleResume + 1)
  /\ UNCHANGED <<held, touches, drag, finger>>

(* A display that sleeps: its timers are due as it wakes, and nobody was    *)
(* there.                                                                   *)
ListSleeps ==
  /\ idleTimer' = IF idleTimer = Unset THEN Unset ELSE 0
  /\ sinceTouch' = StaleTouch
  /\ UNCHANGED <<overflows, held, touches, drag, finger, handsOff, rowsAgo>>
=============================================================================
