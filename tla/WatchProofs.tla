----------------------------- MODULE WatchProofs -----------------------------
(***************************************************************************)
(* Proofs about VenueWatch, for any rigs, boards, windows and number of    *)
(* runs still posting, and about RigWatch, for any reports, clock offset   *)
(* and windows.                                                            *)
(*                                                                         *)
(* A failed post puts back only the latest flip: each flip claimed         *)
(* remembers the time of the one it replaced, so the times the pending     *)
(* flips, the told one and the stored mode carry are nested (FlipsNest).   *)
(*                                                                         *)
(* A reported silence is not forgotten: what an evaluation finds silent is *)
(* a rig not heard since and that never said goodbye (SilencesStand), and  *)
(* rule 1 finds such a rig again for as long as it stays so.               *)
(*                                                                         *)
(* A venue that goes dark is quiet: while nothing happens but heartbeats,  *)
(* a warning stands only while the rigs are apart, and one going away has  *)
(* missed too few evaluations for its rig to be silent again (NightSound). *)
(* Once apart, the rigs stay apart until the warned one is heard.          *)
(*                                                                         *)
(* What one rig's heartbeats tell: none was on its way for longer than it  *)
(* can be (BeatsSound), the last of a process in send order is the last it *)
(* sent (StateIs, SentInOrder), and what is found on a rig has a place on  *)
(* its lane (Placed).                                                      *)
(***************************************************************************)
EXTENDS VenueWatch, RigWatch, FiniteSetTheorems, SequenceTheorems, WellFoundedInduction, TLAPS

Time == Nat \cup {None}

(* The flip a failed post restores was stored before the failed one was.   *)
IsFlip(f) ==
  /\ f.on \in BOOLEAN
  /\ f.at \in Nat
  /\ f.prior \in Time
  /\ f.prior # None => f.prior < f.at

(* A flip claimed at t is no newer than what f would put back.             *)
Under(t, f) == f.prior # None /\ t <= f.prior

FlipsNest ==
  /\ now \in Nat
  /\ mode.at \in Time
  /\ mode.at # None => mode.at <= now
  /\ \A f \in flips : IsFlip(f) /\ mode.at # None /\ f.at <= mode.at
  /\ \A f, g \in flips : f.at = g.at => f = g
  /\ \A f, g \in flips : f.at < g.at => Under(f.at, g)
  /\ told # None => /\ told.at \in Nat
                    /\ mode.at # None
                    /\ told.at <= mode.at
                    /\ \A f \in flips : told.at # f.at /\ (told.at < f.at => Under(told.at, f))

-----------------------------------------------------------------------------
LEMMA NoneIsNoTime == None \notin Int
BY MonitorRulesAssumption DEF MonitorRulesAssumption

LEMMA EventModeIsOnOrOff ==
  ASSUME NEW s PROVE EventMode(s).on \in BOOLEAN
BY DEF EventMode

LEMMA FlipsNestInit == Init => FlipsNest
BY NoneIsNoTime DEF Init, FlipsNest, Time

(* A claim is stored at a time no earlier claim can have.                  *)
LEMMA ClaimKeepsFlipsNest ==
  ASSUME FlipsNest, now' = now + 1, told' = told, NEW on \in BOOLEAN, ClaimFlip(now + 1, on)
  PROVE  FlipsNest'
<1>1. CASE on = mode.on
  <2>1. mode' = mode /\ flips' = flips
    BY <1>1 DEF ClaimFlip
  <2>2. now' \in Nat /\ (mode.at # None => mode.at <= now')
    BY DEF FlipsNest, Time
  <2> QED
    BY <2>1, <2>2 DEF FlipsNest, IsFlip, Under
<1>2. CASE on # mode.on
  <2> DEFINE new == [on |-> on, at |-> now + 1, prior |-> mode.at]
  <2>1. mode' = [on |-> on, at |-> now + 1] /\ flips' = flips \cup {new}
    BY <1>2 DEF ClaimFlip
  <2>2. new.on \in BOOLEAN /\ new.at = now + 1 /\ new.prior = mode.at
    OBVIOUS
  <2>3. mode'.at = now + 1 /\ now' \in Nat /\ now + 1 \in Nat /\ now + 1 # None /\ now' = now + 1
    BY <2>1, NoneIsNoTime DEF FlipsNest
  <2> HIDE DEF new
  <2>4. IsFlip(new)
    BY <2>2, NoneIsNoTime DEF FlipsNest, IsFlip, Time
  <2>5. \A f \in flips : IsFlip(f) /\ f.at \in Nat /\ f.at <= now /\ f.at < new.at /\ Under(f.at, new)
    BY <2>2 DEF FlipsNest, IsFlip, Under, Time
  <2>6. told # None => told.at \in Nat /\ told.at <= now /\ told.at < new.at /\ Under(told.at, new)
    BY <2>2 DEF FlipsNest, Under, Time
  <2>7. \A f \in flips' : IsFlip(f) /\ mode'.at # None /\ f.at <= mode'.at
    BY <2>1, <2>2, <2>3, <2>4, <2>5
  <2>8. \A f, g \in flips' : f.at = g.at => f = g
    BY <2>1, <2>2, <2>5 DEF FlipsNest
  <2>9. \A f, g \in flips' : f.at < g.at => Under(f.at, g)
    BY <2>1, <2>2, <2>5 DEF FlipsNest
  <2>10. told' # None => /\ told'.at \in Nat
                         /\ mode'.at # None
                         /\ told'.at <= mode'.at
                         /\ \A f \in flips' : told'.at # f.at /\ (told'.at < f.at => Under(told'.at, f))
    BY <2>1, <2>2, <2>3, <2>6 DEF FlipsNest
  <2> QED
    BY <2>3, <2>7, <2>8, <2>9, <2>10 DEF FlipsNest, Time
<1> QED
  BY <1>1, <1>2

LEMMA PostKeepsFlipsNest ==
  ASSUME FlipsNest, NEW flip \in flips, PostFlip(flip)
  PROVE  FlipsNest'
<1>1. CASE told # None /\ told.at > flip.at
  <2>1. told' = told /\ flips' = flips \ {flip} /\ mode' = mode /\ now' = now
    BY <1>1 DEF PostFlip
  <2> QED
    BY <2>1 DEF FlipsNest, IsFlip, Under
<1>2. CASE ~(told # None /\ told.at > flip.at)
  <2> DEFINE line == [on |-> flip.on, at |-> flip.at]
  <2>1. told' = line /\ flips' = flips \ {flip} /\ mode' = mode /\ now' = now
    BY <1>2 DEF PostFlip
  <2>2. line.at = flip.at
    OBVIOUS
  <2> HIDE DEF line
  <2>3. /\ told'.at \in Nat
        /\ mode'.at # None
        /\ told'.at <= mode'.at
        /\ \A f \in flips' : told'.at # f.at /\ (told'.at < f.at => Under(told'.at, f))
    BY <2>1, <2>2 DEF FlipsNest, IsFlip
  <2> QED
    BY <2>1, <2>3 DEF FlipsNest, IsFlip, Under
<1> QED
  BY <1>1, <1>2

(* The post that fails puts its flip back only while it is the latest.     *)
LEMMA FailedPost ==
  ASSUME FlipsNest, NEW flip \in flips, FailFlip(flip)
  PROVE  /\ now' = now /\ told' = told /\ flips' = flips \ {flip}
         /\ \/ mode' = mode
            \/ mode.at = flip.at /\ mode'.at = flip.prior
<1>1. mode = [on |-> flip.on, at |-> flip.at] => mode.at = flip.at
  OBVIOUS
<1>2. [on |-> ~flip.on, at |-> flip.prior].at = flip.prior
  OBVIOUS
<1> QED
  BY <1>1, <1>2 DEF FailFlip, Released

(* What else was claimed, or told, is older than the latest flip.          *)
LEMMA LatestIsNewest ==
  ASSUME FlipsNest, NEW flip \in flips, mode.at = flip.at
  PROVE  /\ \A f \in flips \ {flip} : f.at < flip.at /\ Under(f.at, flip)
         /\ told # None => told.at < flip.at /\ Under(told.at, flip)
<1>1. \A f \in flips \ {flip} : f.at \in Nat /\ f.at # flip.at /\ f.at <= flip.at
  BY DEF FlipsNest, IsFlip
<1>2. told # None => told.at \in Nat /\ told.at # flip.at /\ told.at <= flip.at
  BY DEF FlipsNest
<1>3. flip.at \in Nat
  BY DEF FlipsNest, IsFlip
<1> QED
  BY <1>1, <1>2, <1>3 DEF FlipsNest

LEMMA FailKeepsFlipsNest ==
  ASSUME FlipsNest, NEW flip \in flips, FailFlip(flip)
  PROVE  FlipsNest'
<1>1. CASE mode' = mode
  BY <1>1, FailedPost DEF FlipsNest, IsFlip, Under
<1>2. CASE mode.at = flip.at /\ mode'.at = flip.prior
  <2>1. flip.prior \in Time /\ (flip.prior # None => flip.prior <= now)
    BY <1>2 DEF FlipsNest, IsFlip, Time
  <2>2. \A f \in flips \ {flip} : f.at < flip.at /\ Under(f.at, flip)
    BY <1>2, LatestIsNewest
  <2>3. told # None => told.at < flip.at /\ Under(told.at, flip)
    BY <1>2, LatestIsNewest
  <2>4. now' = now /\ told' = told /\ flips' = flips \ {flip}
    BY FailedPost
  <2>5. \A f \in flips' : IsFlip(f) /\ mode'.at # None /\ f.at <= mode'.at
    BY <1>2, <2>2, <2>4 DEF FlipsNest, Under
  <2>6. told' # None => mode'.at # None /\ told'.at <= mode'.at
    BY <1>2, <2>3, <2>4 DEF Under
  <2> QED
    BY <1>2, <2>1, <2>4, <2>5, <2>6 DEF FlipsNest, Under
<1> QED
  BY <1>1, <1>2, FailedPost

(* Nobody but an evaluation and its post touches the clock and the mode.   *)
LEMMA OthersLeaveTheMode ==
  ASSUME \/ \E p \in Pages, closing \in BOOLEAN : BoardHeard(p, closing)
         \/ \E choice \in {"on", "off", "auto"} : SetOverride(choice)
         \/ \E r \in Rigs : SitDown(r) \/ StandUp(r)
         \/ UNCHANGED vars
  PROVE  UNCHANGED <<now, mode, flips, told>>
BY DEF BoardHeard, SetOverride, SitDown, StandUp, modeVars, vars

LEMMA MinuteClaims ==
  ASSUME NEW beating \in SUBSET Rigs, NEW leaving \in SUBSET beating, Minute(beating, leaving)
  PROVE  now' = now + 1 /\ told' = told /\ \E on \in BOOLEAN : ClaimFlip(now + 1, on)
<1>1. PICK snapshot \in {Snapshot(now + 1, heard', closed')} : Judged(snapshot)
  BY DEF Minute
<1>2. snapshot.now = now + 1
  BY <1>1 DEF Snapshot
<1>. QED  BY <1>1, <1>2, EventModeIsOnOrOff DEF Minute, Judged

LEMMA FlipsNestStep ==
  ASSUME FlipsNest, [Next]_vars
  PROVE  FlipsNest'
<1>1. CASE \E beating \in SUBSET Rigs : \E leaving \in SUBSET beating : Minute(beating, leaving)
  BY <1>1, MinuteClaims, ClaimKeepsFlipsNest
<1>2. CASE \E flip \in flips : PostFlip(flip) \/ FailFlip(flip)
  BY <1>2, PostKeepsFlipsNest, FailKeepsFlipsNest
<1>3. CASE \/ \E p \in Pages, closing \in BOOLEAN : BoardHeard(p, closing)
           \/ \E choice \in {"on", "off", "auto"} : SetOverride(choice)
           \/ \E r \in Rigs : SitDown(r) \/ StandUp(r)
           \/ UNCHANGED vars
  <2>1. UNCHANGED <<now, mode, flips, told>>
    BY <1>3, OthersLeaveTheMode
  <2> QED
    BY <2>1 DEF FlipsNest, IsFlip, Under
<1> QED
  BY <1>1, <1>2, <1>3 DEF Next

-----------------------------------------------------------------------------
(* The times of the flips pending, told and stored are nested: each flip   *)
(* pending would put back the time of the newest one claimed before it     *)
(* (claimEventModeFlip remembers what it replaced).                        *)
THEOREM FlipTimesNest == Spec => []FlipsNest
<1>1. Init => FlipsNest
  BY FlipsNestInit
<1>2. FlipsNest /\ [Next]_vars => FlipsNest'
  BY FlipsNestStep
<1> QED
  BY <1>1, <1>2, PTL DEF Spec

(* Whatever runs are still posting, and in whatever order they fail, a     *)
(* post that fails undoes no flip but its own, and its own only while      *)
(* nothing was claimed since (releaseEventModeFlip's guard).               *)
THEOREM FailedPostsUndoNothingNewer == Spec => NewerFlipStands
<1> DEFINE Step == mode' # mode /\ now' = now
                   => \E flip \in flips \ flips' :
                        \A newer \in flips' \cup ({told'} \ {None}) : newer.at < flip.at
<1>1. ASSUME FlipsNest, [Next]_vars PROVE Step
  <2> SUFFICES ASSUME mode' # mode, now' = now
               PROVE  \E flip \in flips \ flips' :
                        \A newer \in flips' \cup ({told'} \ {None}) : newer.at < flip.at
    OBVIOUS
  <2>1. now + 1 # now
    BY <1>1 DEF FlipsNest
  <2>2. ~\E beating \in SUBSET Rigs : \E leaving \in SUBSET beating : Minute(beating, leaving)
    BY <2>1, MinuteClaims
  <2>3. PICK flip \in flips : PostFlip(flip) \/ FailFlip(flip)
    BY <1>1, <2>2, OthersLeaveTheMode DEF Next
  <2>4. FailFlip(flip)
    BY <2>3 DEF PostFlip
  <2>5. told' = told /\ flips' = flips \ {flip} /\ mode.at = flip.at
    BY <1>1, <2>4, FailedPost
  <2>6. /\ \A f \in flips \ {flip} : f.at < flip.at
        /\ told # None => told.at < flip.at
    BY <1>1, <2>5, LatestIsNewest
  <2> QED
    BY <2>5, <2>6
<1>2. FlipsNest /\ [Next]_vars => [Step]_vars
  BY <1>1
<1> QED
  BY <1>2, FlipTimesNest, PTL DEF Spec, NewerFlipStands
-----------------------------------------------------------------------------
(* The largest and the smallest of a bounded set of numbers.               *)
LEMMA MaxIsIn ==
  ASSUME NEW n \in Int, NEW S \in SUBSET Int, S # {}, \A x \in S : x <= n
  PROVE  Max(S) \in S /\ \A y \in S : y <= Max(S)
<1> DEFINE T == {n - i : i \in S}
<1>1. T \in SUBSET Nat /\ T # {}
  <2>1. \A i \in S : n - i \in Nat
    OBVIOUS
  <2> QED BY <2>1
<1>2. \E x \in T : \A y \in T : ~(<<y, x>> \in OpToRel(<, Nat))
  <2> HIDE DEF T
  <2> QED BY <1>1, NatLessThanWellFounded, WFMin
<1>3. PICK i \in S : \A j \in S : ~(<<n - j, n - i>> \in OpToRel(<, Nat))
  BY <1>2
<1>4. ASSUME NEW j \in S PROVE i >= j
  <2> SUFFICES ASSUME i < j PROVE FALSE
    OBVIOUS
  <2>1. n - j \in Nat /\ n - i \in Nat /\ n - j < n - i
    OBVIOUS
  <2>2. <<n - j, n - i>> \in OpToRel(<, Nat)
    BY <2>1 DEF OpToRel
  <2> QED BY <1>3, <2>2
<1>5. Max(S) \in S /\ \A y \in S : Max(S) >= y
  BY <1>4 DEF Max
<1> QED BY <1>5

LEMMA MinIsIn ==
  ASSUME NEW n \in Int, NEW S \in SUBSET Int, S # {}, \A x \in S : n <= x
  PROVE  Min(S) \in S /\ \A y \in S : Min(S) <= y
<1> DEFINE T == {i - n : i \in S}
<1>1. T \in SUBSET Nat /\ T # {}
  <2>1. \A i \in S : i - n \in Nat
    OBVIOUS
  <2> QED BY <2>1
<1>2. \E x \in T : \A y \in T : ~(<<y, x>> \in OpToRel(<, Nat))
  <2> HIDE DEF T
  <2> QED BY <1>1, NatLessThanWellFounded, WFMin
<1>3. PICK i \in S : \A j \in S : ~(<<j - n, i - n>> \in OpToRel(<, Nat))
  BY <1>2
<1>4. ASSUME NEW j \in S PROVE i <= j
  <2> SUFFICES ASSUME j < i PROVE FALSE
    OBVIOUS
  <2>1. j - n \in Nat /\ i - n \in Nat /\ j - n < i - n
    OBVIOUS
  <2>2. <<j - n, i - n>> \in OpToRel(<, Nat)
    BY <2>1 DEF OpToRel
  <2> QED BY <1>3, <2>2
<1> QED BY <1>4 DEF Min

(* Heartbeats without a gap over the threshold.                            *)
LEMMA JoinedStretches ==
  ASSUME NEW times \in SUBSET Int, NEW a \in Int, NEW b \in Int, NEW c \in Int
  PROVE  /\ Joined(times, a, a)
         /\ Joined(times, a, b) /\ Joined(times, b, c) => Joined(times, a, c)
         /\ Joined(times, a, c) /\ b <= c => Joined(times, a, b)
<1>1. Joined(times, a, a)
  BY DEF Joined
<1>2. ASSUME Joined(times, a, b), Joined(times, b, c) PROVE Joined(times, a, c)
  <2> SUFFICES ASSUME NEW t \in times, a <= t, t < c
               PROVE  \E u \in times : t < u /\ u - t <= SilentAfter
    BY DEF Joined
  <2>1. t < b \/ b <= t
    OBVIOUS
  <2> QED BY <1>2, <2>1 DEF Joined
<1>3. ASSUME Joined(times, a, c), b <= c PROVE Joined(times, a, b)
  <2> SUFFICES ASSUME NEW t \in times, a <= t, t < b
               PROVE  \E u \in times : t < u /\ u - t <= SilentAfter
    BY DEF Joined
  <2>1. t < c
    BY <1>3
  <2> QED BY <1>3, <2>1 DEF Joined
<1> QED BY <1>1, <1>2, <1>3

(* A rig's last run of heartbeats ends with its last word, and no run of   *)
(* it began later.                                                         *)
LEMMA LastRunIsLast ==
  ASSUME NEW n \in Nat, NEW times \in SUBSET (0..n), times # {}
  PROVE  /\ LastRun(times) \in HeardRunsOf(times)
         /\ LastRun(times).to = Max(times)
         /\ \A run \in HeardRunsOf(times) : /\ run.from \in times
                                            /\ run.to \in times
                                            /\ run.from <= LastRun(times).from
                                            /\ run = [from |-> run.from, to |-> run.to]
<1> DEFINE last == Max(times)
<1> DEFINE early == {t \in times : Joined(times, t, last)}
<1> DEFINE first == Min(early)
<1> DEFINE reach(t) == {u \in times : t <= u /\ Joined(times, t, u)}
<1>0. times \in SUBSET Int /\ n \in Int /\ \A u \in times : u <= n /\ 0 <= u
  OBVIOUS
<1>1. last \in times /\ \A u \in times : u <= last
  BY <1>0, MaxIsIn
<1> HIDE DEF last
<1>2. last \in early
  BY <1>0, <1>1, JoinedStretches
<1>3. first \in early /\ \A t \in early : first <= t
  <2>1. early \in SUBSET Int /\ early # {} /\ \A t \in early : 0 <= t
    <3>1. early \in SUBSET times
      OBVIOUS
    <3> HIDE DEF early
    <3> QED BY <3>1, <1>2
  <2> HIDE DEF early
  <2> QED BY <2>1, MinIsIn DEF first
<1> HIDE DEF first
<1>4. ASSUME NEW t \in times PROVE Max(reach(t)) \in reach(t) /\ \A u \in reach(t) : u <= Max(reach(t))
  <2>1. reach(t) \in SUBSET times
    OBVIOUS
  <2>2. t \in reach(t)
    BY <1>0, JoinedStretches
  <2> HIDE DEF reach
  <2>3. reach(t) \in SUBSET Int /\ reach(t) # {} /\ \A u \in reach(t) : u <= n
    BY <1>0, <2>1, <2>2
  <2> QED BY <1>0, <2>3, MaxIsIn
<1>5. Max(reach(first)) = last
  <2>1. first \in times /\ last \in reach(first)
    BY <1>1, <1>3
  <2>2. Max(reach(first)) \in times /\ last <= Max(reach(first))
    BY <2>1, <1>4
  <2> HIDE DEF reach
  <2>3. Max(reach(first)) <= last /\ Max(reach(first)) \in Int /\ last \in Int
    BY <2>2, <1>1, <1>0
  <2> QED BY <2>2, <2>3
<1>6. ASSUME NEW u \in times, u < first PROVE ~Joined(times, u, first)
  <2> SUFFICES ASSUME Joined(times, u, first) PROVE FALSE
    OBVIOUS
  <2>1. Joined(times, u, last)
    BY <1>0, <1>1, <1>3, JoinedStretches
  <2>2. u \in early
    BY <2>1
  <2>3. u \in Int /\ first \in Int
    BY <1>0, <1>3
  <2> HIDE DEF early
  <2> QED BY <2>2, <2>3, <1>3, <1>6
<1> DEFINE run == [from |-> first, to |-> Max(reach(first))]
<1>7. run \in HeardRunsOf(times)
  BY <1>3, <1>6 DEF HeardRunsOf
<1>8. run.to = last
  BY <1>5
<1>9. LastRun(times) \in HeardRunsOf(times) /\ LastRun(times).to = last
  <2> HIDE DEF run, reach
  <2> QED BY <1>7, <1>8 DEF LastRun, last
<1>10. \A r \in HeardRunsOf(times) :
         \E t \in times : /\ r = [from |-> t, to |-> Max(reach(t))]
                          /\ \A u \in times : u < t => ~Joined(times, u, t)
  BY DEF HeardRunsOf
<1>11. ASSUME NEW r \in HeardRunsOf(times)
       PROVE  /\ r.from \in times
              /\ r.to \in times
              /\ r = [from |-> r.from, to |-> r.to]
              /\ Joined(times, r.from, r.to)
              /\ \A u \in times : u < r.from => ~Joined(times, u, r.from)
  <2>1. PICK t \in times : /\ r = [from |-> t, to |-> Max(reach(t))]
                           /\ \A u \in times : u < t => ~Joined(times, u, t)
    BY <1>10
  <2>2. Max(reach(t)) \in times /\ Joined(times, t, Max(reach(t)))
    BY <1>4
  <2> HIDE DEF reach
  <2> QED BY <2>1, <2>2
<1>12. ASSUME NEW r \in HeardRunsOf(times) PROVE r.from <= LastRun(times).from
  <2> DEFINE from == LastRun(times).from
  <2>1. from \in times /\ Joined(times, from, last)
    BY <1>9, <1>11
  <2>2. r.from \in times /\ \A u \in times : u < r.from => ~Joined(times, u, r.from)
    BY <1>11
  <2> HIDE DEF from
  <2>0. from \in Int /\ r.from \in Int
    BY <1>0, <2>1, <2>2
  <2> SUFFICES ASSUME from < r.from PROVE FALSE
    BY <2>0 DEF from
  <2>3. Joined(times, from, r.from)
    BY <1>0, <1>1, <1>11, <2>0, <2>1, JoinedStretches
  <2> QED BY <2>1, <2>2, <2>3
<1> QED BY <1>9, <1>11, <1>12 DEF last

-----------------------------------------------------------------------------
(* What an evaluation finds, and what it makes of the alerts.              *)

(* The only heartbeat of a rig is its state.                               *)
LEMMA OnlyHeartbeat ==
  ASSUME NEW h
  PROVE  RigState(<<h>>) = h
<1> DEFINE Place(ordered, x) ==
             LET later == {i \in DOMAIN ordered : SentBefore(x, ordered[i])}
             IN  IF later = {} THEN Append(ordered, x) ELSE InsertAt(ordered, Min(later), x)
<1>1. DOMAIN <<h>> = {1} /\ <<h>>[1] = h
  OBVIOUS
<1>2. Place(<<>>, h) = <<h>>
  OBVIOUS
<1> HIDE DEF Place
<1> DEFINE Step(f, s) == IF s = {} THEN <<>> ELSE LET x == Max(s) IN Place(f[s \ {x}], <<h>>[x])
<1> DEFINE iter[s \in SUBSET {1}] == IF s = {} THEN <<>> ELSE LET x == Max(s) IN Place(iter[s \ {x}], <<h>>[x])
<1>3. iter[{1}] = <<h>>
  <2> DEFINE g == [s \in SUBSET {1} |-> IF s = {} THEN <<>> ELSE <<h>>]
  <2>1. \A s \in SUBSET {1} : s = {} \/ s = {1}
    OBVIOUS
  <2>2. Max({1}) = 1
    BY DEF Max
  <2>3. \A s \in SUBSET {1} : g[s] = Step(g, s)
    <3> SUFFICES ASSUME NEW s \in SUBSET {1} PROVE g[s] = Step(g, s)
      OBVIOUS
    <3>1. CASE s = {}
      BY <3>1
    <3>2. CASE s = {1}
      <4>1. s \ {Max(s)} = {} /\ <<h>>[Max(s)] = h
        BY <3>2, <2>2
      <4>2. g[{}] = <<>> /\ g[s] = <<h>>
        BY <3>2
      <4> HIDE DEF g
      <4> QED BY <3>2, <4>1, <4>2, <1>2
    <3> QED BY <2>1, <3>1, <3>2
  <2>4. g = [s \in SUBSET {1} |-> IF s = {} THEN <<>> ELSE LET x == Max(s) IN Place(g[s \ {x}], <<h>>[x])]
    <3>1. g = [s \in SUBSET {1} |-> g[s]]
      OBVIOUS
    <3> HIDE DEF g
    <3> QED BY <2>3, <3>1
  <2> HIDE DEF g
  <2>5. iter = [s \in SUBSET {1} |-> IF s = {} THEN <<>> ELSE LET x == Max(s) IN Place(iter[s \ {x}], <<h>>[x])]
    BY <2>4
  <2> HIDE DEF iter
  <2>6. iter[{}] = <<>> /\ {1} \ {1} = {}
    BY <2>5
  <2> QED BY <2>2, <2>5, <2>6, <1>1, <1>2
<1> USE DEF Place
<1>4. InSendOrder(<<h>>) = <<h>>
  BY <1>1, <1>3 DEF FoldLeft, MapThenFoldSet, InSendOrder
<1>5. LastOrNone(<<h>>) = h
  BY DEF LastOrNone, Last
<1> QED BY <1>4, <1>5 DEF RigState

IsAlert(a) ==
  /\ a = [rule |-> a.rule, subject |-> a.subject, severity |-> a.severity,
          evidence |-> a.evidence, absent |-> a.absent]
  /\ a.absent \in Nat

About(x, f) == x.rule = f.rule /\ x.subject = f.subject

(* applyFindings: what was found is open with no absence, and what was not *)
(* has one more than it had.                                               *)
LEMMA AppliedAlerts ==
  ASSUME \A a \in alerts : IsAlert(a), NEW findings
  PROVE  /\ \A a \in Applied(findings) :
              /\ IsAlert(a)
              /\ \/ a.absent = 0 /\ \E f \in findings : About(a, f)
                 \/ /\ a.absent < ResolveAfterAbsent
                    /\ \E b \in alerts : /\ About(a, b) /\ a.absent = b.absent + 1
                                         /\ \A f \in findings : ~About(b, f)
         /\ \A f \in findings : \E a \in Applied(findings) : About(a, f) /\ a.absent = 0
<1> DEFINE made == {[rule |-> f.rule, subject |-> f.subject, severity |-> f.severity,
                     evidence |-> f.evidence, absent |-> 0] : f \in findings}
<1> DEFINE left == {b \in alerts : b.absent + 1 < ResolveAfterAbsent /\ \A f \in findings : ~IsFor(b, f)}
<1> DEFINE kept == {[b EXCEPT !.absent = @ + 1] : b \in left}
<1>1. Applied(findings) = made \cup kept
  BY DEF Applied, Absent
<1>2. ASSUME NEW a \in made
      PROVE  IsAlert(a) /\ a.absent = 0 /\ \E f \in findings : About(a, f)
  <2>1. PICK f \in findings : a = [rule |-> f.rule, subject |-> f.subject, severity |-> f.severity,
                                   evidence |-> f.evidence, absent |-> 0]
    OBVIOUS
  <2>2. a.rule = f.rule /\ a.subject = f.subject /\ a.severity = f.severity /\ a.evidence = f.evidence /\ a.absent = 0
    BY <2>1
  <2> HIDE DEF made
  <2> QED BY <2>1, <2>2 DEF IsAlert, About
<1>3. ASSUME NEW a \in kept
      PROVE  /\ IsAlert(a)
             /\ a.absent < ResolveAfterAbsent
             /\ \E b \in alerts : /\ About(a, b) /\ a.absent = b.absent + 1
                                  /\ \A f \in findings : ~About(b, f)
  <2>1. PICK b \in left : a = [b EXCEPT !.absent = @ + 1]
    OBVIOUS
  <2>2. b \in alerts /\ IsAlert(b) /\ b.absent + 1 < ResolveAfterAbsent /\ \A f \in findings : ~About(b, f)
    BY <2>1 DEF IsFor, About
  <2> HIDE DEF left, kept
  <2>3. a = [rule |-> b.rule, subject |-> b.subject, severity |-> b.severity,
             evidence |-> b.evidence, absent |-> b.absent + 1]
    BY <2>1, <2>2 DEF IsAlert
  <2>4. a.rule = b.rule /\ a.subject = b.subject /\ a.severity = b.severity
        /\ a.evidence = b.evidence /\ a.absent = b.absent + 1
    BY <2>3
  <2> QED BY <2>2, <2>3, <2>4 DEF IsAlert, About
<1>4. ASSUME NEW f \in findings
      PROVE  \E a \in made : About(a, f) /\ a.absent = 0
  <2> DEFINE a == [rule |-> f.rule, subject |-> f.subject, severity |-> f.severity,
                   evidence |-> f.evidence, absent |-> 0]
  <2>1. a \in made
    OBVIOUS
  <2>2. a.rule = f.rule /\ a.subject = f.subject /\ a.absent = 0
    OBVIOUS
  <2> HIDE DEF a, made
  <2> QED BY <2>1, <2>2 DEF About
<1> HIDE DEF made, kept
<1> QED BY <1>1, <1>2, <1>3, <1>4

(* No rule but the first speaks of silence.                                *)
OfSilence(rule) == rule \in {"rig_silent", "venue_silent"}

LEMMA ReportsAreNotOfSilence ==
  ASSUME NEW s, NEW r, NEW f \in ReportFindings(s, r)
  PROVE  ~OfSilence(f.rule)
<1>1. PICK state : f \in StateFindings(s, r, s.rigs[r].beats, state, LastSent(s.rigs[r].beats, LAMBDA h : ~h.bye))
  BY DEF ReportFindings
<1> DEFINE live == LastSent(s.rigs[r].beats, LAMBDA h : ~h.bye)
<1> HIDE DEF live
<1>2. f \in StateFindings(s, r, s.rigs[r].beats, state, live)
  BY <1>1 DEF live
<1> QED
  BY <1>2 DEF StateFindings, OutdatedAgent, WhileRunning, RigProperties, When, Finding, OfSilence

LEMMA OnlyRuleOneSpeaksOfSilence ==
  ASSUME NEW s, NEW f \in EvaluateRules(s), OfSilence(f.rule)
  PROVE  f \in Silence(s)
<1>0. \A rule, subject, severity :
        /\ Finding(rule, subject, severity).rule = rule
        /\ \A evidence : [Finding(rule, subject, severity) EXCEPT !.evidence = evidence].rule = rule
  BY DEF Finding
<1>1. ASSUME NEW r, f \in SeatAndLapFindings(s, r) PROVE FALSE
  <2>1. CASE f \in WrongCombo(s, r)
    <3>1. PICK deciding : f = WrongComboFinding(r, UrgentIn(EventMode(s)), deciding)
      BY <2>1 DEF WrongCombo
    <3>2. f.rule = "wrong_combo"
      BY <1>0, <3>1 DEF WrongComboFinding
    <3> QED BY <3>2 DEF OfSilence
  <2>2. CASE f \in LongStints(s, r)
    BY <2>2, <1>0 DEF LongStints, When, OfSilence
  <2>3. CASE f = Finding("unattributed_laps", Rig(r), UrgentIn(EventMode(s)))
    BY <2>3, <1>0 DEF OfSilence
  <2> QED BY <1>1, <2>1, <2>2, <2>3 DEF SeatAndLapFindings, When
<1>2. ASSUME f \in DriverMoves(s) PROVE FALSE
  <2>1. \E move : f = Finding("driver_moved", Rig(move.from), "warning")
    BY <1>2 DEF DriverMoves
  <2> QED BY <2>1, <1>0 DEF OfSilence
<1>3. ASSUME f \in FastLaps(s) PROVE FALSE
  BY <1>3 DEF FastLaps, Finding, OfSilence
<1>4. ASSUME f \in NoFeaturedCombo(s) PROVE FALSE
  BY <1>4 DEF NoFeaturedCombo, When, Finding, OfSilence
<1>5. ASSUME f \in BoardFindings(s) PROVE FALSE
  <2>1. \E b : \/ f = Finding("board_dark", Board(b.mode), "urgent")
               \/ f = Finding("board_feed_failing", Board(b.mode), "urgent")
    BY <1>5 DEF BoardFindings
  <2> QED BY <2>1, <1>0 DEF OfSilence
<1>6. \/ f \in Silence(s)
      \/ \E r : f \in ReportFindings(s, r) \/ f \in SeatAndLapFindings(s, r)
      \/ f \in DriverMoves(s) \/ f \in FastLaps(s) \/ f \in NoFeaturedCombo(s) \/ f \in BoardFindings(s)
  BY DEF EvaluateRules
<1> QED
  BY <1>1, <1>2, <1>3, <1>4, <1>5, <1>6, ReportsAreNotOfSilence

LEMMA SilenceIsFound ==
  ASSUME NEW s, NEW f \in Silence(s)
  PROVE  f \in EvaluateRules(s)
BY DEF EvaluateRules

RunsOf(s) == [r \in Reporting(s) |-> HeardRuns(s.rigs[r])]

AnyLive(s) == \E r \in Reporting(s) : QuietFor(s, r) <= SilentAfter

Urgent(s) ==
  {r \in SilentRigs(s, Reporting(s)) :
     \/ s.rigs[r].seat # None
     \/ SwitchedOnForEvent(s, s.rigs[r].seen, EventModeBegan(s), RunsOf(s), HeardAgainAt(s.now, RunsOf(s)))}

LEMMA SilenceSpelled ==
  ASSUME NEW s
  PROVE  Silence(s) = SilenceAmong(s, SilentRigs(s, Reporting(s)), Urgent(s), AnyLive(s),
                                   HeardAgainAt(s.now, RunsOf(s)))
<1> DEFINE runs == RunsOf(s)
<1>1. DOMAIN runs = Reporting(s)
  BY DEF RunsOf
<1>2. Silence(s) = SilenceHeard(s, runs)
  BY DEF Silence, RunsOf
<1> HIDE DEF runs
<1>3. SilenceHeard(s, runs) = SilenceOver(s, SilentRigs(s, Reporting(s)), EventModeBegan(s), runs,
                                          HeardAgainAt(s.now, runs))
  BY <1>1 DEF SilenceHeard
<1>4. SilenceOver(s, SilentRigs(s, Reporting(s)), EventModeBegan(s), runs, HeardAgainAt(s.now, runs))
      = SilenceAmong(s, SilentRigs(s, Reporting(s)),
               {r \in SilentRigs(s, Reporting(s)) :
                  s.rigs[r].seat # None
                  \/ SwitchedOnForEvent(s, s.rigs[r].seen, EventModeBegan(s), runs, HeardAgainAt(s.now, runs))},
               \E r \in Reporting(s) : QuietFor(s, r) <= SilentAfter, HeardAgainAt(s.now, runs))
  BY <1>1 DEF SilenceOver
<1> QED
  BY <1>2, <1>3, <1>4 DEF runs, Urgent, AnyLive

(* The parts of rule 1: who is silent and reported already, who is silent  *)
(* and has to be explained.                                                *)
HeldRigs(s, silent, urgent) == {r \in silent \ urgent : IsOpen(s, "rig_silent", Rig(r))}

Unexplained(s, silent, urgent, back) ==
  {r \in silent : r \in silent \ (urgent \cup HeldRigs(s, silent, urgent)) /\ s.rigs[r].seen >= back}

Together(s, rigs) == TogetherAt([r \in rigs |-> s.rigs[r].seen])

LEMMA FoundAmong ==
  ASSUME NEW s, NEW silent, NEW urgent, NEW anyLive, NEW back
  PROVE  SilenceAmong(s, silent, urgent, anyLive, back)
         = {Finding("rig_silent", Rig(r), "urgent") : r \in urgent}
           \cup {Finding("rig_silent", Rig(r), "warning") : r \in HeldRigs(s, silent, urgent)}
           \cup UnexplainedFindings(s, Unexplained(s, silent, urgent, back), anyLive,
                                    Together(s, Unexplained(s, silent, urgent, back)), back)
BY DEF SilenceAmong, HeldRigs, Unexplained, Together

-----------------------------------------------------------------------------
(* The snapshot of a minute.                                               *)
HeardSound ==
  /\ now \in Nat
  /\ heard \in [Rigs -> SUBSET (0..now)]
  /\ \A r \in Rigs : heard[r] # {}
  /\ \A a \in alerts : IsAlert(a)

LEMMA LastWordIsATime ==
  ASSUME NEW n \in Nat, NEW times \in SUBSET (0..n), times # {}
  PROVE  Max(times) \in times /\ Max(times) \in 0..n /\ \A t \in times : t <= Max(times)
<1>1. times \in SUBSET Int /\ n \in Int /\ \A t \in times : t <= n
  OBVIOUS
<1> QED BY <1>1, MaxIsIn

LEMMA SnapshotOfRigs ==
  ASSUME NEW t \in Nat, NEW times \in [Rigs -> SUBSET (0..t)], \A r \in Rigs : times[r] # {}, NEW byes
  PROVE  LET s == Snapshot(t, times, byes)
         IN  /\ s.now = t
             /\ DOMAIN s.rigs = Rigs
             /\ \A r \in Rigs : /\ s.rigs[r].seen = Max(times[r])
                                /\ s.rigs[r].heard = HeardRunsOf(times[r])
                                /\ s.rigs[r].seat = IF r \in seated THEN t ELSE None
                                /\ QuietFor(s, r) = t - Max(times[r])
             /\ Reporting(s) = {r \in Rigs : ~SaidGoodbye(Heartbeat(r, times, byes))}
             /\ \A rule, subject : IsOpen(s, rule, subject) <=> Alerted(alerts, rule, subject)
<1> DEFINE s == Snapshot(t, times, byes)
<1>1. /\ s.now = t
      /\ DOMAIN s.rigs = Rigs
      /\ s.open = {<<a.rule, a.subject>> : a \in alerts}
      /\ \A r \in Rigs : /\ s.rigs[r].seen = Max(times[r])
                         /\ s.rigs[r].heard = HeardRunsOf(times[r])
                         /\ s.rigs[r].seat = IF r \in seated THEN t ELSE None
                         /\ s.rigs[r].beats = <<Heartbeat(r, times, byes)>>
  BY DEF Snapshot
<1> HIDE DEF s
<1>2. \A r \in Rigs : RigState(s.rigs[r].beats) = Heartbeat(r, times, byes)
  BY <1>1, OnlyHeartbeat
<1>3. \A r \in Rigs : s.rigs[r].seen # None
  BY <1>1, LastWordIsATime, NoneIsNoTime
<1>4. Reporting(s) = {r \in Rigs : ~SaidGoodbye(Heartbeat(r, times, byes))}
  BY <1>1, <1>2, <1>3 DEF Reporting
<1>5. \A rule, subject : IsOpen(s, rule, subject) <=> Alerted(alerts, rule, subject)
  BY <1>1 DEF IsOpen, Alerted
<1>6. \A r \in Rigs : QuietFor(s, r) = t - Max(times[r])
  BY <1>1 DEF QuietFor
<1> QED BY <1>1, <1>4, <1>5, <1>6 DEF s

LEMMA SilentOnes ==
  ASSUME NEW t \in Nat, NEW times \in [Rigs -> SUBSET (0..t)], \A r \in Rigs : times[r] # {}, NEW byes
  PROVE  LET s == Snapshot(t, times, byes)
         IN  SilentRigs(s, Reporting(s))
             = {r \in Rigs : /\ ~SaidGoodbye(Heartbeat(r, times, byes))
                             /\ t - Max(times[r]) > SilentAfter
                             /\ \/ t - Max(times[r]) <= SilentLookback
                                \/ Alerted(alerts, "rig_silent", Rig(r))}
<1> DEFINE s == Snapshot(t, times, byes)
<1>1. /\ \A r \in Rigs : QuietFor(s, r) = t - Max(times[r])
      /\ Reporting(s) = {r \in Rigs : ~SaidGoodbye(Heartbeat(r, times, byes))}
      /\ \A rule, subject : IsOpen(s, rule, subject) <=> Alerted(alerts, rule, subject)
  BY SnapshotOfRigs
<1> HIDE DEF s
<1>2. SilentRigs(s, Reporting(s))
             = {r \in Rigs : /\ ~SaidGoodbye(Heartbeat(r, times, byes))
                             /\ t - Max(times[r]) > SilentAfter
                             /\ \/ t - Max(times[r]) <= SilentLookback
                                \/ Alerted(alerts, "rig_silent", Rig(r))}
  BY <1>1 DEF SilentRigs
<1> QED BY <1>2 DEF s

(* A minute's evaluation is of the snapshot with that minute's heartbeats. *)
LEMMA MinuteJudges ==
  ASSUME HeardSound, NEW beating \in SUBSET Rigs, NEW leaving \in SUBSET beating, Minute(beating, leaving)
  PROVE  /\ now' = now + 1 /\ now' \in Nat
         /\ heard' \in [Rigs -> SUBSET (0..now')]
         /\ \A r \in Rigs : /\ heard'[r] # {}
                            /\ heard'[r] = IF r \in beating THEN heard[r] \cup {now'} ELSE heard[r]
         /\ closed' = (closed \ beating) \cup leaving
         /\ alerts' = Applied(EvaluateRules(Snapshot(now', heard', closed')))
         /\ UNCHANGED <<seated, boards, override>>
<1>1. /\ now' = now + 1
      /\ heard' = [r \in Rigs |-> IF r \in beating THEN heard[r] \cup {now + 1} ELSE heard[r]]
      /\ closed' = (closed \ beating) \cup leaving
      /\ UNCHANGED <<seated, boards, override>>
  BY DEF Minute
<1>2. now' \in Nat /\ 0..now \subseteq 0..now' /\ now' \in 0..now'
  BY <1>1 DEF HeardSound
<1>3. ASSUME NEW r \in Rigs
      PROVE  /\ heard'[r] = IF r \in beating THEN heard[r] \cup {now'} ELSE heard[r]
             /\ heard'[r] \in SUBSET (0..now') /\ heard'[r] # {}
  <2>1. heard'[r] = IF r \in beating THEN heard[r] \cup {now'} ELSE heard[r]
    BY <1>1
  <2>2. heard[r] \in SUBSET (0..now) /\ heard[r] # {}
    BY DEF HeardSound
  <2> QED BY <1>2, <2>1, <2>2
<1>4. heard' \in [Rigs -> SUBSET (0..now')]
  <2>1. heard' = [r \in Rigs |-> heard'[r]]
    BY <1>1
  <2> QED BY <2>1, <1>3
<1>5. PICK snapshot \in {Snapshot(now + 1, heard', closed')} : Judged(snapshot)
  BY DEF Minute
<1>6. alerts' = Applied(EvaluateRules(Snapshot(now', heard', closed')))
  BY <1>1, <1>5 DEF Judged
<1> QED BY <1>1, <1>2, <1>3, <1>4, <1>6

(* Nothing else touches the clock, the heartbeats or the alerts.           *)
LEMMA OthersHearNothing ==
  ASSUME [Next]_vars, ~\E beating \in SUBSET Rigs : \E leaving \in SUBSET beating : Minute(beating, leaving)
  PROVE  UNCHANGED <<now, heard, closed, alerts>>
BY DEF Next, BoardHeard, SetOverride, SitDown, StandUp, PostFlip, FailFlip, rigVars, modeVars, vars

LEMMA HeardSoundInit == Init => HeardSound
BY DEF Init, HeardSound

LEMMA HeardSoundStep ==
  ASSUME HeardSound, [Next]_vars
  PROVE  HeardSound'
<1>1. CASE \E beating \in SUBSET Rigs : \E leaving \in SUBSET beating : Minute(beating, leaving)
  <2>1. PICK beating \in SUBSET Rigs : \E leaving \in SUBSET beating : Minute(beating, leaving)
    BY <1>1
  <2>2. PICK leaving \in SUBSET beating : Minute(beating, leaving)
    BY <2>1
  <2> DEFINE findings == EvaluateRules(Snapshot(now', heard', closed'))
  <2>3. \A a \in alerts' : IsAlert(a)
    <3>1. alerts' = Applied(findings)
      BY <2>2, MinuteJudges
    <3> HIDE DEF findings
    <3>2. \A a \in alerts : IsAlert(a)
      BY DEF HeardSound
    <3> QED BY <3>1, <3>2, AppliedAlerts
  <2> QED BY <2>2, <2>3, MinuteJudges DEF HeardSound
<1>2. CASE ~\E beating \in SUBSET Rigs : \E leaving \in SUBSET beating : Minute(beating, leaving)
  BY <1>2, OthersHearNothing DEF HeardSound
<1> QED BY <1>1, <1>2

(* The clock, the heartbeats and the alerts are what they seem, and every  *)
(* rig was heard once (the rows of rig_heartbeats and monitor_alerts).     *)
THEOREM EveryRigWasHeard == Spec => []HeardSound
BY HeardSoundInit, HeardSoundStep, PTL DEF Spec

-----------------------------------------------------------------------------
(* Rule 1's findings, rig by rig, and the venue's.                         *)
Back(s) == HeardAgainAt(s.now, RunsOf(s))

Alone(s) == Unexplained(s, SilentRigs(s, Reporting(s)), Urgent(s), Back(s))

Held(s) == HeldRigs(s, SilentRigs(s, Reporting(s)), Urgent(s))

LEMMA RigFindings ==
  ASSUME NEW s
  PROVE  /\ \A f \in Silence(s) : f.rule = "rig_silent" =>
              \E r \in SilentRigs(s, Reporting(s)) :
                /\ f.subject = Rig(r)
                /\ \/ r \in Urgent(s) \cup Held(s)
                   \/ /\ r \in Alone(s)
                      /\ ~Covers(s, AnyLive(s), Together(s, Alone(s)), Back(s))
                      /\ QuietFor(s, r) >= SilentAfter + CorrelationWindow
         /\ \A r \in Urgent(s) \cup Held(s) :
              \E f \in Silence(s) : f.rule = "rig_silent" /\ f.subject = Rig(r)
         /\ VenueNote(s, AnyLive(s), Together(s, Alone(s)), Back(s)) =>
              \E f \in Silence(s) : f.rule = "venue_silent" /\ f.subject = Venue
<1> DEFINE urgent   == {Finding("rig_silent", Rig(r), "urgent") : r \in Urgent(s)}
           held     == {Finding("rig_silent", Rig(r), "warning") : r \in Held(s)}
           covered  == Covers(s, AnyLive(s), Together(s, Alone(s)), Back(s))
           noted    == VenueNote(s, AnyLive(s), Together(s, Alone(s)), Back(s))
           warned   == {Finding("rig_silent", Rig(r), "warning") :
                          r \in {q \in Alone(s) : ~covered /\ QuietFor(s, q) >= SilentAfter + CorrelationWindow}}
           note     == When(noted, Finding("venue_silent", Venue, "warning"))
<1>1. Silence(s) = urgent \cup held \cup warned \cup note
  BY SilenceSpelled, FoundAmong DEF Held, Alone, Back, UnexplainedFindings
<1>2. \A rule, subject, severity : /\ Finding(rule, subject, severity).rule = rule
                                   /\ Finding(rule, subject, severity).subject = subject
  BY DEF Finding
<1>3. Urgent(s) \cup Held(s) \cup Alone(s) \subseteq SilentRigs(s, Reporting(s))
  BY DEF Urgent, Held, HeldRigs, Alone, Unexplained
<1>4. ASSUME NEW f \in Silence(s), f.rule = "rig_silent"
      PROVE  \E r \in SilentRigs(s, Reporting(s)) :
                /\ f.subject = Rig(r)
                /\ \/ r \in Urgent(s) \cup Held(s)
                   \/ r \in Alone(s) /\ ~covered /\ QuietFor(s, r) >= SilentAfter + CorrelationWindow
  <2>1. CASE f \in urgent
    <3>1. PICK r \in Urgent(s) : f = Finding("rig_silent", Rig(r), "urgent")
      BY <2>1
    <3> HIDE DEF urgent, held, warned, note, covered
    <3>2. r \in SilentRigs(s, Reporting(s)) /\ f.subject = Rig(r) /\ r \in Urgent(s) \cup Held(s)
      BY <3>1, <1>2, <1>3
    <3> QED BY <3>2
  <2>2. CASE f \in held
    <3>1. PICK r \in Held(s) : f = Finding("rig_silent", Rig(r), "warning")
      BY <2>2
    <3> HIDE DEF urgent, held, warned, note, covered
    <3>2. r \in SilentRigs(s, Reporting(s)) /\ f.subject = Rig(r) /\ r \in Urgent(s) \cup Held(s)
      BY <3>1, <1>2, <1>3
    <3> QED BY <3>2
  <2>3. CASE f \in warned
    <3>1. PICK r \in Alone(s) : /\ ~covered /\ QuietFor(s, r) >= SilentAfter + CorrelationWindow
                                /\ f = Finding("rig_silent", Rig(r), "warning")
      BY <2>3
    <3> HIDE DEF covered
    <3> QED BY <3>1, <1>2, <1>3
  <2>4. f \notin note
    BY <1>4, <1>2 DEF When
  <2> HIDE DEF urgent, held, warned, note
  <2> QED BY <1>1, <2>1, <2>2, <2>3, <2>4
<1>5. ASSUME NEW r \in Urgent(s) \cup Held(s)
      PROVE  \E f \in Silence(s) : f.rule = "rig_silent" /\ f.subject = Rig(r)
  <2>1. Finding("rig_silent", Rig(r), "urgent") \in urgent \/ Finding("rig_silent", Rig(r), "warning") \in held
    OBVIOUS
  <2> HIDE DEF urgent, held, warned, note
  <2> QED BY <1>1, <1>2, <2>1
<1>6. ASSUME noted
      PROVE  \E f \in Silence(s) : f.rule = "venue_silent" /\ f.subject = Venue
  <2>1. Finding("venue_silent", Venue, "warning") \in note
    BY <1>6 DEF When
  <2> HIDE DEF urgent, held, warned, note, noted
  <2> QED BY <1>1, <1>2, <2>1
<1> QED BY <1>4, <1>5, <1>6

LEMMA RigsDiffer == ASSUME NEW r, NEW q, Rig(r) = Rig(q) PROVE r = q
BY DEF Rig

LEMMA FoundByEvaluation ==
  ASSUME HeardSound, NEW s, NEW rule, NEW subject, OfSilence(rule)
  PROVE  Found(Applied(EvaluateRules(s)), rule, subject)
         <=> \E f \in Silence(s) : f.rule = rule /\ f.subject = subject
<1> DEFINE findings == EvaluateRules(s)
<1>1. \A a \in alerts : IsAlert(a)
  BY DEF HeardSound
<1>2. \A f \in findings : OfSilence(f.rule) => f \in Silence(s)
  BY OnlyRuleOneSpeaksOfSilence
<1>3. \A f \in Silence(s) : f \in findings
  BY SilenceIsFound
<1> HIDE DEF findings
<1>4. \A a \in Applied(findings) :
         \/ a.absent = 0 /\ \E f \in findings : About(a, f)
         \/ \E b \in alerts : a.absent = b.absent + 1 /\ b.absent \in Nat
  BY <1>1, AppliedAlerts DEF IsAlert
<1>5. \A f \in findings : \E a \in Applied(findings) : About(a, f) /\ a.absent = 0
  BY <1>1, AppliedAlerts
<1>6. ASSUME Found(Applied(findings), rule, subject)
      PROVE  \E f \in Silence(s) : f.rule = rule /\ f.subject = subject
  <2>1. PICK a \in Applied(findings) : a.rule = rule /\ a.subject = subject /\ a.absent = 0
    BY <1>6 DEF Found
  <2>2. \A b \in alerts : b.absent \in Nat => a.absent # b.absent + 1
    BY <2>1
  <2>3. PICK f \in findings : About(a, f)
    BY <1>4, <2>2
  <2> QED BY <1>2, <2>1, <2>3 DEF About
<1>7. ASSUME NEW f \in Silence(s), f.rule = rule, f.subject = subject
      PROVE  Found(Applied(findings), rule, subject)
  BY <1>3, <1>5, <1>7 DEF Found, About
<1> QED BY <1>6, <1>7 DEF findings

-----------------------------------------------------------------------------
(* A silence that was found stands: the rig has not been heard since, and  *)
(* its last word was no goodbye.                                           *)
SilencesStand ==
  \A r \in Rigs : Found(alerts, "rig_silent", Rig(r))
                  => /\ now - LastWord(r) > SilentAfter
                     /\ ~SaidGoodbye(Heartbeat(r, heard, closed))

Aired(s) == s = Snapshot(now', heard', closed')

LEMMA MinuteAired ==
  ASSUME HeardSound, NEW beating \in SUBSET Rigs, NEW leaving \in SUBSET beating, Minute(beating, leaving),
         NEW s, Aired(s)
  PROVE  /\ alerts' = Applied(EvaluateRules(s))
         /\ s.now = now'
         /\ DOMAIN s.rigs = Rigs
         /\ \A r \in Rigs : /\ s.rigs[r].seen = Max(heard'[r])
                            /\ s.rigs[r].heard = HeardRunsOf(heard'[r])
                            /\ s.rigs[r].seat = IF r \in seated THEN now' ELSE None
                            /\ QuietFor(s, r) = now' - Max(heard'[r])
                            /\ Max(heard'[r]) \in heard'[r]
                            /\ Max(heard'[r]) \in 0..now'
         /\ Reporting(s) = {r \in Rigs : ~SaidGoodbye(Heartbeat(r, heard', closed'))}
         /\ SilentRigs(s, Reporting(s))
             = {r \in Rigs : /\ ~SaidGoodbye(Heartbeat(r, heard', closed'))
                             /\ now' - Max(heard'[r]) > SilentAfter
                             /\ \/ now' - Max(heard'[r]) <= SilentLookback
                                \/ Alerted(alerts, "rig_silent", Rig(r))}
         /\ \A rule, subject : IsOpen(s, rule, subject) <=> Alerted(alerts, rule, subject)
<1>1. /\ now' \in Nat
      /\ heard' \in [Rigs -> SUBSET (0..now')]
      /\ \A r \in Rigs : heard'[r] # {}
      /\ alerts' = Applied(EvaluateRules(Snapshot(now', heard', closed')))
  BY MinuteJudges
<1> DEFINE t == now'
           times == heard'
           byes == closed'
<1>2. /\ t \in Nat
      /\ times \in [Rigs -> SUBSET (0..t)]
      /\ \A r \in Rigs : times[r] # {}
  BY <1>1
<1>3. s = Snapshot(t, times, byes) /\ alerts' = Applied(EvaluateRules(s))
  BY <1>1 DEF Aired
<1> HIDE DEF t, times, byes
<1>4. /\ s.now = t
      /\ DOMAIN s.rigs = Rigs
      /\ \A r \in Rigs : /\ s.rigs[r].seen = Max(times[r])
                         /\ s.rigs[r].heard = HeardRunsOf(times[r])
                         /\ s.rigs[r].seat = IF r \in seated THEN t ELSE None
                         /\ QuietFor(s, r) = t - Max(times[r])
      /\ Reporting(s) = {r \in Rigs : ~SaidGoodbye(Heartbeat(r, times, byes))}
      /\ \A rule, subject : IsOpen(s, rule, subject) <=> Alerted(alerts, rule, subject)
  BY <1>2, <1>3, SnapshotOfRigs
<1>5. SilentRigs(s, Reporting(s))
             = {r \in Rigs : /\ ~SaidGoodbye(Heartbeat(r, times, byes))
                             /\ t - Max(times[r]) > SilentAfter
                             /\ \/ t - Max(times[r]) <= SilentLookback
                                \/ Alerted(alerts, "rig_silent", Rig(r))}
  BY <1>2, <1>3, SilentOnes
<1>6. \A r \in Rigs : Max(times[r]) \in times[r] /\ Max(times[r]) \in 0..t
  BY <1>2, LastWordIsATime
<1> QED BY <1>3, <1>4, <1>5, <1>6 DEF t, times, byes

LEMMA SilencesStandInit == Init => SilencesStand
BY DEF Init, SilencesStand, Found

LEMMA SilencesStandStep ==
  ASSUME HeardSound, SilencesStand, [Next]_vars
  PROVE  SilencesStand'
<1>1. CASE \E beating \in SUBSET Rigs : \E leaving \in SUBSET beating : Minute(beating, leaving)
  <2>1. PICK beating \in SUBSET Rigs : \E leaving \in SUBSET beating : Minute(beating, leaving)
    BY <1>1
  <2>2. PICK leaving \in SUBSET beating : Minute(beating, leaving)
    BY <2>1
  <2>3. PICK s : Aired(s)
    BY DEF Aired
  <2> SUFFICES ASSUME NEW r \in Rigs, Found(alerts', "rig_silent", Rig(r))
               PROVE  now' - Max(heard'[r]) > SilentAfter /\ ~SaidGoodbye(Heartbeat(r, heard', closed'))
    BY DEF SilencesStand, LastWord
  <2>4. PICK f \in Silence(s) : f.rule = "rig_silent" /\ f.subject = Rig(r)
    <3>1. alerts' = Applied(EvaluateRules(s))
      BY <2>2, <2>3, MinuteAired
    <3>2. Found(Applied(EvaluateRules(s)), "rig_silent", Rig(r))
      BY <3>1
    <3> QED BY <3>2, FoundByEvaluation DEF OfSilence
  <2>5. r \in SilentRigs(s, Reporting(s))
    BY <2>4, RigFindings, RigsDiffer
  <2> QED BY <2>2, <2>3, <2>5, MinuteAired
<1>2. CASE ~\E beating \in SUBSET Rigs : \E leaving \in SUBSET beating : Minute(beating, leaving)
  <2>1. UNCHANGED <<now, heard, closed, alerts>>
    BY <1>2, OthersHearNothing
  <2> QED BY <2>1 DEF SilencesStand, LastWord, Heartbeat
<1> QED BY <1>1, <1>2

(* A minute in which a silent rig is not heard finds it silent again, as   *)
(* an urgent matter or as one reported already.                            *)
LEMMA SilentRigIsFoundAgain ==
  ASSUME HeardSound, SilencesStand,
         NEW beating \in SUBSET Rigs, NEW leaving \in SUBSET beating, Minute(beating, leaving),
         NEW r \in Rigs, Found(alerts, "rig_silent", Rig(r)), heard'[r] = heard[r]
  PROVE  Found(alerts', "rig_silent", Rig(r))
<1>1. PICK s : Aired(s)
  BY DEF Aired
<1>2. r \notin beating /\ now' = now + 1 /\ now \in Nat
  <2>1. now' = now + 1 /\ now \in Nat /\ (r \in beating => heard'[r] = heard[r] \cup {now'})
    BY MinuteJudges DEF HeardSound
  <2>2. heard[r] \in SUBSET (0..now)
    BY DEF HeardSound
  <2>3. now' \notin heard[r]
    BY <2>1, <2>2
  <2> QED BY <2>1, <2>3
<1>3. Heartbeat(r, heard', closed') = Heartbeat(r, heard, closed)
  <2>1. closed' = (closed \ beating) \cup leaving
    BY MinuteJudges
  <2>2. r \in closed' <=> r \in closed
    BY <1>2, <2>1
  <2> DEFINE bye == r \in closed
             gone == (r \in closed)'
  <2>3. bye = gone
    BY <2>2
  <2> DEFINE last == Max(heard[r])
             latest == Max(heard'[r])
  <2>4. last = latest
    OBVIOUS
  <2> HIDE DEF bye, gone, last, latest
  <2> QED BY <2>3, <2>4 DEF Heartbeat, bye, gone, last, latest
<1>4. now - Max(heard[r]) > SilentAfter /\ ~SaidGoodbye(Heartbeat(r, heard', closed'))
  BY <1>3 DEF SilencesStand, LastWord
<1>5. Alerted(alerts, "rig_silent", Rig(r))
  BY DEF Found, Alerted
<1>6. now' - Max(heard'[r]) > SilentAfter
  <2>1. Max(heard[r]) \in 0..now'
    BY <1>1, MinuteAired
  <2>2. SilentAfter \in Nat
    BY MonitorRulesAssumption DEF MonitorRulesAssumption
  <2> QED BY <1>2, <1>4, <2>1, <2>2
<1>7. r \in SilentRigs(s, Reporting(s))
  BY <1>1, <1>4, <1>5, <1>6, MinuteAired
<1>8. r \in Urgent(s) \cup Held(s)
  <2>1. IsOpen(s, "rig_silent", Rig(r))
    BY <1>1, <1>5, MinuteAired
  <2> QED BY <1>7, <2>1 DEF Held, HeldRigs
<1>9. \E f \in Silence(s) : f.rule = "rig_silent" /\ f.subject = Rig(r)
  BY <1>8, RigFindings
<1>10. Found(Applied(EvaluateRules(s)), "rig_silent", Rig(r))
  BY <1>9, FoundByEvaluation DEF OfSilence
<1> QED BY <1>1, <1>10, MinuteAired

(* A minute in which no rig is heard, or was a moment ago, keeps the note. *)
LEMMA SilentVenueIsFoundAgain ==
  ASSUME HeardSound,
         NEW beating \in SUBSET Rigs, NEW leaving \in SUBSET beating, Minute(beating, leaving),
         Found(alerts, "venue_silent", Venue), \A r \in Rigs : ~(now' - Max(heard'[r]) <= SilentAfter)
  PROVE  Found(alerts', "venue_silent", Venue)
<1>1. PICK s : Aired(s)
  BY DEF Aired
<1>2. ~AnyLive(s)
  BY <1>1, MinuteAired DEF AnyLive
<1>3. IsOpen(s, "venue_silent", Venue)
  <2>1. Alerted(alerts, "venue_silent", Venue)
    BY DEF Found, Alerted
  <2> QED BY <1>1, <2>1, MinuteAired
<1>4. VenueNote(s, AnyLive(s), Together(s, Alone(s)), Back(s))
  BY <1>2, <1>3 DEF VenueNote
<1>5. \E f \in Silence(s) : f.rule = "venue_silent" /\ f.subject = Venue
  BY <1>4, RigFindings
<1>6. Found(Applied(EvaluateRules(s)), "venue_silent", Venue)
  BY <1>5, FoundByEvaluation DEF OfSilence
<1> QED BY <1>1, <1>6, MinuteAired

(* A silence found is of a rig not heard since and not gone with a goodbye *)
(* (rules.ts, silentRigs).                                                 *)
THEOREM SilencesAreReal == Spec => []SilencesStand
<1>1. Init => HeardSound /\ SilencesStand
  BY HeardSoundInit, SilencesStandInit
<1>2. HeardSound /\ SilencesStand /\ [Next]_vars => (HeardSound /\ SilencesStand)'
  BY HeardSoundStep, SilencesStandStep
<1> QED BY <1>1, <1>2, PTL DEF Spec

(* However rigs are taken and left and event mode goes on and off, no      *)
(* evaluation drops a silence before its rig is heard, or the venue's note *)
(* before some rig is (rules.ts, held and the open alerts).                *)
THEOREM NoSilenceIsForgotten == Spec => SilenceIsNotForgotten
<1> DEFINE Kept ==
      /\ \A r \in Rigs :
           Found(alerts, "rig_silent", Rig(r)) /\ ~Found(alerts', "rig_silent", Rig(r))
           => heard'[r] # heard[r]
      /\ Found(alerts, "venue_silent", Venue) /\ ~Found(alerts', "venue_silent", Venue)
         => \E r \in Rigs : now' - Max(heard'[r]) <= SilentAfter
<1>1. ASSUME HeardSound, SilencesStand, [Next]_vars PROVE Kept
  <2>1. CASE \E beating \in SUBSET Rigs : \E leaving \in SUBSET beating : Minute(beating, leaving)
    BY <1>1, <2>1, SilentRigIsFoundAgain, SilentVenueIsFoundAgain
  <2>2. CASE ~\E beating \in SUBSET Rigs : \E leaving \in SUBSET beating : Minute(beating, leaving)
    <3>1. alerts' = alerts
      BY <1>1, <2>2, OthersHearNothing
    <3> QED BY <3>1
  <2> QED BY <2>1, <2>2
<1>2. HeardSound /\ SilencesStand /\ [Next]_vars => [Kept]_vars
  BY <1>1
<1> QED
  BY <1>2, EveryRigWasHeard, SilencesAreReal, PTL DEF Spec, SilenceIsNotForgotten

-----------------------------------------------------------------------------
(* A night on which nothing happens but heartbeats.                        *)
Uneventful == happened = 0 /\ \A p \in Pages : boards[p] = None

(* The rigs were not all heard lately, or not on together, or did not go   *)
(* quiet together.                                                         *)
Apart ==
  ~(/\ Cardinality(Rigs) >= 2
    /\ \A r \in Rigs : now - LastWord(r) <= SilentLookback
    /\ \A a, b \in Rigs : OnTogether(a, b) /\ LastWord(a) - LastWord(b) < CorrelationWindow)

IsAlarm(a, r) == a.rule = "rig_silent" /\ a.subject = Rig(r)

(* A warning that stands is of a rig that went quiet apart from the rest;  *)
(* one that is going away has missed every evaluation since its rig was    *)
(* heard, which are too few for the rig to be silent once more.            *)
AlarmSound(a, r) ==
  \/ a.absent = 0 /\ now - LastWord(r) >= SilentAfter + CorrelationWindow /\ Apart
  \/ a.absent > 0 /\ a.absent < ResolveAfterAbsent /\ now - LastWord(r) < a.absent

BoardRow == [seen : Nat, closed : Nat \cup {None}]

NightSound ==
  /\ happened \in Nat
  /\ boards \in [Pages -> BoardRow \cup {None}]
  /\ Uneventful =>
       /\ seated = {} /\ override = None /\ closed = {}
       /\ \A a \in alerts, r \in Rigs : IsAlarm(a, r) => AlarmSound(a, r)
       /\ WentDarkTogether => Alerted(alerts, "venue_silent", Venue)

LEMMA Windows ==
  /\ SilentAfter \in Nat /\ SilentLookback \in Nat /\ CorrelationWindow \in Nat
  /\ ResolveAfterAbsent \in Nat /\ ResolveAfterAbsent <= SilentAfter + 1
BY MonitorRulesAssumption, VenueWatchAssumption DEF MonitorRulesAssumption, VenueWatchAssumption

(* The runs rule 1 goes through are of the heartbeats stored: no rig was   *)
(* heard since the last one.                                               *)
LEMMA RunsAreHeard ==
  ASSUME NEW n \in Nat, NEW times \in SUBSET (0..n), times # {},
         NEW rig, rig.heard = HeardRunsOf(times), rig.seen = Max(times),
         NEW run \in HeardRuns(rig)
  PROVE  run.from \in times /\ run.from <= LastRun(times).from
<1> DEFINE runs == HeardRunsOf(times)
           IsLast(r) == \A other \in runs : other.to <= r.to
           last == CHOOSE r \in runs : IsLast(r)
<1>1. /\ LastRun(times) \in runs
      /\ LastRun(times).to = Max(times)
      /\ \A r \in runs : r.from \in times /\ r.to \in times /\ r.from <= LastRun(times).from
  BY LastRunIsLast
<1>2. Max(times) \in 0..n /\ \A t \in times : t <= Max(times)
  BY LastWordIsATime
<1> HIDE DEF runs
<1>3. last \in runs /\ IsLast(last)
  <2>1. IsLast(LastRun(times))
    BY <1>1, <1>2
  <2> QED BY <1>1, <2>1
<1>4. last.to = Max(times)
  <2>1. last.to \in times /\ Max(times) <= last.to
    BY <1>1, <1>3
  <2>2. last.to \in 0..n /\ last.to <= Max(times)
    BY <1>2, <2>1
  <2> QED BY <1>2, <2>1, <2>2
<1>5. HeardRuns(rig) = Extended(runs, last, Max(times))
  BY <1>1 DEF HeardRuns, runs
<1> HIDE DEF last
<1>6. Max(times) - last.to <= SilentAfter
  BY <1>2, <1>4, Windows
<1>7. \/ run \in runs
      \/ run = [from |-> last.from, to |-> Max({last.to, Max(times)})]
  BY <1>5, <1>6 DEF Extended
<1>8. CASE run \in runs
  BY <1>1, <1>8
<1>9. CASE run = [from |-> last.from, to |-> Max({last.to, Max(times)})]
  <2>1. run.from = last.from
    BY <1>9
  <2> QED BY <1>1, <1>3, <2>1
<1> QED BY <1>7, <1>8, <1>9

(* An uneventful minute: nobody to be urgent for, and every rig reports.   *)
LEMMA QuietMinute ==
  ASSUME HeardSound, NightSound, Uneventful',
         NEW beating \in SUBSET Rigs, NEW leaving \in SUBSET beating, Minute(beating, leaving),
         NEW s, Aired(s)
  PROVE  /\ Uneventful /\ happened' \in Nat
         /\ seated' = {} /\ override' = None /\ closed' = {}
         /\ Reporting(s) = Rigs
         /\ Urgent(s) = {}
<1>1. happened' = happened + Cardinality(leaving) /\ happened' = 0 /\ boards' = boards
  BY DEF Minute, Uneventful
<1>2. IsFiniteSet(leaving) /\ Cardinality(leaving) \in Nat
  BY VenueWatchAssumption, FS_Subset, FS_CardinalityType DEF VenueWatchAssumption
<1>3. happened = 0 /\ leaving = {}
  <2>1. happened = 0 /\ Cardinality(leaving) = 0
    BY <1>1, <1>2 DEF NightSound
  <2> QED BY <1>2, <2>1, FS_EmptySet
<1>4. Uneventful
  BY <1>1, <1>3 DEF Uneventful
<1>5. seated = {} /\ override = None /\ closed = {}
  BY <1>4 DEF NightSound
<1>6. closed' = {} /\ seated' = {} /\ override' = None
  <2>1. closed' = (closed \ beating) \cup leaving /\ UNCHANGED <<seated, boards, override>>
    BY MinuteJudges
  <2> QED BY <1>3, <1>5, <2>1
<1>7. Reporting(s) = Rigs
  <2>1. \A r \in Rigs : ~Heartbeat(r, heard', closed').bye
    BY <1>6 DEF Heartbeat
  <2> QED BY <2>1, MinuteAired DEF SaidGoodbye
<1>8. EventModeBegan(s) = None
  <2>1. s.override = None /\ s.boards = {}
    BY <1>4, <1>5, MinuteJudges DEF Aired, Snapshot, Uneventful
  <2> QED BY <2>1 DEF EventModeBegan, EventMode
<1>9. Urgent(s) = {}
  <2>1. \A r \in SilentRigs(s, Reporting(s)) : r \in Rigs /\ s.rigs[r].seat = None
    BY <1>5, MinuteAired
  <2> QED BY <1>8, <2>1 DEF Urgent, SwitchedOnForEvent
<1> QED BY <1>1, <1>3, <1>4, <1>6, <1>7, <1>9

(* Rigs that are not apart count back from a time all of them were heard   *)
(* after: where the venue was heard again before, all had their last run   *)
(* ahead of them or were in it.                                            *)
LEMMA BackBefore ==
  ASSUME HeardSound, NEW beating \in SUBSET Rigs, NEW leaving \in SUBSET beating, Minute(beating, leaving),
         NEW s, Aired(s), ~Apart', NEW r \in Rigs
  PROVE  s.rigs[r].seen >= Back(s)
<1>1. /\ s.now = now'
      /\ DOMAIN s.rigs = Rigs
      /\ \A q \in Rigs : s.rigs[q].seen = Max(heard'[q]) /\ s.rigs[q].heard = HeardRunsOf(heard'[q])
      /\ Reporting(s) \subseteq Rigs
  BY MinuteAired
<1>2. /\ now' \in Nat
      /\ \A q \in Rigs : heard'[q] \in SUBSET (0..now') /\ heard'[q] # {}
  BY MinuteJudges
<1>3. ASSUME NEW q \in Rigs PROVE Max(heard'[q]) \in 0..now'
  BY <1>2, LastWordIsATime
<1>4. ASSUME NEW q \in Rigs PROVE LastRun(heard'[q]).from <= Max(heard'[r])
  <2>1. OnTogether(q, r)'
    BY DEF Apart
  <2> QED BY <2>1 DEF OnTogether, LastWord
<1> DEFINE runs == RunsOf(s)
           froms == UNION {{run.from : run \in runs[q]} : q \in DOMAIN runs}
<1>5. ASSUME NEW t \in froms PROVE t \in 0..now' /\ t <= Max(heard'[r])
  <2>1. PICK q \in Reporting(s) : \E run \in HeardRuns(s.rigs[q]) : t = run.from
    BY DEF RunsOf
  <2>2. PICK run \in HeardRuns(s.rigs[q]) : t = run.from
    BY <2>1
  <2> DEFINE times == heard'[q]
             n == now'
  <2>3. /\ q \in Rigs /\ n \in Nat /\ times \in SUBSET (0..n) /\ times # {}
        /\ s.rigs[q].heard = HeardRunsOf(times) /\ s.rigs[q].seen = Max(times)
    BY <1>1, <1>2, <2>1
  <2>4. LastRun(times).from <= Max(heard'[r])
    BY <1>4, <2>3
  <2> HIDE DEF times, n
  <2>5. t \in times /\ t <= LastRun(times).from
    BY <2>2, <2>3, RunsAreHeard
  <2>6. LastRun(times).from \in times
    BY <2>3, LastRunIsLast
  <2>7. t \in 0..n /\ LastRun(times).from \in 0..n
    BY <2>3, <2>5, <2>6
  <2>8. Max(heard'[r]) \in Int
    BY <1>2, <1>3
  <2> QED BY <2>3, <2>4, <2>5, <2>7, <2>8 DEF n
<1> HIDE DEF froms, runs
<1> DEFINE counted == {Never} \cup {t \in froms : s.now - t <= SilentLookback /\ AfterVenueSilence(runs, t)}
<1>6. Back(s) = Max(counted)
  BY DEF Back, HeardAgainAt, froms, runs
<1>7. /\ counted \in SUBSET Int /\ counted # {}
      /\ \A t \in counted : t <= now' /\ t <= Max(heard'[r])
  <2>1. \A t \in counted : t = -1 \/ t \in froms
    BY DEF Never
  <2>2. \A t \in counted : t \in Int /\ t <= now' /\ t <= Max(heard'[r])
    BY <1>2, <1>3, <1>5, <2>1
  <2> QED BY <2>2
<1> HIDE DEF counted
<1>8. Max(counted) \in counted
  <2> DEFINE n == now'
  <2>1. n \in Int /\ \A t \in counted : t <= n
    BY <1>2, <1>7
  <2> HIDE DEF n
  <2> QED BY <1>7, <2>1, MaxIsIn
<1>9. Back(s) <= Max(heard'[r]) /\ Back(s) \in Int /\ Max(heard'[r]) \in Int
  <2>1. Max(heard'[r]) \in Int
    BY <1>2, <1>3
  <2> QED BY <1>6, <1>7, <1>8, <2>1
<1> QED BY <1>1, <1>9

(* Rigs whose last words are within the window are together.               *)
LEMMA WordsTogether ==
  ASSUME NEW n \in Nat, NEW rigs, NEW words \in [rigs -> 0..n],
         Cardinality(rigs) >= 2, rigs # {},
         \A a, b \in rigs : words[a] - words[b] <= CorrelationWindow
  PROVE  TogetherAt(words)
<1> DEFINE W == Range(words)
<1>1. W = {words[r] : r \in rigs} /\ DOMAIN words = rigs
  BY DEF Range
<1>2. W \in SUBSET Int /\ W # {} /\ n \in Int /\ \A w \in W : w <= n /\ 0 <= w
  <2>1. \A r \in rigs : words[r] \in Int /\ words[r] <= n /\ 0 <= words[r]
    OBVIOUS
  <2> HIDE DEF W
  <2> QED BY <1>1, <2>1
<1> HIDE DEF W
<1>3. Max(W) \in W
  BY <1>2, MaxIsIn
<1>4. Min(W) \in W
  <2>1. 0 \in Int /\ W \in SUBSET Int /\ W # {} /\ \A w \in W : 0 <= w
    BY <1>2
  <2> QED BY <2>1, MinIsIn
<1>5. Max(W) - Min(W) <= CorrelationWindow
  BY <1>1, <1>3, <1>4
<1> QED BY <1>1, <1>5 DEF TogetherAt, W

(* A minute moves the last words of the rigs heard in it, to its end.      *)
LEMMA TimesAMinuteLater ==
  ASSUME HeardSound, NEW beating \in SUBSET Rigs, NEW leaving \in SUBSET beating, Minute(beating, leaving),
         NEW r \in Rigs
  PROVE  /\ now \in Nat /\ now' = now + 1
         /\ LastWord(r) \in Int /\ LastWord(r)' \in Int
         /\ r \in beating => LastWord(r)' = now'
         /\ r \notin beating => LastWord(r)' = LastWord(r)
<1>1. /\ now \in Nat /\ now' = now + 1
      /\ heard'[r] = IF r \in beating THEN heard[r] \cup {now'} ELSE heard[r]
      /\ heard' \in [Rigs -> SUBSET (0..now')] /\ heard'[r] # {}
  BY MinuteJudges DEF HeardSound
<1>2. LastWord(r) \in Int
  <2>1. heard[r] \in SUBSET (0..now) /\ heard[r] # {} /\ now \in Nat
    BY DEF HeardSound
  <2> QED BY <2>1, LastWordIsATime DEF LastWord
<1> DEFINE t == now'
           times == heard'[r]
<1>3. t \in Nat /\ times \in SUBSET (0..t) /\ times # {} /\ (r \in beating => t \in times)
  BY <1>1
<1>4. LastWord(r)' = Max(times) /\ (r \notin beating => Max(times) = LastWord(r))
  BY <1>1 DEF LastWord
<1> HIDE DEF times
<1>5. Max(times) \in Int /\ (r \in beating => Max(times) = t)
  <2> HIDE DEF t
  <2>1. Max(times) \in 0..t /\ (r \in beating => t <= Max(times))
    BY <1>3, LastWordIsATime
  <2> QED BY <1>3, <2>1
<1> QED BY <1>1, <1>2, <1>4, <1>5 DEF t

(* Being apart outlasts the silence of a rig that was warned about: whoever *)
(* is heard now was not heard together with it.                            *)
LEMMA ApartStays ==
  ASSUME HeardSound, NEW beating \in SUBSET Rigs, NEW leaving \in SUBSET beating, Minute(beating, leaving),
         NEW r \in Rigs, r \notin beating, now - LastWord(r) >= SilentAfter + CorrelationWindow, Apart
  PROVE  Apart'
<1>1. CASE beating = {}
  <2>0. heard' \in [Rigs -> SUBSET (0..now')] /\ \A q \in Rigs : heard'[q] = heard[q]
    BY <1>1, MinuteJudges
  <2>1. heard' = heard
    BY <2>0 DEF HeardSound
  <2>2. \A q \in Rigs : now' - LastWord(q) <= SilentLookback => now - LastWord(q) <= SilentLookback
    BY TimesAMinuteLater, Windows
  <2> QED BY <2>1, <2>2 DEF Apart, OnTogether, LastWord
<1>2. ASSUME NEW q \in beating PROVE Apart'
  <2>1. \A w, t \in Int : t - w >= SilentAfter + CorrelationWindow => ~((t + 1) - w < CorrelationWindow)
    BY Windows
  <2>2. /\ LastWord(q)' = now + 1 /\ now \in Int
        /\ LastWord(r)' = LastWord(r) /\ LastWord(r) \in Int
    BY <1>2, TimesAMinuteLater
  <2>3. ~(LastWord(q)' - LastWord(r)' < CorrelationWindow)
    BY <2>1, <2>2
  <2> QED BY <2>3 DEF Apart
<1> QED BY <1>1, <1>2

(* A rig warned about already that is silent still went quiet apart, and   *)
(* has not been heard since: one that was is not silent again yet.         *)
LEMMA HeldApart ==
  ASSUME HeardSound, NightSound, Uneventful',
         NEW beating \in SUBSET Rigs, NEW leaving \in SUBSET beating, Minute(beating, leaving),
         NEW s, Aired(s), NEW r \in Held(s)
  PROVE  /\ r \in Rigs
         /\ now' - LastWord(r)' >= SilentAfter + CorrelationWindow
         /\ Apart'
<1>1. r \in SilentRigs(s, Reporting(s)) /\ IsOpen(s, "rig_silent", Rig(r))
  BY DEF Held, HeldRigs
<1>2. r \in Rigs /\ now' - LastWord(r)' > SilentAfter /\ Alerted(alerts, "rig_silent", Rig(r))
  BY <1>1, MinuteAired DEF LastWord
<1>3. PICK a \in alerts : IsAlarm(a, r)
  BY <1>2 DEF Alerted, IsAlarm
<1>4. AlarmSound(a, r) /\ a.absent \in Nat
  BY <1>2, <1>3, QuietMinute DEF NightSound, HeardSound, IsAlert
<1>5. /\ now \in Nat /\ now' = now + 1 /\ LastWord(r) \in Int
      /\ r \in beating => LastWord(r)' = now'
      /\ r \notin beating => LastWord(r)' = LastWord(r)
  BY <1>2, TimesAMinuteLater
<1>6. r \notin beating
  BY <1>2, <1>5, Windows
<1>7. a.absent = 0 /\ now - LastWord(r) >= SilentAfter + CorrelationWindow /\ Apart
  <2> SUFFICES ASSUME a.absent < ResolveAfterAbsent, now - LastWord(r) < a.absent PROVE FALSE
    BY <1>4 DEF AlarmSound
  <2> DEFINE k == a.absent
             w == LastWord(r)
  <2>1. k \in Nat /\ w \in Int /\ k < ResolveAfterAbsent /\ now - w < k /\ now + 1 - w > SilentAfter
    BY <1>2, <1>4, <1>5, <1>6
  <2> HIDE DEF k, w
  <2> QED BY <1>5, <2>1, Windows
<1>8. now' - LastWord(r)' >= SilentAfter + CorrelationWindow
  BY <1>5, <1>6, <1>7, Windows
<1> QED BY <1>2, <1>6, <1>7, <1>8, ApartStays

(* A minute after which the rigs are not apart and all are silent finds    *)
(* them silent together.                                                   *)
LEMMA DarkIsTogether ==
  ASSUME HeardSound, NightSound, Uneventful',
         NEW beating \in SUBSET Rigs, NEW leaving \in SUBSET beating, Minute(beating, leaving),
         NEW s, Aired(s), ~Apart', \A r \in Rigs : now' - LastWord(r)' > SilentAfter
  PROVE  ~AnyLive(s) /\ Together(s, Alone(s))
<1>1. Reporting(s) = Rigs /\ Urgent(s) = {}
  BY QuietMinute
<1>2. \A r \in Rigs : QuietFor(s, r) = now' - LastWord(r)' /\ s.rigs[r].seen = LastWord(r)'
  BY MinuteAired DEF LastWord
<1>3. now' \in Nat /\ \A r \in Rigs : LastWord(r)' \in Int
  BY MinuteJudges, TimesAMinuteLater
<1>4. ~AnyLive(s)
  BY <1>1, <1>2, <1>3, Windows DEF AnyLive
<1>5. SilentRigs(s, Reporting(s)) = Rigs
  <2>1. \A r \in Rigs : /\ QuietFor(s, r) > SilentAfter
                        /\ QuietFor(s, r) <= SilentLookback
    BY <1>2 DEF Apart
  <2> QED BY <1>1, <2>1 DEF SilentRigs
<1>6. Held(s) = {}
  BY HeldApart
<1>7. Alone(s) = Rigs
  BY <1>1, <1>5, <1>6, BackBefore DEF Alone, Unexplained, Held
<1> DEFINE words == [r \in Rigs |-> s.rigs[r].seen]
           n == now'
<1>8. /\ n \in Nat
      /\ \A r \in Rigs : s.rigs[r].seen \in 0..n
  <2>1. \A r \in Rigs : s.rigs[r].seen = Max(heard'[r]) /\ Max(heard'[r]) \in 0..now'
    BY MinuteAired
  <2> QED BY <1>3, <2>1
<1>9. /\ words \in [Rigs -> 0..n]
      /\ Cardinality(Rigs) >= 2 /\ Rigs # {}
      /\ \A a, b \in Rigs : words[a] - words[b] <= CorrelationWindow
  <2>1. Cardinality(Rigs) >= 2
    BY DEF Apart
  <2>2. Rigs # {}
    BY <2>1, FS_EmptySet
  <2>3. ASSUME NEW a \in Rigs, NEW b \in Rigs PROVE words[a] - words[b] <= CorrelationWindow
    <3>1. LastWord(a)' - LastWord(b)' < CorrelationWindow
      BY DEF Apart
    <3>2. LastWord(a)' - LastWord(b)' <= CorrelationWindow
      BY <1>3, <3>1, Windows
    <3> QED BY <1>2, <3>2
  <2> QED BY <1>8, <2>1, <2>2, <2>3
<1>10. TogetherAt(words)
  <2> HIDE DEF words, n
  <2> QED BY <1>8, <1>9, WordsTogether
<1> QED BY <1>4, <1>7, <1>10 DEF Together

(* A warning the minute gives stands on rigs that are apart.               *)
LEMMA WarningsAreOfRigsApart ==
  ASSUME HeardSound, NightSound, Uneventful',
         NEW beating \in SUBSET Rigs, NEW leaving \in SUBSET beating, Minute(beating, leaving),
         NEW s, Aired(s), NEW f \in Silence(s), NEW r \in Rigs, f.rule = "rig_silent", f.subject = Rig(r)
  PROVE  now' - LastWord(r)' >= SilentAfter + CorrelationWindow /\ Apart'
<1>1. PICK q \in SilentRigs(s, Reporting(s)) :
        /\ f.subject = Rig(q)
        /\ \/ q \in Urgent(s) \cup Held(s)
           \/ /\ q \in Alone(s)
              /\ ~Covers(s, AnyLive(s), Together(s, Alone(s)), Back(s))
              /\ QuietFor(s, q) >= SilentAfter + CorrelationWindow
  BY RigFindings
<1>2. q = r
  BY <1>1, RigsDiffer
<1>3. Urgent(s) = {} /\ Reporting(s) = Rigs
  BY QuietMinute
<1>4. CASE r \in Held(s)
  BY <1>4, HeldApart
<1>5. CASE /\ ~Covers(s, AnyLive(s), Together(s, Alone(s)), Back(s))
           /\ QuietFor(s, r) >= SilentAfter + CorrelationWindow
  <2>1. now' - LastWord(r)' >= SilentAfter + CorrelationWindow
    BY <1>5, MinuteAired DEF LastWord
  <2>2. ~(~AnyLive(s) /\ Together(s, Alone(s)))
    BY <1>5 DEF Covers
  <2> SUFFICES ASSUME ~Apart' PROVE FALSE
    BY <2>1
  <2>3. PICK p \in Rigs : ~(now' - LastWord(p)' > SilentAfter)
    BY <2>2, DarkIsTogether
  <2>4. LastWord(p)' - LastWord(r)' < CorrelationWindow
    BY DEF Apart
  <2>5. now' \in Int
    BY MinuteJudges
  <2>6. LastWord(p)' \in Int /\ LastWord(r)' \in Int
    BY TimesAMinuteLater
  <2> DEFINE t == now'
             v == LastWord(p)'
             w == LastWord(r)'
  <2>7. /\ t \in Int /\ v \in Int /\ w \in Int
        /\ t - w >= SilentAfter + CorrelationWindow /\ ~(t - v > SilentAfter) /\ v - w < CorrelationWindow
    BY <2>1, <2>3, <2>4, <2>5, <2>6
  <2> HIDE DEF t, v, w
  <2> QED BY <2>7, Windows
<1> QED BY <1>1, <1>2, <1>3, <1>4, <1>5

LEMMA NightSoundInit == Init => NightSound
<1> SUFFICES ASSUME Init PROVE NightSound
  OBVIOUS
<1>1. /\ happened \in Nat /\ seated = {} /\ override = None /\ closed = {}
      /\ \A a \in alerts, r \in Rigs : IsAlarm(a, r) => AlarmSound(a, r)
  BY DEF Init
<1>2. ~WentDarkTogether
  <2> SUFFICES ASSUME Cardinality(Rigs) >= 2, \A r \in Rigs : now - LastWord(r) \in (SilentAfter + 1)..SilentLookback
               PROVE  FALSE
    BY DEF WentDarkTogether
  <2>1. PICK r \in Rigs : TRUE
    BY FS_EmptySet
  <2>2. LastWord(r) = 0
    BY DEF Init, LastWord, Max
  <2> QED BY <2>2, Windows DEF Init
<1>3. boards \in [Pages -> BoardRow \cup {None}]
  BY DEF Init
<1> QED BY <1>1, <1>2, <1>3 DEF NightSound

LEMMA NightSoundMinute ==
  ASSUME HeardSound, SilencesStand, NightSound,
         NEW beating \in SUBSET Rigs, NEW leaving \in SUBSET beating, Minute(beating, leaving)
  PROVE  NightSound'
<1>1. happened' \in Nat /\ boards' \in [Pages -> BoardRow \cup {None}]
  <2>1. IsFiniteSet(leaving) /\ Cardinality(leaving) \in Nat
    BY VenueWatchAssumption, FS_Subset, FS_CardinalityType DEF VenueWatchAssumption
  <2> QED BY <2>1 DEF Minute, NightSound
<1> SUFFICES ASSUME Uneventful'
             PROVE  /\ seated' = {} /\ override' = None /\ closed' = {}
                    /\ \A a \in alerts', r \in Rigs : IsAlarm(a, r) => AlarmSound(a, r)'
                    /\ WentDarkTogether' => Alerted(alerts', "venue_silent", Venue)
  BY <1>1 DEF NightSound, IsAlarm
<1>2. PICK s : Aired(s)
  BY DEF Aired
<1>3. alerts' = Applied(EvaluateRules(s))
  BY <1>2, MinuteAired
<1>4. Uneventful /\ seated' = {} /\ override' = None /\ closed' = {}
  BY <1>2, QuietMinute
<1>5. ASSUME NEW a \in alerts', NEW r \in Rigs, IsAlarm(a, r)
      PROVE  AlarmSound(a, r)'
  <2> DEFINE findings == EvaluateRules(s)
  <2>1. /\ IsAlert(a)
        /\ \/ a.absent = 0 /\ \E f \in findings : About(a, f)
           \/ /\ a.absent < ResolveAfterAbsent
              /\ \E b \in alerts : /\ About(a, b) /\ a.absent = b.absent + 1
                                   /\ \A f \in findings : ~About(b, f)
    <3>1. \A b \in alerts : IsAlert(b)
      BY DEF HeardSound
    <3> HIDE DEF findings
    <3> QED BY <1>3, <3>1, AppliedAlerts DEF findings
  <2>2. \A f \in findings : f.rule = "rig_silent" => f \in Silence(s)
    BY OnlyRuleOneSpeaksOfSilence DEF OfSilence
  <2>3. \A f \in Silence(s) : f \in findings
    BY SilenceIsFound
  <2> HIDE DEF findings
  <2>4. CASE a.absent = 0 /\ \E f \in findings : About(a, f)
    <3>1. PICK f \in findings : About(a, f)
      BY <2>4
    <3>2. f \in Silence(s) /\ f.rule = "rig_silent" /\ f.subject = Rig(r)
      BY <1>5, <2>2, <3>1 DEF IsAlarm, About
    <3>3. now' - LastWord(r)' >= SilentAfter + CorrelationWindow /\ Apart'
      BY <1>2, <3>2, WarningsAreOfRigsApart
    <3> QED BY <2>4, <3>3 DEF AlarmSound
  <2>5. CASE /\ a.absent < ResolveAfterAbsent
             /\ \E b \in alerts : /\ About(a, b) /\ a.absent = b.absent + 1
                                  /\ \A f \in findings : ~About(b, f)
    <3>1. PICK b \in alerts : /\ About(a, b) /\ a.absent = b.absent + 1
                              /\ \A f \in findings : ~About(b, f)
      BY <2>5
    <3>2. IsAlarm(b, r) /\ b.absent \in Nat
      BY <1>5, <3>1 DEF IsAlarm, About, HeardSound, IsAlert
    <3>3. AlarmSound(b, r)
      BY <1>4, <3>2 DEF NightSound
    <3>4. /\ now \in Nat /\ now' = now + 1
          /\ LastWord(r) \in Int /\ LastWord(r)' \in Int
          /\ r \in beating => LastWord(r)' = now'
          /\ r \notin beating => LastWord(r)' = LastWord(r)
      BY TimesAMinuteLater
    <3>5. CASE r \in beating
      <4>1. now' - LastWord(r)' = 0
        BY <3>4, <3>5
      <4> QED BY <2>5, <3>1, <3>2, <4>1 DEF AlarmSound
    <3>6. CASE r \notin beating
      <4>1. b.absent # 0
        <5> SUFFICES ASSUME b.absent = 0 PROVE FALSE
          OBVIOUS
        <5>1. Found(alerts, "rig_silent", Rig(r))
          BY <3>2 DEF Found, IsAlarm
        <5>2. heard'[r] = heard[r]
          BY <3>6, MinuteJudges
        <5>3. Found(Applied(EvaluateRules(s)), "rig_silent", Rig(r))
          BY <1>3, <5>1, <5>2, SilentRigIsFoundAgain
        <5>4. PICK f \in Silence(s) : f.rule = "rig_silent" /\ f.subject = Rig(r)
          BY <5>3, FoundByEvaluation DEF OfSilence
        <5> QED BY <2>3, <3>1, <3>2, <5>4 DEF About, IsAlarm
      <4>2. now - LastWord(r) < b.absent
        BY <3>3, <4>1 DEF AlarmSound
      <4> DEFINE k == b.absent
      <4>3. k \in Nat /\ now - LastWord(r) < k /\ a.absent = k + 1
        BY <3>1, <3>2, <4>2
      <4> HIDE DEF k
      <4>4. now' - LastWord(r)' < a.absent /\ a.absent > 0
        BY <3>4, <3>6, <4>3
      <4> QED BY <2>5, <4>4 DEF AlarmSound
    <3> QED BY <3>5, <3>6
  <2> QED BY <2>1, <2>4, <2>5
<1>6. ASSUME WentDarkTogether' PROVE Alerted(alerts', "venue_silent", Venue)
  <2>1. now' \in Nat /\ \A r \in Rigs : LastWord(r)' \in Int
    BY MinuteJudges, TimesAMinuteLater
  <2>2. ~Apart' /\ \A r \in Rigs : now' - LastWord(r)' > SilentAfter
    BY <1>6, <2>1, Windows DEF WentDarkTogether, Apart
  <2>3. ~AnyLive(s) /\ Together(s, Alone(s))
    BY <1>2, <2>2, DarkIsTogether
  <2>4. \E f \in Silence(s) : f.rule = "venue_silent" /\ f.subject = Venue
    BY <2>3, RigFindings DEF VenueNote
  <2>5. Found(Applied(EvaluateRules(s)), "venue_silent", Venue)
    BY <2>4, FoundByEvaluation DEF OfSilence
  <2> QED BY <1>3, <2>5 DEF Found, Alerted
<1> QED BY <1>4, <1>5, <1>6

(* A night another action leaves as it was.                                *)
LEMMA NightUntouched ==
  ASSUME NightSound, UNCHANGED <<now, heard, closed, alerts, seated, boards, override, happened>>
  PROVE  NightSound'
BY DEF NightSound, Uneventful, IsAlarm, AlarmSound, Apart, WentDarkTogether, OnTogether, LastWord

(* A night another action makes eventful.                                  *)
LEMMA NightOver ==
  ASSUME happened' \in Nat, boards' \in [Pages -> BoardRow \cup {None}], ~Uneventful'
  PROVE  NightSound'
BY DEF NightSound

LEMMA BoardEndsTheNight ==
  ASSUME HeardSound, NightSound, NEW p \in Pages, NEW closing \in BOOLEAN, BoardHeard(p, closing)
  PROVE  NightSound'
<1> DEFINE row == [seen |-> now, closed |-> ClosedAt(boards[p], closing)]
<1>1. now \in Nat /\ happened' \in Nat /\ boards \in [Pages -> BoardRow \cup {None}]
  BY DEF HeardSound, NightSound, BoardHeard
<1>2. ClosedAt(boards[p], closing) \in Nat \cup {None}
  BY <1>1 DEF ClosedAt, BoardRow
<1>3. row \in BoardRow
  BY <1>1, <1>2 DEF BoardRow
<1>4. boards' = [boards EXCEPT ![p] = row]
  BY DEF BoardHeard
<1> HIDE DEF row
<1>5. boards' \in [Pages -> BoardRow \cup {None}] /\ boards'[p] = row
  BY <1>1, <1>3, <1>4
<1>6. None \notin BoardRow
  BY VenueWatchAssumption DEF VenueWatchAssumption, BoardRow
<1>7. ~Uneventful'
  BY <1>3, <1>5, <1>6 DEF Uneventful
<1> QED BY <1>1, <1>5, <1>7, NightOver

LEMMA NightSoundStep ==
  ASSUME HeardSound, SilencesStand, NightSound, [Next]_vars
  PROVE  NightSound'
<1>0. happened \in Nat /\ boards \in [Pages -> BoardRow \cup {None}]
  BY DEF NightSound
<1>1. CASE \E beating \in SUBSET Rigs : \E leaving \in SUBSET beating : Minute(beating, leaving)
  BY <1>1, NightSoundMinute
<1>2. CASE \E p \in Pages, closing \in BOOLEAN : BoardHeard(p, closing)
  BY <1>2, BoardEndsTheNight
<1>3. CASE \E choice \in {"on", "off", "auto"} : SetOverride(choice)
  <2>1. happened' = happened + 1 /\ boards' = boards
    BY <1>3 DEF SetOverride
  <2>2. ~Uneventful'
    BY <1>0, <2>1 DEF Uneventful
  <2> QED BY <1>0, <2>1, <2>2, NightOver
<1>4. ASSUME NEW r \in Rigs, SitDown(r) PROVE NightSound'
  <2>1. happened' = happened + 1 /\ boards' = boards
    BY <1>4 DEF SitDown
  <2>2. ~Uneventful'
    BY <1>0, <2>1 DEF Uneventful
  <2> QED BY <1>0, <2>1, <2>2, NightOver
<1>5. ASSUME NEW r \in Rigs, StandUp(r) PROVE NightSound'
  <2>1. r \in seated /\ happened' = happened /\ boards' = boards
    BY <1>5 DEF StandUp
  <2>2. ~Uneventful'
    BY <2>1 DEF NightSound, Uneventful
  <2> QED BY <1>0, <2>1, <2>2, NightOver
<1>6. CASE \E flip \in flips : PostFlip(flip) \/ FailFlip(flip)
  BY <1>6, NightUntouched DEF PostFlip, FailFlip, rigVars
<1>7. CASE UNCHANGED vars
  BY <1>7, NightUntouched DEF vars
<1> QED BY <1>1, <1>2, <1>3, <1>4, <1>5, <1>6, <1>7 DEF Next

(* On a night on which nothing happens but heartbeats: a warning of a      *)
(* silent rig stands while the rigs are apart, and rigs that went dark     *)
(* together have the venue's note.                                         *)
THEOREM NightsAreSound == Spec => []NightSound
<1>1. HeardSound /\ SilencesStand /\ NightSound /\ [Next]_vars => NightSound'
  BY NightSoundStep
<1> QED
  BY <1>1, NightSoundInit, EveryRigWasHeard, SilencesAreReal, PTL DEF Spec

(* Rigs that fell silent together, with nobody seated and no event, are    *)
(* the venue closing (rules.ts, rule 1): whatever the number of rigs, the  *)
(* channel has one note and no warning for each.                           *)
THEOREM DarkVenueIsQuiet == Spec => []VenueGoesDarkQuietly
<1>1. ASSUME HeardSound, NightSound PROVE VenueGoesDarkQuietly
  <2> SUFFICES ASSUME Uneventful, WentDarkTogether
               PROVE  /\ Alerted(alerts, "venue_silent", Venue)
                      /\ \A r \in Rigs : ~Alerted(alerts, "rig_silent", Rig(r))
    BY DEF VenueGoesDarkQuietly, Uneventful
  <2>1. now \in Nat /\ \A r \in Rigs : LastWord(r) \in Int
    <3>1. \A r \in Rigs : heard[r] \in SUBSET (0..now) /\ heard[r] # {}
      BY <1>1 DEF HeardSound
    <3> QED BY <1>1, <3>1, LastWordIsATime DEF HeardSound, LastWord
  <2>2. ~Apart /\ \A r \in Rigs : now - LastWord(r) >= SilentAfter + 1
    BY <2>1, Windows DEF WentDarkTogether, Apart
  <2>3. ASSUME NEW r \in Rigs, NEW a \in alerts, IsAlarm(a, r) PROVE FALSE
    <3>1. a.absent \in Nat /\ a.absent < ResolveAfterAbsent /\ now - LastWord(r) < a.absent
      BY <1>1, <2>2, <2>3 DEF NightSound, AlarmSound, HeardSound, IsAlert
    <3> DEFINE k == a.absent
               w == LastWord(r)
    <3>2. k \in Nat /\ w \in Int /\ k < ResolveAfterAbsent /\ now - w < k /\ now - w >= SilentAfter + 1
      BY <2>1, <2>2, <3>1
    <3> HIDE DEF k, w
    <3> QED BY <2>1, <3>2, Windows
  <2> QED BY <1>1, <2>3 DEF NightSound, Alerted, IsAlarm
<1> QED
  BY <1>1, EveryRigWasHeard, NightsAreSound, PTL

-----------------------------------------------------------------------------
(* The order a rig's heartbeats were sent in (rig-state.ts).               *)

(* Induction over the naturals, for a set of them.                         *)
LEMMA NatsInduct ==
  ASSUME NEW P, 0 \in P, \A k \in Nat : k \in P => k + 1 \in P
  PROVE  Nat \subseteq P
<1> SUFFICES ASSUME Nat \ P # {} PROVE FALSE
  OBVIOUS
<1>1. \E x \in Nat \ P : \A y \in Nat \ P : ~(<<y, x>> \in OpToRel(<, Nat))
  <2> DEFINE T == Nat \ P
  <2>1. T \subseteq Nat /\ T # {}
    OBVIOUS
  <2> HIDE DEF T
  <2>2. \E x \in T : \A y \in T : ~(<<y, x>> \in OpToRel(<, Nat))
    BY <2>1, NatLessThanWellFounded, WFMin
  <2> QED BY <2>2 DEF T
<1>2. PICK x \in Nat \ P : \A y \in Nat \ P : ~(<<y, x>> \in OpToRel(<, Nat))
  BY <1>1
<1>5. x \in Nat /\ x \notin P
  OBVIOUS
<1>3. x - 1 \in Nat /\ x - 1 < x /\ x \in Nat /\ (x - 1) + 1 = x
  <2>1. x # 0
    BY <1>5
  <2> QED BY <1>5, <2>1
<1>4. <<x - 1, x>> \in OpToRel(<, Nat)
  BY <1>3 DEF OpToRel
<1> QED BY <1>2, <1>3, <1>4

(* A heartbeat is put in its place among those in send order.              *)
PutInPlace(ordered, h) ==
  LET later == {i \in DOMAIN ordered : SentBefore(h, ordered[i])}
  IN  IF later = {} THEN Append(ordered, h) ELSE InsertAt(ordered, Min(later), h)

LEMMA MaxOfAll ==
  ASSUME NEW k \in Nat, NEW s \in SUBSET (1..(k + 1)), k + 1 \in s
  PROVE  Max(s) = k + 1
<1>1. \A y \in s : k + 1 >= y /\ y \in Int
  OBVIOUS
<1>2. \A x \in s : (\A y \in s : x >= y) => x = k + 1
  BY <1>1
<1> QED BY <1>1, <1>2 DEF Max

(* The order is made by putting one after another in its place.            *)
LEMMA SendOrderSteps ==
  ASSUME NEW seq, NEW n \in Nat, DOMAIN seq = 1..n
  PROVE  \E g : /\ g[0] = <<>>
                /\ \A k \in 1..n : g[k] = PutInPlace(g[k - 1], seq[k])
                /\ InSendOrder(seq) = g[n]
<1> DEFINE Eq(g, k) == \A s \in SUBSET (1..k) :
                         g[s] = IF s = {} THEN <<>> ELSE PutInPlace(g[s \ {Max(s)}], seq[Max(s)])
           P == {k \in Nat : \E g : Eq(g, k)}
<1>1. 0 \in P
  <2> DEFINE g == [s \in SUBSET (1..0) |-> <<>>]
  <2>1. \A s \in SUBSET (1..0) : s = {} /\ g[s] = <<>>
    OBVIOUS
  <2> HIDE DEF g
  <2>2. Eq(g, 0)
    BY <2>1
  <2> QED BY <2>2
<1>2. ASSUME NEW k \in Nat, k \in P PROVE k + 1 \in P
  <2>1. PICK g : Eq(g, k)
    BY <1>2
  <2> DEFINE more == [s \in SUBSET (1..(k + 1)) |->
                        IF k + 1 \in s THEN PutInPlace(g[s \ {k + 1}], seq[k + 1]) ELSE g[s]]
  <2>2. ASSUME NEW s \in SUBSET (1..(k + 1)), k + 1 \in s
        PROVE  more[s] = PutInPlace(more[s \ {Max(s)}], seq[Max(s)])
    <3>1. Max(s) = k + 1
      BY <2>2, MaxOfAll
    <3>2. s \ {k + 1} \in SUBSET (1..(k + 1)) /\ k + 1 \notin s \ {k + 1}
      OBVIOUS
    <3>3. more[s] = PutInPlace(g[s \ {k + 1}], seq[k + 1]) /\ more[s \ {k + 1}] = g[s \ {k + 1}]
      BY <2>2, <3>2
    <3> HIDE DEF more
    <3> QED BY <3>1, <3>3
  <2>3. ASSUME NEW s \in SUBSET (1..(k + 1)), k + 1 \notin s
        PROVE  more[s] = IF s = {} THEN <<>> ELSE PutInPlace(more[s \ {Max(s)}], seq[Max(s)])
    <3>1. s \in SUBSET (1..k) /\ s \ {Max(s)} \in SUBSET (1..(k + 1)) /\ k + 1 \notin s \ {Max(s)}
      <4>1. \A y \in 1..(k + 1) : y = k + 1 \/ y \in 1..k
        OBVIOUS
      <4>2. s \in SUBSET (1..k)
        BY <2>3, <4>1
      <4>3. s \ {Max(s)} \in SUBSET (1..(k + 1)) /\ k + 1 \notin s \ {Max(s)}
        BY <2>3
      <4> QED BY <4>2, <4>3
    <3>2. more[s] = g[s] /\ more[s \ {Max(s)}] = g[s \ {Max(s)}]
      BY <2>3, <3>1
    <3> HIDE DEF more
    <3> QED BY <2>1, <3>1, <3>2
  <2> HIDE DEF more
  <2>4. Eq(more, k + 1)
    <3> SUFFICES ASSUME NEW s \in SUBSET (1..(k + 1))
                 PROVE  more[s] = IF s = {} THEN <<>> ELSE PutInPlace(more[s \ {Max(s)}], seq[Max(s)])
      OBVIOUS
    <3>1. CASE k + 1 \in s
      <4>1. s # {}
        BY <3>1
      <4> QED BY <2>2, <3>1, <4>1
    <3>2. CASE k + 1 \notin s
      BY <2>3, <3>2
    <3> QED BY <3>1, <3>2
  <2> HIDE DEF Eq
  <2>5. k + 1 \in Nat /\ \E h : Eq(h, k + 1)
    BY <2>4
  <2> QED BY <2>5
<1>3. PICK g : Eq(g, n)
  <2> HIDE DEF P
  <2>1. n \in P
    BY <1>1, <1>2, NatsInduct
  <2> QED BY <2>1 DEF P
<1> DEFINE Place(ordered, x) ==
             LET later == {i \in DOMAIN ordered : SentBefore(x, ordered[i])}
             IN  IF later = {} THEN Append(ordered, x) ELSE InsertAt(ordered, Min(later), x)
<1>4. \A ordered, x : PutInPlace(ordered, x) = Place(ordered, x)
  BY DEF PutInPlace
<1> HIDE DEF Place, P
<1> DEFINE iter[s \in SUBSET (1..n)] == IF s = {} THEN <<>> ELSE LET x == Max(s) IN Place(iter[s \ {x}], seq[x])
<1>5. iter = [s \in SUBSET (1..n) |-> IF s = {} THEN <<>> ELSE LET x == Max(s) IN Place(iter[s \ {x}], seq[x])]
  <2> DEFINE all == [s \in SUBSET (1..n) |-> g[s]]
  <2>1. ASSUME NEW s \in SUBSET (1..n)
        PROVE  all[s] = IF s = {} THEN <<>> ELSE LET x == Max(s) IN Place(all[s \ {x}], seq[x])
    <3>1. s \ {Max(s)} \in SUBSET (1..n)
      OBVIOUS
    <3>2. all[s] = g[s] /\ all[s \ {Max(s)}] = g[s \ {Max(s)}]
      BY <3>1
    <3> HIDE DEF all
    <3> QED BY <1>3, <1>4, <3>2
  <2>2. all = [s \in SUBSET (1..n) |-> all[s]]
    OBVIOUS
  <2> HIDE DEF all
  <2>3. all = [s \in SUBSET (1..n) |-> IF s = {} THEN <<>> ELSE LET x == Max(s) IN Place(all[s \ {x}], seq[x])]
    BY <2>1, <2>2
  <2> QED BY <2>3
<1> USE DEF Place
<1>6. InSendOrder(seq) = iter[1..n]
  BY DEF InSendOrder, FoldLeft, MapThenFoldSet
<1> HIDE DEF Place, iter
<1> DEFINE steps == [k \in 0..n |-> iter[1..k]]
<1>7. steps[0] = <<>>
  <2>1. 1..0 = {} /\ 0 \in 0..n /\ {} \in SUBSET (1..n)
    OBVIOUS
  <2>2. iter[{}] = <<>>
    BY <1>5, <2>1
  <2> QED BY <2>1, <2>2
<1>8. ASSUME NEW k \in 1..n PROVE steps[k] = PutInPlace(steps[k - 1], seq[k])
  <2>1. k \in 0..n /\ k - 1 \in 0..n /\ 1..k \in SUBSET (1..n) /\ 1..k # {} /\ (1..k) \ {k} = 1..(k - 1)
    <3>1. k \in Nat /\ k >= 1 /\ k <= n
      OBVIOUS
    <3>2. k \in 1..k /\ k \in 0..n /\ k - 1 \in 0..n /\ 1..k \in SUBSET (1..n)
      BY <3>1
    <3>3. \A y : y \in (1..k) \ {k} <=> y \in 1..(k - 1)
      BY <3>1
    <3>4. (1..k) \ {k} = 1..(k - 1)
      BY <3>3
    <3> QED BY <3>2, <3>4
  <2>2. Max(1..k) = k
    <3>1. k - 1 \in Nat /\ k = (k - 1) + 1 /\ 1..k \in SUBSET (1..((k - 1) + 1)) /\ (k - 1) + 1 \in 1..k
      OBVIOUS
    <3> QED BY <3>1, MaxOfAll
  <2>3. iter[1..k] = Place(iter[(1..k) \ {Max(1..k)}], seq[Max(1..k)])
    BY <1>5, <2>1
  <2>4. iter[1..k] = PutInPlace(iter[1..(k - 1)], seq[k])
    BY <1>4, <2>1, <2>2, <2>3
  <2> QED BY <2>1, <2>4
<1>9. steps[n] = InSendOrder(seq)
  BY <1>6
<1> HIDE DEF steps
<1> QED BY <1>7, <1>8, <1>9

(* What a heartbeat is put among stays, and the last stays last unless     *)
(* nothing there was sent after the new one.                               *)
LEMMA PutInPlaceIs ==
  ASSUME NEW T, NEW ordered \in Seq(T), NEW h \in T
  PROVE  LET put == PutInPlace(ordered, h)
         IN  /\ put \in Seq(T) /\ put # <<>>
             /\ \A i \in DOMAIN put : put[i] = h \/ \E j \in DOMAIN ordered : put[i] = ordered[j]
             /\ \/ Last(put) = h /\ \A i \in DOMAIN ordered : ~SentBefore(h, ordered[i])
                \/ /\ Last(put) = Last(ordered) /\ ordered # <<>>
                   /\ \E i \in DOMAIN ordered : SentBefore(h, ordered[i])
<1> DEFINE later == {i \in DOMAIN ordered : SentBefore(h, ordered[i])}
           put == PutInPlace(ordered, h)
           n == Len(ordered)
<1>1. n \in Nat /\ DOMAIN ordered = 1..n /\ \A i \in 1..n : ordered[i] \in T
  OBVIOUS
<1>2. CASE later = {}
  <2>1. put = Append(ordered, h)
    BY <1>2 DEF PutInPlace
  <2>2. put \in Seq(T) /\ Len(put) = n + 1 /\ put[n + 1] = h /\ \A i \in 1..n : put[i] = ordered[i]
    BY <2>1
  <2> HIDE DEF put
  <2>3. DOMAIN put = 1..(n + 1) /\ put # <<>> /\ Last(put) = h
    BY <1>1, <2>2 DEF Last
  <2>4. \A i \in 1..(n + 1) : i = n + 1 \/ i \in 1..n
    BY <1>1
  <2>5. \A i \in DOMAIN ordered : ~SentBefore(h, ordered[i])
    BY <1>2
  <2> HIDE DEF n, later
  <2>6. \A i \in DOMAIN put : put[i] = h \/ \E j \in DOMAIN ordered : put[i] = ordered[j]
    BY <1>1, <2>2, <2>3, <2>4
  <2> QED BY <2>2, <2>3, <2>5, <2>6 DEF put
<1>3. CASE later # {}
  <2> DEFINE m == Min(later)
             before == SubSeq(ordered, 1, m - 1)
             after == SubSeq(ordered, m, n)
  <2>1. put = before \o <<h>> \o after
    BY <1>3 DEF PutInPlace, InsertAt
  <2>2. m \in 1..n
    <3>1. later \in SUBSET Int /\ \A x \in later : 1 <= x
      BY <1>1
    <3>2. later \subseteq 1..n /\ 1 \in Int
      BY <1>1
    <3> HIDE DEF later
    <3> QED BY <1>3, <3>1, <3>2, MinIsIn
  <2> HIDE DEF m, put
  <2>3. /\ before \in Seq(T) /\ Len(before) = m - 1 /\ \A i \in 1..(m - 1) : before[i] = ordered[i]
    BY <1>1, <2>2
  <2>4. /\ after \in Seq(T) /\ Len(after) = n - m + 1 /\ \A i \in 1..(n - m + 1) : after[i] = ordered[m + i - 1]
    BY <1>1, <2>2
  <2> HIDE DEF before, after
  <2> DEFINE front == before \o <<h>>
  <2>5. <<h>> \in Seq(T) /\ Len(<<h>>) = 1 /\ <<h>>[1] = h
    OBVIOUS
  <2>6. front \in Seq(T) /\ Len(front) = m /\ (\A i \in 1..(m - 1) : front[i] = ordered[i]) /\ front[m] = h
    BY <2>2, <2>3, <2>5, ConcatProperties
  <2> HIDE DEF front
  <2>7. /\ put \in Seq(T) /\ Len(put) = n + 1
        /\ \A i \in 1..m : put[i] = front[i]
        /\ \A i \in (m + 1)..(n + 1) : put[i] = after[i - m]
    <3>1. put = front \o after
      BY <2>1 DEF front
    <3>2. Len(front) + Len(after) = n + 1
      BY <1>1, <2>2, <2>4, <2>6
    <3>3. /\ front \o after \in Seq(T) /\ Len(front \o after) = Len(front) + Len(after)
          /\ \A i \in 1..(Len(front) + Len(after)) :
               (front \o after)[i] = IF i <= Len(front) THEN front[i] ELSE after[i - Len(front)]
      BY <2>4, <2>6, ConcatProperties
    <3>4. /\ \A i \in 1..m : i \in 1..(n + 1) /\ i <= m
          /\ \A i \in (m + 1)..(n + 1) : i \in 1..(n + 1) /\ ~(i <= m)
      BY <1>1, <2>2
    <3> QED BY <2>6, <3>1, <3>2, <3>3, <3>4
  <2>8. \A i \in (m + 1)..(n + 1) : i - m \in 1..(n - m + 1) /\ m + (i - m) - 1 = i - 1 /\ i - 1 \in 1..n
    BY <1>1, <2>2
  <2>9. \A i \in (m + 1)..(n + 1) : put[i] = ordered[i - 1]
    BY <2>4, <2>7, <2>8
  <2>10. \A i \in 1..(n + 1) : i \in 1..(m - 1) \/ i = m \/ i \in (m + 1)..(n + 1)
    BY <1>1, <2>2
  <2>11. \A i \in 1..(m - 1) : i \in 1..m /\ i \in 1..n
    BY <1>1, <2>2
  <2>12. \A i \in DOMAIN put : put[i] = h \/ \E j \in DOMAIN ordered : put[i] = ordered[j]
    <3> SUFFICES ASSUME NEW i \in 1..(n + 1) PROVE put[i] = h \/ \E j \in DOMAIN ordered : put[i] = ordered[j]
      BY <1>1, <2>7
    <3>1. CASE i \in 1..(m - 1)
      BY <1>1, <2>6, <2>7, <2>11, <3>1
    <3>2. CASE i = m
      BY <2>2, <2>6, <2>7, <3>2
    <3>3. CASE i \in (m + 1)..(n + 1)
      BY <1>1, <2>8, <2>9, <3>3
    <3> QED BY <2>10, <3>1, <3>2, <3>3
  <2>13. Last(put) = Last(ordered) /\ put # <<>> /\ ordered # <<>>
    <3>1. n + 1 \in (m + 1)..(n + 1) /\ (n + 1) - 1 = n /\ n > 0
      BY <1>1, <2>2
    <3>2. put[n + 1] = ordered[n]
      BY <2>9, <3>1
    <3> QED BY <1>1, <2>7, <3>1, <3>2 DEF Last
  <2>14. \E i \in DOMAIN ordered : SentBefore(h, ordered[i])
    BY <1>3
  <2> QED BY <2>7, <2>12, <2>13, <2>14 DEF put
<1> QED BY <1>2, <1>3

(* The last of a process whose heartbeats came after all others is the     *)
(* state.                                                                  *)
LEMMA StateIs ==
  ASSUME NEW T, NEW seq \in Seq(T), seq # <<>>, NEW p,
         \A i \in DOMAIN seq : seq[i].run # None /\ seq[i].seq \in Nat
  PROVE  /\ \E j \in DOMAIN seq : RigState(seq) = seq[j]
         /\ (\A j, k \in DOMAIN seq : seq[j].run # p /\ seq[k].run = p => j < k)
            => \A j \in DOMAIN seq : seq[j].run = p => RigState(seq).run = p /\ seq[j].seq <= RigState(seq).seq
<1> DEFINE n == Len(seq)
           After == \A j, k \in DOMAIN seq : seq[j].run # p /\ seq[k].run = p => j < k
<1>1. n \in Nat /\ n > 0 /\ DOMAIN seq = 1..n /\ \A i \in 1..n : seq[i] \in T
  OBVIOUS
<1>2. PICK g : /\ g[0] = <<>>
               /\ \A k \in 1..n : g[k] = PutInPlace(g[k - 1], seq[k])
               /\ InSendOrder(seq) = g[n]
  BY <1>1, SendOrderSteps
<1> DEFINE Good(k) ==
             /\ g[k] \in Seq(T) /\ (k > 0 => g[k] # <<>>)
             /\ \A i \in DOMAIN g[k] : \E j \in 1..k : g[k][i] = seq[j]
             /\ After => \A j \in 1..k : seq[j].run = p => Last(g[k]).run = p /\ seq[j].seq <= Last(g[k]).seq
           P == {k \in Nat : k <= n => Good(k)}
<1>3. 0 \in P
  <2>1. g[0] = <<>> /\ <<>> \in Seq(T) /\ DOMAIN <<>> = {} /\ 1..0 = {} /\ ~(0 > 0)
    BY <1>2
  <2>2. Good(0)
    BY <2>1
  <2> HIDE DEF Good
  <2> QED BY <2>2
<1>4. ASSUME NEW k \in Nat, k \in P PROVE k + 1 \in P
  <2> SUFFICES ASSUME k + 1 <= n PROVE Good(k + 1)
    OBVIOUS
  <2>1. Good(k) /\ k + 1 \in 1..n /\ k \in 0..n /\ (k + 1) - 1 = k /\ k <= n
    <3>1. k <= n
      BY <1>1
    <3> QED BY <1>1, <1>4, <3>1
  <2> DEFINE h == seq[k + 1]
  <2>2. g[k + 1] = PutInPlace(g[k], h) /\ h \in T /\ h.run # None /\ h.seq \in Nat
    BY <1>1, <1>2, <2>1
  <2> DEFINE put == g[k + 1]
             ordered == g[k]
  <2>3. /\ put \in Seq(T) /\ put # <<>>
        /\ \A i \in DOMAIN put : put[i] = h \/ \E j \in DOMAIN ordered : put[i] = ordered[j]
        /\ \/ Last(put) = h /\ \A i \in DOMAIN ordered : ~SentBefore(h, ordered[i])
           \/ /\ Last(put) = Last(ordered) /\ ordered # <<>>
              /\ \E i \in DOMAIN ordered : SentBefore(h, ordered[i])
    <3>1. ordered \in Seq(T)
      BY <2>1
    <3> HIDE DEF h, ordered, Good, P
    <3>2. put = PutInPlace(ordered, h) /\ h \in T
      BY <2>2 DEF ordered
    <3> DEFINE new == PutInPlace(ordered, h)
    <3>3. /\ new \in Seq(T) /\ new # <<>>
          /\ \A i \in DOMAIN new : new[i] = h \/ \E j \in DOMAIN ordered : new[i] = ordered[j]
          /\ \/ Last(new) = h /\ \A i \in DOMAIN ordered : ~SentBefore(h, ordered[i])
             \/ /\ Last(new) = Last(ordered) /\ ordered # <<>>
                /\ \E i \in DOMAIN ordered : SentBefore(h, ordered[i])
      BY <3>1, <3>2, PutInPlaceIs
    <3> HIDE DEF new
    <3>4. put = new
      BY <3>2 DEF new
    <3> QED BY <3>3, <3>4
  <2>4. \A j \in 1..(k + 1) : j = k + 1 \/ j \in 1..k
    OBVIOUS
  <2>5. k + 1 \in 1..(k + 1) /\ \A j \in 1..k : j \in 1..(k + 1) /\ j \in 1..n
    BY <2>1
  <2>6. \A i \in DOMAIN put : \E j \in 1..(k + 1) : put[i] = seq[j]
    <3> SUFFICES ASSUME NEW i \in DOMAIN put PROVE \E j \in 1..(k + 1) : put[i] = seq[j]
      OBVIOUS
    <3>1. CASE put[i] = h
      BY <2>5, <3>1
    <3>2. CASE \E j \in DOMAIN ordered : put[i] = ordered[j]
      BY <2>1, <2>5, <3>2
    <3> QED BY <2>3, <3>1, <3>2
  <2>7. ASSUME After, NEW j \in 1..(k + 1), seq[j].run = p
        PROVE  Last(put).run = p /\ seq[j].seq <= Last(put).seq
    <3>1. h.run = p
      <4>1. j \in DOMAIN seq /\ k + 1 \in DOMAIN seq /\ ~(k + 1 < j)
        BY <1>1, <2>1, <2>4, <2>5
      <4> QED BY <2>7, <4>1
    <3>2. seq[j].seq \in Nat /\ h.seq \in Nat
      BY <1>1, <2>1, <2>2, <2>4, <2>5
    <3>3. ASSUME NEW o, o.run # None, o.seq \in Nat
          PROVE  SentBefore(h, o) <=> o.run = p /\ h.seq < o.seq
      BY <2>2, <3>1, <3>3, NoneIsNoTime DEF SentBefore
    <3>4. \A i \in DOMAIN ordered : \E l \in 1..k : /\ ordered[i] = seq[l] /\ ordered[i].run # None
                                                    /\ ordered[i].seq \in Nat
      BY <1>1, <2>1, <2>5
    <3>5. \A l \in 1..k : seq[l].run = p => Last(ordered).run = p /\ seq[l].seq <= Last(ordered).seq
      BY <2>1, <2>7
    <3>6. ordered # <<>> => \E i \in DOMAIN ordered : Last(ordered) = ordered[i]
      BY <2>1 DEF Last
    <3>7. CASE Last(put) = h /\ \A i \in DOMAIN ordered : ~SentBefore(h, ordered[i])
      <4>1. CASE j = k + 1
        BY <3>1, <3>2, <3>7, <4>1
      <4>2. CASE j \in 1..k
        <5>1. ordered # <<>>
          BY <2>1, <4>2
        <5>2. PICK i \in DOMAIN ordered : Last(ordered) = ordered[i]
          BY <3>6, <5>1
        <5>3. Last(ordered).run = p /\ seq[j].seq <= Last(ordered).seq
          BY <2>7, <3>5, <4>2
        <5>4. Last(ordered).seq \in Nat /\ ~(h.seq < Last(ordered).seq)
          BY <3>3, <3>4, <3>7, <5>2, <5>3
        <5>5. seq[j].seq <= h.seq
          BY <3>2, <5>3, <5>4
        <5> QED BY <3>1, <3>7, <5>5
      <4> QED BY <2>4, <4>1, <4>2
    <3>8. CASE /\ Last(put) = Last(ordered) /\ ordered # <<>>
               /\ \E i \in DOMAIN ordered : SentBefore(h, ordered[i])
      <4>1. PICK i \in DOMAIN ordered : SentBefore(h, ordered[i])
        BY <3>8
      <4>2. PICK l \in 1..k : ordered[i] = seq[l] /\ ordered[i].run # None /\ ordered[i].seq \in Nat
        BY <3>4
      <4>3. seq[l].run = p /\ h.seq < seq[l].seq /\ seq[l].seq \in Nat
        BY <3>3, <4>1, <4>2
      <4>4. Last(ordered).run = p /\ seq[l].seq <= Last(ordered).seq
        BY <3>5, <4>3
      <4>5. PICK q \in DOMAIN ordered : Last(ordered) = ordered[q]
        BY <3>6, <3>8
      <4>6. Last(ordered).seq \in Nat
        BY <3>4, <4>5
      <4>7. h.seq <= Last(ordered).seq
        BY <3>2, <4>3, <4>4, <4>6
      <4>8. seq[j].seq <= Last(ordered).seq
        BY <2>4, <2>7, <3>5, <4>7
      <4> QED BY <3>8, <4>4, <4>8
    <3> QED BY <2>3, <3>7, <3>8
  <2> QED BY <2>3, <2>6, <2>7
<1>5. Good(n)
  <2> HIDE DEF P
  <2>1. n \in P
    BY <1>1, <1>3, <1>4, NatsInduct
  <2> QED BY <1>1, <2>1 DEF P
<1>6. RigState(seq) = Last(g[n]) /\ \E j \in DOMAIN seq : Last(g[n]) = seq[j]
  <2>1. g[n] # <<>> /\ g[n] \in Seq(T)
    BY <1>1, <1>5
  <2>2. \E i \in DOMAIN g[n] : Last(g[n]) = g[n][i]
    BY <2>1 DEF Last
  <2> QED BY <1>1, <1>2, <1>5, <2>1, <2>2 DEF RigState, LastOrNone
<1> QED BY <1>1, <1>5, <1>6

-----------------------------------------------------------------------------
(* The rig.  When a heartbeat left it, on the site's clock; and what each  *)
(* that was sent says of its process.                                      *)
SentAt(h) == h.sent - ClockOffset

Says(h) ==
  /\ h \in HeartbeatRow
  /\ h.run \in DOMAIN born
  /\ h.started = born[h.run] + ClockOffset

(* No heartbeat is on its way, or was, for longer than it can be.          *)
OnItsWay == \A h \in wire : Says(h) /\ SentAt(h) <= now /\ now - SentAt(h) <= MaxDelay

Arrived ==
  \A i \in DOMAIN beats : /\ Says(beats[i]) /\ beats[i].at \in Nat /\ beats[i].at <= now
                          /\ SentAt(beats[i]) <= beats[i].at /\ beats[i].at - SentAt(beats[i]) <= MaxDelay

RigTyped ==
  /\ now \in Nat /\ use \in {None, 0}
  /\ beats \in Seq(HeartbeatRow)
  /\ born \in Seq(Nat) /\ born # <<>>
  /\ DOMAIN agent = {"phase", "seq", "held", "unreported"}
  /\ agent.seq \in Nat /\ agent.unreported \in SUBSET Nat /\ IsFiniteSet(agent.unreported)
  /\ IsFiniteSet(refused)

BeatsSound == RigTyped /\ OnItsWay /\ Arrived
-----------------------------------------------------------------------------
LEMMA WatchTimes ==
  /\ ClockOffset \in Int /\ MaxDelay \in Nat /\ RestartWindow \in Nat /\ History \in Nat
  /\ BeforeLatest \in Nat /\ MaxDelay <= BeforeLatest /\ RestartsToAlert \in Nat \ {0} /\ None \notin Int
  /\ LapStuckAfter \in Nat
BY RigWatchAssumption, MonitorRulesAssumption

(* A heartbeat is made.                                                    *)
LEMMA ReportIs ==
  ASSUME BeatsSound, NEW report \in Reports, NEW bye \in BOOLEAN
  PROVE  LET h == Report(report, bye)
         IN  /\ Says(h) /\ SentAt(h) = now /\ h.run = Len(born) /\ h.seq = agent.seq + 1 /\ h.bye = bye
             /\ IsFiniteSet(h.refusals)
<1> DEFINE made == Cardinality({q \in refused : q.run = Len(born)})
           refusals == agent.unreported \cup When(report.failed, made + 1)
           age == IF use = None THEN None ELSE now - use
           h == Report(report, bye)
<1>1. made \in Nat
  <2>1. {q \in refused : q.run = Len(born)} \subseteq refused /\ IsFiniteSet(refused)
    BY DEF BeatsSound, RigTyped
  <2>2. IsFiniteSet({q \in refused : q.run = Len(born)})
    BY <2>1, FS_Subset
  <2> QED BY <2>2, FS_CardinalityType
<1> HIDE DEF made
<1>2. refusals \in SUBSET Nat /\ IsFiniteSet(refusals)
  <2>1. agent.unreported \in SUBSET Nat /\ IsFiniteSet(agent.unreported)
    BY DEF BeatsSound, RigTyped
  <2>2. IsFiniteSet({}) /\ IsFiniteSet({made + 1})
    BY FS_EmptySet, FS_Singleton
  <2>3. IsFiniteSet(When(report.failed, made + 1)) /\ When(report.failed, made + 1) \subseteq {made + 1}
    BY <2>2 DEF When
  <2>4. IsFiniteSet(refusals)
    BY <2>1, <2>3, FS_Union
  <2>5. {made + 1} \subseteq Nat
    BY <1>1
  <2> QED BY <2>1, <2>3, <2>4, <2>5
<1>3. age \in Nat \cup {None}
  BY DEF BeatsSound, RigTyped
<1> HIDE DEF refusals, age
<1>4. h = [run |-> Len(born), seq |-> agent.seq + 1, sent |-> now + ClockOffset, at |-> None,
           started |-> Last(born) + ClockOffset, version |-> report.version,
           age |-> age, refusals |-> refusals,
           sim |-> report.sim, fault |-> report.fault, parked |-> report.parked, bye |-> bye,
           unsaved |-> report.unsaved, missing |-> report.missing, cpu |-> report.cpu, memory |-> report.memory]
  BY DEF Report, refusals, age, made
<1>5. /\ report.version \in STRING /\ report.sim \in STRING /\ report.fault \in BOOLEAN /\ report.parked \in Nat
      /\ report.unsaved \in BOOLEAN /\ report.missing \in BOOLEAN /\ report.cpu \in BOOLEAN
      /\ report.memory \in BOOLEAN
  BY RigWatchAssumption
<1>6. /\ Len(born) \in Nat /\ Len(born) \in DOMAIN born /\ Last(born) = born[Len(born)] /\ Last(born) \in Nat
      /\ now \in Nat /\ agent.seq + 1 \in Nat
  BY DEF BeatsSound, RigTyped, Last
<1>7. now + ClockOffset \in Int /\ Last(born) + ClockOffset \in Int
  BY <1>6, WatchTimes
<1> HIDE DEF h
<1>8. h \in HeartbeatRow
  BY <1>2, <1>3, <1>4, <1>5, <1>6, <1>7 DEF HeartbeatRow
<1>9. /\ h.run = Len(born) /\ h.seq = agent.seq + 1 /\ h.sent = now + ClockOffset
      /\ h.started = Last(born) + ClockOffset /\ h.bye = bye /\ h.refusals = refusals
  BY <1>4
<1>10. SentAt(h) = now
  BY <1>6, <1>9, WatchTimes DEF SentAt
<1>11. Says(h)
  BY <1>6, <1>8, <1>9 DEF Says
<1> QED BY <1>2, <1>9, <1>10, <1>11 DEF h

(* A heartbeat is stored with the time it arrived at.                      *)
LEMMA StoredIs ==
  ASSUME NEW h, Says(h), NEW t \in Nat
  PROVE  LET b == [h EXCEPT !.at = t]
         IN  /\ Says(b) /\ b.at = t /\ SentAt(b) = SentAt(h)
             /\ b.run = h.run /\ b.seq = h.seq /\ b.bye = h.bye /\ b.sent = h.sent
<1> DEFINE b == [h EXCEPT !.at = t]
<1>1. /\ b \in HeartbeatRow /\ b.at = t
      /\ b.run = h.run /\ b.seq = h.seq /\ b.bye = h.bye /\ b.sent = h.sent /\ b.started = h.started
  BY DEF Says, HeartbeatRow
<1> HIDE DEF b
<1> QED BY <1>1 DEF b, SentAt, Says

LEMMA BeatsSoundInit == RigInit => BeatsSound
<1> SUFFICES ASSUME RigInit PROVE BeatsSound
  OBVIOUS
<1>1. now = 0 /\ use \in {None, 0} /\ beats = <<>> /\ wire = {} /\ born = <<0>> /\ agent = Fresh
  BY DEF RigInit
<1>2. beats \in Seq(HeartbeatRow) /\ DOMAIN beats = {} /\ born \in Seq(Nat) /\ born # <<>>
  BY <1>1
<1>3. /\ agent.seq = 0 /\ DOMAIN agent = {"phase", "seq", "held", "unreported"} /\ agent.unreported = {}
      /\ refused = {} /\ IsFiniteSet({})
  BY <1>1, FS_EmptySet DEF Fresh, RigInit
<1> QED BY <1>1, <1>2, <1>3 DEF BeatsSound, RigTyped, OnItsWay, Arrived

(* What the heartbeats say stays so while processes are only added.        *)
LEMMA SaysStill ==
  ASSUME born \in Seq(Nat), \/ born' = born
                            \/ \E t : born' = Append(born, t), NEW h, Says(h)
  PROVE  Says(h)'
BY DEF Says

LEMMA BeatsSoundStep == BeatsSound /\ [RigNext]_rigWatchVars => BeatsSound'
<1> SUFFICES ASSUME BeatsSound, [RigNext]_rigWatchVars PROVE BeatsSound'
  OBVIOUS
<1>0. /\ now \in Nat /\ use \in {None, 0} /\ born \in Seq(Nat) /\ born # <<>>
      /\ agent.seq \in Nat /\ DOMAIN agent = {"phase", "seq", "held", "unreported"}
      /\ beats \in Seq(HeartbeatRow) /\ IsFiniteSet(refused)
  BY DEF BeatsSound, RigTyped
<1>1. CASE UNCHANGED rigWatchVars
  BY <1>1 DEF rigWatchVars, BeatsSound, RigTyped, OnItsWay, Arrived, Says
<1>2. CASE Tick
  <2>1. /\ now' = now + 1 /\ UNCHANGED <<agent, born, beats, refused, use>>
        /\ wire' = {h \in wire : now' - (h.sent - ClockOffset) <= MaxDelay}
    BY <1>2 DEF Tick
  <2>2. RigTyped'
    BY <1>0, <2>1 DEF BeatsSound, RigTyped
  <2>3. OnItsWay'
    <3> SUFFICES ASSUME NEW h \in wire' PROVE Says(h)' /\ SentAt(h) <= now' /\ now' - SentAt(h) <= MaxDelay
      BY DEF OnItsWay, SentAt
    <3>1. h \in wire /\ now' - SentAt(h) <= MaxDelay
      BY <2>1 DEF SentAt
    <3>2. Says(h) /\ SentAt(h) <= now /\ SentAt(h) \in Int
      BY <3>1, WatchTimes DEF BeatsSound, OnItsWay, Says, SentAt, HeartbeatRow
    <3> QED BY <1>0, <2>1, <3>1, <3>2 DEF Says
  <2>4. Arrived'
    <3> SUFFICES ASSUME NEW i \in DOMAIN beats
                 PROVE  Says(beats[i])' /\ beats[i].at \in Nat /\ beats[i].at <= now'
                        /\ SentAt(beats[i]) <= beats[i].at /\ beats[i].at - SentAt(beats[i]) <= MaxDelay
      BY <2>1 DEF Arrived, SentAt
    <3>1. Says(beats[i]) /\ beats[i].at \in Nat /\ beats[i].at <= now
          /\ SentAt(beats[i]) <= beats[i].at /\ beats[i].at - SentAt(beats[i]) <= MaxDelay
      BY DEF BeatsSound, Arrived
    <3> QED BY <1>0, <2>1, <3>1 DEF Says
  <2> QED BY <2>2, <2>3, <2>4 DEF BeatsSound
<1>3. CASE Restart
  <2>1. born' = Append(born, now) /\ agent' = Fresh /\ UNCHANGED <<now, wire, beats, refused, use>>
    BY <1>3 DEF Restart
  <2>2. RigTyped'
    <3>1. born' \in Seq(Nat) /\ born' # <<>>
      BY <1>0, <2>1
    <3>2. agent'.seq = 0 /\ DOMAIN agent' = {"phase", "seq", "held", "unreported"} /\ agent'.unreported = {}
      BY <2>1 DEF Fresh
    <3> QED BY <1>0, <2>1, <3>1, <3>2, FS_EmptySet DEF RigTyped
  <2>3. \A h : Says(h) => Says(h)'
    BY <1>0, <2>1, SaysStill
  <2> QED BY <2>1, <2>2, <2>3 DEF BeatsSound, OnItsWay, Arrived, SentAt
<1>4. ASSUME NEW bye \in BOOLEAN, NEW phase, Sends(bye, phase) PROVE BeatsSound'
  <2>1. PICK report \in Reports :
          LET h == Report(report, bye)
          IN  /\ wire' = wire \cup {h}
              /\ refused' = refused \cup {[run |-> h.run, seq |-> seq] : seq \in h.refusals}
              /\ agent' = [phase |-> phase, seq |-> h.seq, held |-> h, unreported |-> h.refusals]
    BY <1>4 DEF Sends
  <2> DEFINE h == Report(report, bye)
  <2>2. wire' = wire \cup {h} /\ agent' = [phase |-> phase, seq |-> h.seq, held |-> h, unreported |-> h.refusals]
        /\ UNCHANGED <<now, born, beats, use>>
    BY <1>4, <2>1 DEF Sends
  <2>3. Says(h) /\ SentAt(h) = now /\ h.seq = agent.seq + 1 /\ IsFiniteSet(h.refusals)
    BY ReportIs
  <2>8. refused' = refused \cup {[run |-> h.run, seq |-> seq] : seq \in h.refusals}
    BY <2>1
  <2> HIDE DEF h
  <2>4. RigTyped'
    <3>1. IsFiniteSet(refused')
      <4>1. IsFiniteSet({[run |-> h.run, seq |-> seq] : seq \in h.refusals})
        <5> DEFINE named == [seq \in h.refusals |-> [run |-> h.run, seq |-> seq]]
        <5>1. named \in Surjection(h.refusals, {[run |-> h.run, seq |-> seq] : seq \in h.refusals})
          BY DEF Surjection
        <5> HIDE DEF named
        <5> QED BY <2>3, <5>1, FS_Surjection
      <4> QED BY <1>0, <2>8, <4>1, FS_Union
    <3>2. /\ agent'.seq = h.seq /\ agent'.unreported = h.refusals
          /\ DOMAIN agent' = {"phase", "seq", "held", "unreported"}
      BY <2>2
    <3>3. h.seq \in Nat /\ h.refusals \in SUBSET Nat
      BY <2>3 DEF Says, HeartbeatRow
    <3> QED BY <1>0, <2>2, <2>3, <3>1, <3>2, <3>3 DEF RigTyped
  <2>5. \A g : Says(g) => Says(g)'
    BY <2>2 DEF Says
  <2>6. OnItsWay'
    BY <1>0, <2>2, <2>3, <2>5, WatchTimes DEF BeatsSound, OnItsWay, SentAt
  <2>7. Arrived'
    BY <2>2, <2>5 DEF BeatsSound, Arrived, SentAt
  <2> QED BY <2>4, <2>6, <2>7 DEF BeatsSound
<1>5. ASSUME NEW h \in wire, Land(h) PROVE BeatsSound'
  <2> DEFINE b == [h EXCEPT !.at = now]
  <2>1. /\ wire' = wire \ {h} /\ (beats' = beats \/ beats' = Append(beats, b)) /\ UNCHANGED <<now, born, refused, use>>
        /\ agent' = agent \/ agent' = [agent EXCEPT !.held = None, !.unreported = {}]
    BY <1>5 DEF Land
  <2>2. Says(h) /\ SentAt(h) <= now /\ now - SentAt(h) <= MaxDelay
    BY DEF BeatsSound, OnItsWay
  <2>3. Says(b) /\ b.at = now /\ SentAt(b) = SentAt(h)
    BY <1>0, <2>2, StoredIs
  <2> HIDE DEF b
  <2>5. \A g : Says(g) => Says(g)'
    BY <2>1 DEF Says
  <2>6. \A i \in DOMAIN beats' : beats'[i] = b \/ (i \in DOMAIN beats /\ beats'[i] = beats[i])
    BY <1>0, <2>1
  <2>7. Arrived'
    BY <1>0, <2>1, <2>2, <2>3, <2>5, <2>6 DEF BeatsSound, Arrived, SentAt
  <2>8. beats' \in Seq(HeartbeatRow)
    <3>1. b \in HeartbeatRow
      BY <2>3 DEF Says
    <3> QED BY <1>0, <2>1, <3>1
  <2>9. /\ agent'.seq = agent.seq /\ DOMAIN agent' = DOMAIN agent
        /\ agent'.unreported \in SUBSET Nat /\ IsFiniteSet(agent'.unreported)
    <3>1. agent.unreported \in SUBSET Nat /\ IsFiniteSet(agent.unreported) /\ IsFiniteSet({})
      BY FS_EmptySet DEF BeatsSound, RigTyped
    <3> QED BY <1>0, <2>1, <3>1
  <2>10. RigTyped'
    BY <1>0, <2>1, <2>8, <2>9 DEF RigTyped
  <2>11. OnItsWay'
    BY <2>1, <2>5 DEF BeatsSound, OnItsWay, SentAt
  <2> QED BY <2>7, <2>10, <2>11 DEF BeatsSound
<1> QED BY <1>1, <1>2, <1>3, <1>4, <1>5 DEF RigNext, SendHeartbeat, SendBegun, SendGoodbye

LEMMA BeatsStaySound == RigSpec => []BeatsSound
BY BeatsSoundInit, BeatsSoundStep, PTL DEF RigSpec

(* The heartbeats a snapshot has are the last ones stored, at least those  *)
(* since shortly before the latest.                                        *)
LEMMA RecentIs ==
  ASSUME NEW anything, NEW stored \in Seq(anything), \A i \in DOMAIN stored : stored[i].at \in Nat, NEW t \in Nat
  PROVE  \E m \in 0..Len(stored) :
           /\ RecentBeats(t, stored) = SubSeq(stored, m + 1, Len(stored))
           /\ \A i \in DOMAIN stored : stored[i].at >= stored[Len(stored)].at - BeforeLatest => i > m
<1>1. CASE stored = <<>>
  <2>1. RecentBeats(t, stored) = <<>> /\ Len(stored) = 0 /\ SubSeq(stored, 1, 0) = <<>> /\ DOMAIN stored = {}
    BY <1>1 DEF RecentBeats
  <2> QED BY <2>1
<1>2. CASE stored # <<>>
  <2> DEFINE n == Len(stored)
             latest == stored[n].at
             from == Min({t - History, latest - BeforeLatest})
             since == {i \in DOMAIN stored : stored[i].at >= from} \cup {n + 1}
  <2>1. n \in Nat /\ n > 0 /\ DOMAIN stored = 1..n /\ latest \in Nat /\ Last(stored) = stored[n]
    BY <1>2 DEF Last
  <2>2. RecentBeats(t, stored) = SubSeq(stored, Min(since), n)
    BY <1>2, <2>1 DEF RecentBeats, Since
  <2>3. from \in Int /\ from <= latest - BeforeLatest
    <3> DEFINE S == {t - History, latest - BeforeLatest}
               low == IF t - History <= latest - BeforeLatest THEN t - History ELSE latest - BeforeLatest
    <3>1. S \in SUBSET Int /\ low \in Int /\ \A x \in S : low <= x
      BY <2>1, WatchTimes
    <3> HIDE DEF low
    <3>2. Min(S) \in S /\ \A y \in S : Min(S) <= y
      BY <3>1, MinIsIn
    <3> QED BY <3>1, <3>2
  <2> HIDE DEF from
  <2>4. Min(since) \in since /\ \A y \in since : Min(since) <= y
    <3>1. since \in SUBSET Int /\ \A x \in since : 1 <= x
      BY <2>1
    <3>2. since # {} /\ 1 \in Int
      OBVIOUS
    <3> HIDE DEF since
    <3> QED BY <3>1, <3>2, MinIsIn
  <2> DEFINE m == Min(since) - 1
  <2>5. m \in 0..n /\ Min(since) = m + 1
    BY <2>1, <2>4
  <2>6. ASSUME NEW i \in DOMAIN stored, stored[i].at >= latest - BeforeLatest PROVE i > m
    <3>1. stored[i].at \in Nat /\ i \in 1..n
      BY <2>1
    <3>4. stored[i].at >= from
      <4> DEFINE arrival == stored[i].at
                 edge == latest - BeforeLatest
      <4>1. arrival \in Nat /\ edge \in Int /\ from \in Int /\ from <= edge
        BY <2>1, <2>3, <3>1, WatchTimes
      <4>2. arrival >= edge
        BY <2>6
      <4> HIDE DEF arrival, edge
      <4>3. arrival >= from
        BY <4>1, <4>2
      <4> QED BY <4>3 DEF arrival
    <3>2. i \in since
      BY <3>4
    <3> HIDE DEF since
    <3>3. Min(since) <= i
      BY <2>4, <3>2
    <3> HIDE DEF m
    <3> QED BY <2>5, <3>1, <3>3
  <2> QED BY <2>1, <2>2, <2>5, <2>6
<1> QED BY <1>1, <1>2

LEMMA RecentAreStored ==
  ASSUME BeatsSound
  PROVE  /\ RecentBeats(now, beats) \in Seq(HeartbeatRow)
         /\ \A i \in DOMAIN RecentBeats(now, beats) : \E j \in DOMAIN beats : RecentBeats(now, beats)[i] = beats[j]
<1>1. beats \in Seq(HeartbeatRow)
  BY DEF BeatsSound, RigTyped
<1>2. now \in Nat /\ \A i \in DOMAIN beats : beats[i].at \in Nat
  BY DEF BeatsSound, RigTyped, Arrived
<1>3. PICK m \in 0..Len(beats) : RecentBeats(now, beats) = SubSeq(beats, m + 1, Len(beats))
  BY <1>1, <1>2, RecentIs
<1>4. /\ SubSeq(beats, m + 1, Len(beats)) \in Seq(HeartbeatRow)
      /\ DOMAIN SubSeq(beats, m + 1, Len(beats)) = 1..(Len(beats) - m)
      /\ \A i \in 1..(Len(beats) - m) : SubSeq(beats, m + 1, Len(beats))[i] = beats[m + i]
  BY <1>1
<1>5. \A i \in 1..(Len(beats) - m) : m + i \in DOMAIN beats
  BY <1>1
<1> QED BY <1>3, <1>4, <1>5

(* What counts as a start of an agent is one, off by no more than a        *)
(* heartbeat can be delayed (lib/monitor/rules.ts restarts).               *)
THEOREM StartsAreReal == RigSpec => []RestartsAreReal
<1>1. ASSUME BeatsSound PROVE RestartsAreReal
  <2> DEFINE recent == RecentBeats(now, beats)
             starts == {run \in {recent[i].run : i \in DOMAIN recent} \ {None} :
                          \E i \in DOMAIN recent : /\ recent[i].run = run
                                                   /\ \A j \in 1..(i - 1) : recent[j].run # run
                                                   /\ AgeAt(recent[i]) >= 0
                                                   /\ now - (recent[i].at - AgeAt(recent[i])) <= RestartWindow}
             real == {p \in DOMAIN born : now - born[p] <= RestartWindow + MaxDelay}
  <2>1. ASSUME NEW run \in starts PROVE run \in real
    <3>1. PICK i \in DOMAIN recent : /\ recent[i].run = run
                                     /\ now - (recent[i].at - AgeAt(recent[i])) <= RestartWindow
      OBVIOUS
    <3>2. PICK j \in DOMAIN beats : recent[i] = beats[j]
      BY <1>1, RecentAreStored
    <3> HIDE DEF recent, starts
    <3> DEFINE b == beats[j]
    <3>3. /\ Says(b) /\ b.at \in Nat /\ b.at - SentAt(b) <= MaxDelay /\ b.run = run
          /\ now - (b.at - AgeAt(b)) <= RestartWindow
      BY <1>1, <3>1, <3>2 DEF BeatsSound, Arrived
    <3> HIDE DEF b
    <3>4. b.sent \in Int /\ b.started = born[run] + ClockOffset /\ run \in DOMAIN born
      BY <3>3 DEF Says, HeartbeatRow
    <3>5. born[run] \in Nat /\ now \in Nat
      BY <1>1, <3>4 DEF BeatsSound, RigTyped
    <3>6. AgeAt(b) = b.sent - b.started
      BY <3>4, WatchTimes DEF AgeAt
    <3>7. now - born[run] <= RestartWindow + MaxDelay
      BY <3>3, <3>4, <3>5, <3>6, WatchTimes DEF SentAt
    <3> QED BY <3>4, <3>7
  <2>2. IsFiniteSet(real)
    <3>1. DOMAIN born = 1..Len(born) /\ Len(born) \in Nat
      BY <1>1 DEF BeatsSound, RigTyped
    <3>2. IsFiniteSet(1..Len(born))
      BY <3>1, FS_Interval
    <3> QED BY <3>1, <3>2, FS_Subset
  <2>3. RecentStarts(now, recent) = Cardinality(starts)
    BY DEF RecentStarts
  <2> HIDE DEF starts, real
  <2>4. starts \subseteq real
    BY <2>1
  <2>5. Cardinality(starts) <= Cardinality(real) /\ Cardinality(starts) \in Nat /\ Cardinality(real) \in Nat
    BY <2>2, <2>4, FS_Subset, FS_CardinalityType
  <2> QED BY <2>3, <2>5, WatchTimes DEF RestartsAreReal, real
<1> QED BY <1>1, BeatsStaySound, PTL
-----------------------------------------------------------------------------
(* The lane.  What is found on the rig has a place on its lane, and there  *)
(* are no laps to find a wrong combo by: the session is its evidence.      *)
LaneRules ==
  {"sim_disconnected", "telemetry_faulted", "missing_variables", "driver_moved", "agent_restarting",
   "footprint_high", "checkout_not_saved", "agent_outdated", "sign_in_failures", "long_stint", "rig_silent",
   "clock_skew", "laps_stuck", "laps_refused", "unattributed_laps", "fast_lap"}

HasAPlace(x) ==
  FlapScope(x.subject) = Rig("r")
  => x.rule \in LaneRules \/ (x.rule = "wrong_combo" /\ x.evidence = "session")

IsFinding(f) ==
  f = [rule |-> f.rule, subject |-> f.subject, severity |-> f.severity, level |-> f.level, evidence |-> f.evidence]

Placed == \A a \in alerts : IsAlert(a) /\ HasAPlace(a)

LEMMA FindingIs ==
  ASSUME NEW rule, NEW subject, NEW severity
  PROVE  LET f == Finding(rule, subject, severity)
         IN  /\ IsFinding(f) /\ f.rule = rule /\ f.subject = subject /\ f.severity = severity
             /\ \A v : LET g == [f EXCEPT !.evidence = v]
                       IN  /\ IsFinding(g) /\ g.rule = rule /\ g.subject = subject
                           /\ g.severity = severity /\ g.evidence = v
             /\ \A v : LET g == [f EXCEPT !.level = v]
                       IN  IsFinding(g) /\ g.rule = rule /\ g.subject = subject
BY DEF Finding, IsFinding

(* Nothing of the venue or of a board is on a rig.                         *)
LEMMA ElsewhereIsNotOnTheRig ==
  /\ FlapScope(Venue) # Rig("r")
  /\ \A m : FlapScope(Board(m)) # Rig("r")
<1>1. Len(Venue) = 1 /\ Len(Rig("r")) = 2 /\ FlapScope(Venue) = Venue
  BY DEF FlapScope, Venue, Rig
<1>2. ASSUME NEW m PROVE FlapScope(Board(m)) # Rig("r")
  <2>1. Len(Board(m)) = 2 /\ Board(m)[1] = "board" /\ Rig("r")[1] = "rig"
    BY DEF Board, Rig
  <2>2. FlapScope(Board(m)) = Board(m)
    BY <2>1 DEF FlapScope
  <2>3. "board" # "rig"
    OBVIOUS
  <2> QED BY <2>1, <2>2, <2>3
<1> QED BY <1>1, <1>2

LEMMA ReportsHaveAPlace ==
  ASSUME NEW s, NEW r, NEW f \in ReportFindings(s, r)
  PROVE  IsFinding(f) /\ HasAPlace(f)
<1>1. PICK state : f \in StateFindings(s, r, s.rigs[r].beats, state, LastSent(s.rigs[r].beats, LAMBDA h : ~h.bye))
  BY DEF ReportFindings
<1> DEFINE live == LastSent(s.rigs[r].beats, LAMBDA h : ~h.bye)
           beats_ == s.rigs[r].beats
<1> HIDE DEF live
<1>2. f \in StateFindings(s, r, beats_, state, live)
  BY <1>1 DEF live
<1> DEFINE Named(g) == \E rule \in LaneRules : \E subject, severity :
                         \/ g = Finding(rule, subject, severity)
                         \/ \E v : g = [Finding(rule, subject, severity) EXCEPT !.level = v]
<1>3. \A g \in RigProperties(s, r, live) : Named(g)
  BY DEF RigProperties, When, LaneRules
<1>4. \A g \in OutdatedAgent(s, r, state) : Named(g)
  BY DEF OutdatedAgent, LaneRules
<1>5. ASSUME NEW properties, \A g \in properties : Named(g)
      PROVE  \A g \in WhileRunning(s, r, state, properties) : Named(g)
  <2>1. \A rule \in LaneRules : \A subject, severity : Named(Finding(rule, subject, severity))
    OBVIOUS
  <2> HIDE DEF Named
  <2> QED BY <1>5, <2>1 DEF WhileRunning, When, LaneRules
<1>6. \A g \in IF live = None THEN {} ELSE RigProperties(s, r, live) : Named(g)
  BY <1>3
<1>7. Named(f)
  <2> DEFINE parked == [Finding("laps_refused", Rig(r), "urgent") EXCEPT !.level = state.parked]
             running == WhileRunning(s, r, state, IF live = None THEN {} ELSE RigProperties(s, r, live))
  <2>1. Named(parked)
    BY DEF LaneRules
  <2>2. \A rule \in LaneRules : \A subject, severity : Named(Finding(rule, subject, severity))
    OBVIOUS
  <2>3. \A g \in running : Named(g)
    BY <1>5, <1>6
  <2> HIDE DEF Named, running
  <2>4. \/ f = parked \/ f \in running \/ f \in OutdatedAgent(s, r, state)
        \/ \E rule \in {"laps_stuck", "agent_restarting", "sign_in_failures"} : \E severity :
             f = Finding(rule, Rig(r), severity)
    BY <1>2 DEF StateFindings, When, running
  <2> HIDE DEF parked
  <2> QED BY <1>4, <2>1, <2>2, <2>3, <2>4 DEF LaneRules
<1> HIDE DEF beats_
<1>8. PICK rule \in LaneRules : \E subject, severity :
        \/ f = Finding(rule, subject, severity)
        \/ \E v : f = [Finding(rule, subject, severity) EXCEPT !.level = v]
  BY <1>7
<1>9. IsFinding(f) /\ f.rule = rule
  BY <1>8 DEF Finding, IsFinding
<1> QED BY <1>9 DEF HasAPlace

LEMMA SilencesHaveAPlace ==
  ASSUME NEW s, NEW f \in Silence(s)
  PROVE  IsFinding(f) /\ HasAPlace(f)
<1>1. PICK runs : f \in SilenceHeard(s, runs)
  BY DEF Silence
<1>2. PICK silent, urgent, anyLive, back : f \in SilenceAmong(s, silent, urgent, anyLive, back)
  BY <1>1 DEF SilenceHeard, SilenceOver
<1>3. \/ f = Finding("venue_silent", Venue, "warning")
      \/ \E r : f = Finding("rig_silent", Rig(r), "urgent") \/ f = Finding("rig_silent", Rig(r), "warning")
  <2>1. \/ \E r : f = Finding("rig_silent", Rig(r), "urgent") \/ f = Finding("rig_silent", Rig(r), "warning")
        \/ \E unexplained, together : f \in UnexplainedFindings(s, unexplained, anyLive, together, back)
    BY <1>2 DEF SilenceAmong
  <2>2. ASSUME NEW unexplained, NEW together, f \in UnexplainedFindings(s, unexplained, anyLive, together, back)
        PROVE  \/ f = Finding("venue_silent", Venue, "warning")
               \/ \E r : f = Finding("rig_silent", Rig(r), "warning")
    BY <2>2 DEF UnexplainedFindings, When
  <2> QED BY <2>1, <2>2
<1> QED BY <1>3, FindingIs, ElsewhereIsNotOnTheRig DEF HasAPlace, LaneRules

LEMMA SeatFindingsHaveAPlace ==
  ASSUME NEW s, NEW r, s.laps = <<>>, NEW f \in SeatAndLapFindings(s, r)
  PROVE  IsFinding(f) /\ HasAPlace(f)
<1>1. CASE f \in WrongCombo(s, r)
  <2>1. PICK deciding : deciding = Deciding(ComboSignals(s, r))
                        /\ f = WrongComboFinding(r, UrgentIn(EventMode(s)), deciding)
    BY <1>1 DEF WrongCombo
  <2>2. LapSignals(s.laps, {i \in DOMAIN s.laps : s.laps[i].rig = r /\ s.now - s.laps[i].at <= ComboRejectedWindow}) = {}
    <3>1. {i \in DOMAIN s.laps : s.laps[i].rig = r /\ s.now - s.laps[i].at <= ComboRejectedWindow} = {}
      <4>1. DOMAIN s.laps = {}
        OBVIOUS
      <4> QED BY <4>1
    <3>2. Cardinality({}) = 0 /\ ~(0 >= ComboRejectedLaps)
      <4>1. ComboRejectedLaps \in Nat \ {0}
        BY MonitorRulesAssumption
      <4> QED BY <4>1, FS_EmptySet
    <3>3. LapSignals(s.laps, {}) = {}
      BY <3>2 DEF LapSignals, When
    <3> QED BY <3>1, <3>3
  <2>3. \A g \in ComboSignals(s, r) : g.from = "session"
    BY <2>2 DEF ComboSignals, SessionSignal
  <2>4. ~\E g \in deciding : g.from = "laps"
    BY <2>1, <2>3 DEF Deciding
  <2>5. f = [Finding("wrong_combo", Rig(r), UrgentIn(EventMode(s))) EXCEPT !.evidence = "session"]
    BY <2>1, <2>4 DEF WrongComboFinding
  <2> QED BY <2>5, FindingIs DEF HasAPlace
<1>2. CASE f \notin WrongCombo(s, r)
  <2>1. \E rule \in {"unattributed_laps", "long_stint"} : \E severity : f = Finding(rule, Rig(r), severity)
    BY <1>2 DEF SeatAndLapFindings, LongStints, When
  <2> QED BY <2>1, FindingIs DEF HasAPlace, LaneRules
<1> QED BY <1>1, <1>2

LEMMA FindingsHaveAPlace ==
  ASSUME NEW s, s.laps = <<>>, NEW f \in EvaluateRules(s)
  PROVE  IsFinding(f) /\ HasAPlace(f)
<1>1. ASSUME f \in DriverMoves(s) \/ f \in FastLaps(s) PROVE IsFinding(f) /\ HasAPlace(f)
  <2>1. \E rule \in {"driver_moved", "fast_lap"} : \E subject : f = Finding(rule, subject, "warning")
    BY <1>1 DEF DriverMoves, FastLaps
  <2> QED BY <2>1, FindingIs DEF HasAPlace, LaneRules
<1>2. ASSUME f \in NoFeaturedCombo(s) \/ f \in BoardFindings(s) PROVE IsFinding(f) /\ HasAPlace(f)
  <2>1. \/ f = Finding("no_featured_combo", Venue, "urgent")
        \/ \E m : \/ f = Finding("board_dark", Board(m), "urgent")
                 \/ f = Finding("board_feed_failing", Board(m), "urgent")
    <3>1. CASE f \in NoFeaturedCombo(s)
      BY <3>1 DEF NoFeaturedCombo, When
    <3>2. CASE f \in BoardFindings(s)
      <4>1. \E b : \/ f = Finding("board_dark", Board(b.mode), "urgent")
                  \/ f = Finding("board_feed_failing", Board(b.mode), "urgent")
        BY <3>2 DEF BoardFindings
      <4> QED BY <4>1
    <3> QED BY <1>2, <3>1, <3>2
  <2> QED BY <2>1, FindingIs, ElsewhereIsNotOnTheRig DEF HasAPlace
<1>3. \/ f \in Silence(s)
      \/ \E r : f \in ReportFindings(s, r) \/ f \in SeatAndLapFindings(s, r)
      \/ f \in DriverMoves(s) \/ f \in FastLaps(s) \/ f \in NoFeaturedCombo(s) \/ f \in BoardFindings(s)
  BY DEF EvaluateRules
<1> QED BY <1>1, <1>2, <1>3, SilencesHaveAPlace, ReportsHaveAPlace, SeatFindingsHaveAPlace

LEMMA AppliedHaveAPlace ==
  ASSUME Placed, NEW findings, \A f \in findings : IsFinding(f) /\ HasAPlace(f)
  PROVE  \A a \in Applied(findings) : IsAlert(a) /\ HasAPlace(a)
<1> DEFINE made == {[rule |-> f.rule, subject |-> f.subject, severity |-> f.severity,
                     evidence |-> f.evidence, absent |-> 0] : f \in findings}
<1>1. ASSUME NEW a \in made PROVE IsAlert(a) /\ HasAPlace(a)
  <2>1. PICK f \in findings : a = [rule |-> f.rule, subject |-> f.subject, severity |-> f.severity,
                                   evidence |-> f.evidence, absent |-> 0]
    OBVIOUS
  <2>2. /\ a.rule = f.rule /\ a.subject = f.subject /\ a.severity = f.severity
        /\ a.evidence = f.evidence /\ a.absent = 0
    BY <2>1
  <2>3. IsAlert(a)
    BY <2>1, <2>2 DEF IsAlert
  <2> HIDE DEF made
  <2> QED BY <2>2, <2>3 DEF HasAPlace
<1>2. ASSUME NEW a \in Absent(findings) PROVE IsAlert(a) /\ HasAPlace(a)
  <2>1. PICK b \in alerts : a = [b EXCEPT !.absent = @ + 1]
    BY <1>2 DEF Absent
  <2>2. IsAlert(b) /\ HasAPlace(b)
    BY DEF Placed
  <2>6. b.absent \in Nat
    BY <2>2 DEF IsAlert
  <2>3. a = [rule |-> b.rule, subject |-> b.subject, severity |-> b.severity,
             evidence |-> b.evidence, absent |-> b.absent + 1]
    BY <2>1, <2>2 DEF IsAlert
  <2>4. /\ a.rule = b.rule /\ a.subject = b.subject /\ a.severity = b.severity
        /\ a.evidence = b.evidence /\ a.absent = b.absent + 1
    BY <2>3
  <2>5. IsAlert(a)
    BY <2>3, <2>4, <2>6 DEF IsAlert
  <2> QED BY <2>2, <2>4, <2>5 DEF HasAPlace
<1>3. Applied(findings) = Absent(findings) \cup made
  BY DEF Applied
<1> HIDE DEF made
<1> QED BY <1>1, <1>2, <1>3

LEMMA PlacedStep == Placed /\ [RigNext]_rigWatchVars => Placed'
<1> SUFFICES ASSUME Placed, [RigNext]_rigWatchVars PROVE Placed'
  OBVIOUS
<1>1. \/ alerts' = alerts
      \/ \E t, stored, last : Evaluate(t, stored, last)
  BY DEF RigNext, Tick, Land, Restart, SendHeartbeat, SendBegun, SendGoodbye, Sends, rigWatchVars
<1>2. CASE alerts' = alerts
  BY <1>2 DEF Placed
<1>3. ASSUME NEW t, NEW stored, NEW last,
             Evaluate(t, stored, last), alerts' # alerts PROVE Placed'
  <2> DEFINE s == RigSnapshot(t, stored, last)
  <2>1. s.laps = <<>>
    BY DEF RigSnapshot
  <2>2. alerts' = Applied(EvaluateRules(s))
    BY <1>3 DEF Evaluate
  <2> HIDE DEF s
  <2>3. \A f \in EvaluateRules(s) : IsFinding(f) /\ HasAPlace(f)
    BY <2>1, FindingsHaveAPlace
  <2>4. \A a \in alerts' : IsAlert(a) /\ HasAPlace(a)
    BY <2>2, <2>3, AppliedHaveAPlace
  <2> QED BY <2>4 DEF Placed
<1> QED BY <1>1, <1>2, <1>3

(* A part something was found on shows the worst of it and is not faded.   *)
LEMMA ChainIs ==
  ASSUME NEW found, NEW foundOn, NEW base
  PROVE  LET c == Chain(found, foundOn, base)
         IN  /\ DOMAIN c.nodes = DOMAIN found /\ \A i \in DOMAIN found : c.nodes[i] = Coloured(found[i], base[i])
             /\ DOMAIN c.edges = DOMAIN foundOn /\ \A e \in DOMAIN foundOn : c.edges[e] = Coloured(foundOn[e], base[e])
             /\ \A p \in c.dimmedNodes : found[p] = {}
             /\ \A p \in c.dimmedEdges : foundOn[p] = {}
<1> DEFINE colours == [e \in DOMAIN foundOn |-> Coloured(foundOn[e], base[e])]
<1>1. Chain(found, foundOn, base) = ChainBroken(found, foundOn, base, colours, FirstBroken(colours))
  BY DEF Chain, ChainColoured
<1> HIDE DEF colours
<1> DEFINE broken == FirstBroken(colours)
<1> HIDE DEF broken
<1>2. \A p \in Faded(colours, broken, found) : found[p] = {}
  BY DEF Faded
<1>3. \A p \in Faded(colours, broken, foundOn) : foundOn[p] = {}
  BY DEF Faded
<1>4. LET c == ChainBroken(found, foundOn, base, colours, broken)
      IN  /\ c.nodes = [i \in DOMAIN found |-> Coloured(found[i], base[i])] /\ c.edges = colours
          /\ c.dimmedNodes = Faded(colours, broken, found) /\ c.dimmedEdges = Faded(colours, broken, foundOn)
  BY DEF ChainBroken
<1> QED BY <1>1, <1>2, <1>3, <1>4 DEF colours, broken

LEMMA ColouredIs ==
  ASSUME NEW found, NEW base, NEW g \in found
  PROVE  /\ Coloured(found, base) \in {"red", "yellow"}
         /\ g.severity = "urgent" => Coloured(found, base) = "red"
BY DEF Coloured

LEMMA PlacesOnALane ==
  ASSUME NEW x, HasAPlace(x), FlapScope(x.subject) = Rig("r")
  PROVE  \/ PlaceOf(x).node \in {"iracing", "agent", "network"}
         \/ PlaceOf(x).edge \in {1, 2, 3}
         \/ PlaceOf(x).mark \in {"feed", "review"}
<1>1. /\ \A node, edge : At(node, edge).node = node /\ At(node, edge).edge = edge
      /\ \A mark : Marked(mark).mark = mark
  BY DEF At, Marked
<1>2. CASE x.rule = "wrong_combo"
  BY <1>1, <1>2 DEF HasAPlace, LaneRules, PlaceOf
<1>3. CASE x.rule # "wrong_combo"
  <2>1. PlaceOf(x) = RulePlace[x.rule] /\ x.rule \in LaneRules
    BY <1>3 DEF PlaceOf, HasAPlace
  <2>2. /\ RulePlace["sim_disconnected"] = At("iracing", 1)  /\ RulePlace["telemetry_faulted"] = At("iracing", 1)
        /\ RulePlace["missing_variables"] = At("iracing", 1) /\ RulePlace["driver_moved"] = At("iracing", 0)
        /\ RulePlace["agent_restarting"] = At("agent", 0)    /\ RulePlace["footprint_high"] = At("agent", 0)
        /\ RulePlace["checkout_not_saved"] = At("agent", 0)  /\ RulePlace["agent_outdated"] = At("agent", 0)
        /\ RulePlace["sign_in_failures"] = At("agent", 0)    /\ RulePlace["long_stint"] = At("agent", 0)
        /\ RulePlace["rig_silent"] = At("agent", 2)          /\ RulePlace["clock_skew"] = At("network", 2)
        /\ RulePlace["laps_stuck"] = At("none", 3)           /\ RulePlace["laps_refused"] = At("none", 3)
        /\ RulePlace["unattributed_laps"] = Marked("feed")   /\ RulePlace["fast_lap"] = Marked("review")
    BY DEF RulePlace
  <2> QED BY <1>1, <2>1, <2>2 DEF LaneRules
<1> QED BY <1>2, <1>3

LEMMA PartShows ==
  ASSUME NEW s, NEW mine, NEW g \in mine,
         \/ PlaceOf(g).node \in {"iracing", "agent", "network"}
         \/ PlaceOf(g).edge \in {1, 2, 3}
         \/ PlaceOf(g).mark \in {"feed", "review"}
  PROVE  /\ PartsOf(PlaceOf(g)) \cap PartsShowing(Lane(s, "r", mine), {"red", "yellow"}) # {}
         /\ g.severity = "urgent" => PartsOf(PlaceOf(g)) \cap PartsShowing(Lane(s, "r", mine), {"red"}) # {}
<1> DEFINE lane == Lane(s, "r", mine)
           base == LaneBase(s, "r", RigState(s.rigs["r"].beats))
           found == [i \in DOMAIN RigNodes |-> {f \in mine : PlaceOf(f).node = RigNodes[i]}]
           foundOn == [e \in DOMAIN RigNodes |-> {f \in mine : PlaceOf(f).edge = e}]
           marked(m) == {f \in mine : PlaceOf(f).mark = m}
           place == PlaceOf(g)
<1>1. lane.chain = Chain(found, foundOn, base) /\ lane.marks = [m \in {"feed", "review"} |-> Coloured(marked(m), "none")]
  BY DEF Lane
<1>2. DOMAIN RigNodes = {1, 2, 3} /\ RigNodes[1] = "iracing" /\ RigNodes[2] = "agent" /\ RigNodes[3] = "network"
  BY DEF RigNodes
<1>3. DOMAIN found = DOMAIN RigNodes /\ DOMAIN foundOn = DOMAIN RigNodes
  OBVIOUS
<1> SUFFICES ASSUME NEW colours, \/ colours = {"red", "yellow"}
                                 \/ colours = {"red"} /\ g.severity = "urgent"
             PROVE  PartsOf(place) \cap PartsShowing(lane, colours) # {}
  OBVIOUS
<1>4. CASE place.node \in {"iracing", "agent", "network"}
  <2>1. PICK i \in DOMAIN RigNodes : RigNodes[i] = place.node
    BY <1>2, <1>4
  <2>2. g \in found[i] /\ found[i] # {}
    BY <2>1
  <2> HIDE DEF found, foundOn, base, lane, place, marked
  <2>3. /\ DOMAIN lane.chain.nodes = DOMAIN found
        /\ \A j \in DOMAIN found : lane.chain.nodes[j] = Coloured(found[j], base[j])
        /\ \A p \in lane.chain.dimmedNodes : found[p] = {}
    BY <1>1, ChainIs
  <2>4. Coloured(found[i], base[i]) \in colours
    BY <2>2, ColouredIs
  <2>5. lane.chain.nodes[i] \in colours /\ i \notin lane.chain.dimmedNodes
    BY <1>3, <2>1, <2>2, <2>3, <2>4
  <2>6. <<"node", place.node>> \in PartsShowing(lane, colours)
    BY <2>1, <2>5 DEF PartsShowing
  <2> QED BY <2>6 DEF PartsOf
<1>5. CASE place.edge \in {1, 2, 3}
  <2>1. place.edge \in DOMAIN RigNodes /\ g \in foundOn[place.edge]
    BY <1>2, <1>5
  <2> DEFINE e == place.edge
  <2> HIDE DEF found, foundOn, base, lane, place, marked, e
  <2>2. e \in DOMAIN RigNodes /\ g \in foundOn[e] /\ foundOn[e] # {}
    BY <2>1 DEF e
  <2>3. /\ DOMAIN lane.chain.edges = DOMAIN foundOn
        /\ \A j \in DOMAIN foundOn : lane.chain.edges[j] = Coloured(foundOn[j], base[j])
        /\ \A p \in lane.chain.dimmedEdges : foundOn[p] = {}
    BY <1>1, ChainIs
  <2>4. Coloured(foundOn[e], base[e]) \in colours
    BY <2>2, ColouredIs
  <2>5. e \in DOMAIN lane.chain.edges /\ lane.chain.edges[e] \in colours /\ e \notin lane.chain.dimmedEdges
    BY <1>3, <2>2, <2>3, <2>4
  <2>6. <<"edge", e>> \in PartsShowing(lane, colours)
    BY <2>5 DEF PartsShowing
  <2> QED BY <2>6 DEF PartsOf, e
<1>6. CASE place.mark \in {"feed", "review"}
  <2> DEFINE m == place.mark
  <2>1. g \in marked(m)
    OBVIOUS
  <2>2. Coloured(marked(m), "none") \in colours
    BY <2>1, ColouredIs
  <2> HIDE DEF found, foundOn, base, lane, place, marked, m
  <2>3. m \in DOMAIN lane.marks /\ lane.marks[m] \in colours
    BY <1>1, <1>6, <2>2 DEF m
  <2>4. <<"mark", m>> \in PartsShowing(lane, colours)
    BY <2>3 DEF PartsShowing
  <2> QED BY <2>4 DEF PartsOf, m
<1> QED BY <1>4, <1>5, <1>6

(* What the staff page shows of an open alert: the finding itself, at the  *)
(* alert's severity if that is the worse, or the alert.                    *)
LEMMA ShownForAlert ==
  ASSUME Placed, NEW findings, \A f \in findings : IsFinding(f) /\ HasAPlace(f), NEW a \in OnRig(alerts, "r")
  PROVE  \E g \in OnRig(ShownFindings(findings, alerts), "r") :
           /\ HasAPlace(g) /\ FlapScope(g.subject) = Rig("r") /\ PlaceOf(g) = PlaceOf(a)
           /\ a.severity = "urgent" => g.severity = "urgent"
<1>1. a \in alerts /\ FlapScope(a.subject) = Rig("r") /\ HasAPlace(a)
  BY DEF OnRig, Placed
<1>2. CASE \E f \in findings : IsFor(a, f)
  <2>1. PICK f \in findings : IsFor(a, f)
    BY <1>2
  <2> DEFINE g == IF \E b \in alerts : IsFor(b, f) /\ b.severity = "urgent" THEN [f EXCEPT !.severity = "urgent"] ELSE f
  <2>2. g \in ShownFindings(findings, alerts)
    BY DEF ShownFindings
  <2>3. /\ g.rule = f.rule /\ g.subject = f.subject /\ g.evidence = f.evidence
        /\ a.severity = "urgent" => g.severity = "urgent"
    <3>1. IsFinding(f)
      OBVIOUS
    <3>2. DOMAIN f = {"rule", "subject", "severity", "level", "evidence"}
      BY <3>1 DEF IsFinding
    <3>3. LET u == [f EXCEPT !.severity = "urgent"]
          IN  u.rule = f.rule /\ u.subject = f.subject /\ u.evidence = f.evidence /\ u.severity = "urgent"
      BY <3>2
    <3> QED BY <1>1, <2>1, <3>3
  <2> HIDE DEF g
  <2>4. HasAPlace(f) /\ f.rule = a.rule /\ f.subject = a.subject
    BY <2>1 DEF IsFor
  <2>5. PlaceOf(g) = PlaceOf(a)
    BY <1>1, <2>3, <2>4 DEF PlaceOf, HasAPlace, LaneRules
  <2> QED BY <1>1, <2>2, <2>3, <2>4, <2>5 DEF OnRig, HasAPlace
<1>3. CASE \A f \in findings : ~IsFor(a, f)
  <2> DEFINE g == [Finding(a.rule, a.subject, a.severity) EXCEPT !.evidence = a.evidence]
  <2>1. g \in ShownFindings(findings, alerts)
    BY <1>1, <1>3 DEF ShownFindings
  <2>2. g.rule = a.rule /\ g.subject = a.subject /\ g.severity = a.severity /\ g.evidence = a.evidence
    BY DEF Finding
  <2> HIDE DEF g
  <2>3. PlaceOf(g) = PlaceOf(a) /\ HasAPlace(g)
    BY <1>1, <2>2 DEF PlaceOf, HasAPlace
  <2> QED BY <1>1, <2>1, <2>2, <2>3 DEF OnRig
<1> QED BY <1>2, <1>3

(* An open alert on the rig shows on its tile and on its lane, at its      *)
(* severity and not faded (rig-health.ts, flow.ts).                        *)
THEOREM AlertsShow == RigSpec => []LaneShowsEveryAlert
<1>1. RigInit => Placed
  BY DEF RigInit, Placed
<1>2. ASSUME Placed PROVE LaneShowsEveryAlert
  <2> DEFINE s == RigSnapshot(now, beats, seen)
             mine == OnRig(ShownFindings(EvaluateRules(s), alerts), "r")
  <2>1. s.laps = <<>>
    BY DEF RigSnapshot
  <2> HIDE DEF s
  <2>2. \A f \in EvaluateRules(s) : IsFinding(f) /\ HasAPlace(f)
    BY <2>1, FindingsHaveAPlace
  <2>3. ASSUME NEW a \in OnRig(alerts, "r")
        PROVE  ShowsAt(a, TileColour(s, "r", mine), Lane(s, "r", mine))
    <3>1. PICK g \in mine : /\ HasAPlace(g) /\ FlapScope(g.subject) = Rig("r") /\ PlaceOf(g) = PlaceOf(a)
                            /\ a.severity = "urgent" => g.severity = "urgent"
      BY <1>2, <2>2, ShownForAlert
    <3> HIDE DEF mine
    <3>2. /\ PartsOf(PlaceOf(g)) \cap PartsShowing(Lane(s, "r", mine), {"red", "yellow"}) # {}
          /\ g.severity = "urgent" => PartsOf(PlaceOf(g)) \cap PartsShowing(Lane(s, "r", mine), {"red"}) # {}
      BY <3>1, PlacesOnALane, PartShows
    <3>3. /\ TileColour(s, "r", mine) \in {"red", "red-flashing"}
          /\ g.severity = "urgent" => TileColour(s, "r", mine) = "red-flashing"
      BY <3>1 DEF TileColour
    <3> QED BY <3>1, <3>2, <3>3 DEF ShowsAt
  <2> QED BY <2>3 DEF LaneShowsEveryAlert, s, mine
<1> QED BY <1>1, <1>2, PlacedStep, PTL DEF RigSpec

-----------------------------------------------------------------------------
(* A lap is reported stuck for a heartbeat the site had while it waited:   *)
(* an outage alone is not one (rules.ts rule 3a).                          *)
THEOREM OutagesAreNotStuck == RigSpec => []OutageIsNotStuck
<1>1. ASSUME BeatsSound PROVE OutageIsNotStuck
  <2> DEFINE recent == RecentBeats(now, beats)
             state == RigState(recent)
  <2> SUFFICES ASSUME LapsStuck(recent, state)
               PROVE  \E i \in DOMAIN beats : /\ beats[i].at > state.sent - ClockOffset - state.age
                                              /\ beats[i].at < state.at
    BY DEF OutageIsNotStuck
  <2>1. recent \in Seq(HeartbeatRow) /\ \A i \in DOMAIN recent : \E j \in DOMAIN beats : recent[i] = beats[j]
    BY <1>1, RecentAreStored
  <2> HIDE DEF recent
  <2>2. PICK i \in DOMAIN recent : recent[i].at > state.at - state.age /\ recent[i].at < state.at
    BY DEF LapsStuck
  <2>3. \A k \in DOMAIN recent : recent[k].run # None /\ recent[k].seq \in Nat
    <3> SUFFICES ASSUME NEW k \in DOMAIN recent PROVE recent[k].run # None /\ recent[k].seq \in Nat
      OBVIOUS
    <3>1. recent[k] \in HeartbeatRow
      BY <2>1
    <3> QED BY <3>1, NoneIsNoTime DEF HeartbeatRow
  <2>4. recent # <<>>
    BY <2>2
  <2>5. PICK j \in DOMAIN recent : state = recent[j]
    BY <2>1, <2>3, <2>4, StateIs
  <2>6. PICK l \in DOMAIN beats : state = beats[l]
    BY <2>1, <2>5
  <2>7. PICK q \in DOMAIN beats : recent[i] = beats[q]
    BY <2>1
  <2>8. state.age # None
    BY DEF LapsStuck
  <2> HIDE DEF state
  <2>9. /\ state.sent \in Int /\ state.at \in Nat /\ state.age \in Nat
        /\ SentAt(state) <= state.at /\ beats[q].at \in Nat
    BY <1>1, <2>6, <2>8 DEF BeatsSound, Arrived, Says, HeartbeatRow
  <2>10. beats[q].at > state.at - state.age /\ beats[q].at < state.at
    BY <2>2, <2>7
  <2>11. beats[q].at > state.sent - ClockOffset - state.age
    <3> DEFINE arrival == beats[q].at
    <3> HIDE DEF arrival
    <3>1. arrival \in Nat /\ arrival > state.at - state.age
      BY <2>9, <2>10 DEF arrival
    <3>2. arrival > state.sent - ClockOffset - state.age
      BY <2>9, <3>1, WatchTimes DEF SentAt
    <3> QED BY <3>2 DEF arrival
  <2> QED BY <2>10, <2>11
<1> QED BY <1>1, BeatsStaySound, PTL

-----------------------------------------------------------------------------
(* A process sends its heartbeats in the order it numbers them, and none   *)
(* that is no goodbye after one that is.                                   *)
Sent == wire \cup {beats[i] : i \in DOMAIN beats}

SentInOrder ==
  /\ \A h \in Sent : h.run = Len(born) => h.seq <= agent.seq /\ (h.bye => agent.phase # "up")
  /\ \A g, h \in Sent : g.run = h.run /\ ~g.bye /\ h.bye => g.seq < h.seq
  /\ \A g, h \in Sent : g.run = h.run /\ g.seq < h.seq => SentAt(g) <= SentAt(h)

LEMMA SentSay ==
  ASSUME BeatsSound, NEW h \in Sent
  PROVE  h \in HeartbeatRow /\ h.run \in 1..Len(born) /\ SentAt(h) <= now /\ SentAt(h) \in Int /\ now \in Nat
<1>1. Says(h) /\ SentAt(h) <= now
  <2>1. CASE h \in wire
    BY <2>1 DEF BeatsSound, OnItsWay
  <2>2. CASE h \notin wire
    <3>1. PICK i \in DOMAIN beats : h = beats[i]
      BY <2>2 DEF Sent
    <3>2. /\ Says(beats[i]) /\ beats[i].at \in Nat /\ beats[i].at <= now /\ SentAt(beats[i]) <= beats[i].at
          /\ beats[i].sent \in Int /\ now \in Nat
      BY DEF BeatsSound, RigTyped, Arrived, Says, HeartbeatRow
    <3> QED BY <3>1, <3>2, WatchTimes DEF SentAt
  <2> QED BY <2>1, <2>2
<1>2. born \in Seq(Nat) /\ now \in Nat
  BY DEF BeatsSound, RigTyped
<1> QED BY <1>1, <1>2, WatchTimes DEF Says, SentAt, HeartbeatRow

(* Heartbeats that are some of those there were, arrived or not.           *)
Alike(g, h) == g.run = h.run /\ g.seq = h.seq /\ g.bye = h.bye /\ SentAt(g) = SentAt(h)

LEMMA SomeStillInOrder ==
  ASSUME BeatsSound, SentInOrder, NEW S, \A g \in S : \E h \in Sent : Alike(g, h)
  PROVE  /\ \A g \in S : g.run = Len(born) => g.seq <= agent.seq /\ (g.bye => agent.phase # "up")
         /\ \A g, h \in S : g.run = h.run /\ ~g.bye /\ h.bye => g.seq < h.seq
         /\ \A g, h \in S : g.run = h.run /\ g.seq < h.seq => SentAt(g) <= SentAt(h)
<1>1. ASSUME NEW g \in S PROVE g.run = Len(born) => g.seq <= agent.seq /\ (g.bye => agent.phase # "up")
  BY DEF SentInOrder, Alike
<1>2. ASSUME NEW g \in S, NEW h \in S, g.run = h.run
      PROVE  /\ ~g.bye /\ h.bye => g.seq < h.seq
             /\ g.seq < h.seq => SentAt(g) <= SentAt(h)
  <2>1. PICK x \in Sent : Alike(g, x)
    OBVIOUS
  <2>2. PICK y \in Sent : Alike(h, y)
    OBVIOUS
  <2> QED BY <1>2, <2>1, <2>2 DEF SentInOrder, Alike
<1> QED BY <1>1, <1>2

LEMMA SentInOrderStep == BeatsSound /\ SentInOrder /\ [RigNext]_rigWatchVars => SentInOrder'
<1> SUFFICES ASSUME BeatsSound, SentInOrder, [RigNext]_rigWatchVars PROVE SentInOrder'
  OBVIOUS
<1>0. /\ now \in Nat /\ born \in Seq(Nat) /\ born # <<>> /\ agent.seq \in Nat
      /\ DOMAIN agent = {"phase", "seq", "held", "unreported"} /\ beats \in Seq(HeartbeatRow)
  BY DEF BeatsSound, RigTyped
<1>1. CASE UNCHANGED rigWatchVars
  BY <1>1 DEF rigWatchVars, SentInOrder, Sent, SentAt
<1>2. CASE Tick
  <2>1. Sent' \subseteq Sent /\ agent' = agent /\ born' = born
    BY <1>2 DEF Tick, Sent
  <2> QED BY <2>1 DEF SentInOrder, SentAt
<1>3. CASE Restart
  <2>1. born' = Append(born, now) /\ Sent' = Sent
    BY <1>3 DEF Restart, Sent
  <2>2. Len(born') = Len(born) + 1 /\ Len(born) \in Nat
    BY <1>0, <2>1
  <2>3. \A h \in Sent : h.run # Len(born')
    BY <2>2, SentSay
  <2> QED BY <2>1, <2>3 DEF SentInOrder, SentAt
<1>4. ASSUME NEW bye \in BOOLEAN, NEW phase, Sends(bye, phase),
             bye => phase # "up", ~bye => agent.phase = "up" /\ phase = "up"
      PROVE  SentInOrder'
  <2>1. PICK report \in Reports :
          LET h == Report(report, bye)
          IN  /\ wire' = wire \cup {h}
              /\ agent' = [phase |-> phase, seq |-> h.seq, held |-> h, unreported |-> h.refusals]
    BY <1>4 DEF Sends
  <2> DEFINE h == Report(report, bye)
  <2>2. /\ wire' = wire \cup {h} /\ agent'.phase = phase /\ agent'.seq = h.seq
        /\ UNCHANGED <<now, born, beats>>
    BY <1>4, <2>1 DEF Sends
  <2>3. Says(h) /\ SentAt(h) = now /\ h.run = Len(born) /\ h.seq = agent.seq + 1 /\ h.bye = bye
    BY ReportIs
  <2> HIDE DEF h
  <2>4. Sent' = Sent \cup {h} /\ born' = born
    BY <2>2 DEF Sent
  <2>5. \A g \in Sent : g.seq \in Nat /\ g.bye \in BOOLEAN /\ SentAt(g) <= now /\ SentAt(g) \in Int
    BY SentSay DEF HeartbeatRow
  <2>6. \A g \in Sent : g.run = Len(born) => g.seq < h.seq /\ g.seq <= h.seq /\ (g.bye => bye)
    BY <1>0, <1>4, <2>3, <2>5 DEF SentInOrder
  <2>7. \A g \in Sent' : g.run = Len(born') => g.seq <= agent'.seq /\ (g.bye => agent'.phase # "up")
    <3> SUFFICES ASSUME NEW g \in Sent', g.run = Len(born)
                 PROVE  g.seq <= h.seq /\ (g.bye => phase # "up")
      BY <2>2, <2>4
    <3>1. CASE g \in Sent
      BY <1>4, <2>6, <3>1
    <3>2. CASE g = h
      BY <1>0, <1>4, <2>3, <3>2
    <3> QED BY <2>4, <3>1, <3>2
  <2>8. ASSUME NEW f \in Sent', NEW g \in Sent', f.run = g.run
        PROVE  /\ ~f.bye /\ g.bye => f.seq < g.seq
               /\ f.seq < g.seq => SentAt(f) <= SentAt(g)
    <3>1. CASE f \in Sent /\ g \in Sent
      BY <2>8, <3>1 DEF SentInOrder
    <3>2. CASE f \in Sent /\ g = h
      BY <2>3, <2>5, <2>6, <2>8, <3>2
    <3>3. CASE f = h /\ g \in Sent
      <4>1. g.seq < h.seq /\ h.seq \in Nat /\ g.seq \in Nat /\ (g.bye => bye)
        BY <1>0, <2>3, <2>5, <2>6, <2>8, <3>3
      <4> QED BY <2>3, <3>3, <4>1
    <3>4. CASE f = h /\ g = h
      <4>1. ~(h.seq < h.seq)
        BY <1>0, <2>3
      <4> QED BY <3>4, <4>1
    <3> QED BY <2>4, <3>1, <3>2, <3>3, <3>4
  <2> QED BY <2>7, <2>8 DEF SentInOrder, SentAt
<1>5. ASSUME NEW h \in wire, Land(h) PROVE SentInOrder'
  <2> DEFINE b == [h EXCEPT !.at = now]
  <2>1. /\ wire' = wire \ {h} /\ (beats' = beats \/ beats' = Append(beats, b)) /\ UNCHANGED <<now, born>>
        /\ agent' = agent \/ agent' = [agent EXCEPT !.held = None, !.unreported = {}]
    BY <1>5 DEF Land
  <2>2. Alike(b, h) /\ h \in Sent
    <3>1. Says(h)
      BY DEF BeatsSound, OnItsWay
    <3> QED BY <1>0, <3>1, StoredIs DEF Alike, Sent
  <2> HIDE DEF b
  <2>3. \A i \in DOMAIN beats' : beats'[i] = b \/ (i \in DOMAIN beats /\ beats'[i] = beats[i])
    BY <1>0, <2>1
  <2>4. \A g \in Sent' : \E x \in Sent : Alike(g, x)
    <3> SUFFICES ASSUME NEW g \in Sent' PROVE \E x \in Sent : Alike(g, x)
      OBVIOUS
    <3>1. g \in Sent \/ g = b
      BY <2>1, <2>3 DEF Sent
    <3> QED BY <2>2, <3>1 DEF Alike
  <2>5. agent'.seq = agent.seq /\ agent'.phase = agent.phase
    BY <1>0, <2>1
  <2> QED BY <2>1, <2>4, <2>5, SomeStillInOrder DEF SentInOrder, SentAt
<1>6. CASE SendHeartbeat
  BY <1>4, <1>6 DEF SendHeartbeat
<1>7. CASE SendBegun
  BY <1>4, <1>7 DEF SendBegun
<1>8. CASE SendGoodbye
  BY <1>4, <1>8 DEF SendGoodbye
<1> QED BY <1>1, <1>2, <1>3, <1>5, <1>6, <1>7, <1>8 DEF RigNext

LEMMA SentStaysInOrder == RigSpec => []SentInOrder
<1>1. RigInit => SentInOrder
  BY DEF RigInit, SentInOrder, Sent
<1> QED BY <1>1, SentInOrderStep, BeatsStaySound, PTL DEF RigSpec

(* One rig is no venue: nothing is ever found of the venue's silence.      *)
LEMMA SilenceIsOneRigs ==
  ASSUME NEW s, DOMAIN s.rigs = {"r"}, ~IsOpen(s, "venue_silent", Venue), NEW f \in Silence(s)
  PROVE  f.rule = "rig_silent" /\ SilentRigs(s, Reporting(s)) # {}
<1> DEFINE alone  == Alone(s)
           note   == VenueNote(s, AnyLive(s), Together(s, alone), Back(s))
           warned == {Finding("rig_silent", Rig(r), "warning") :
                        r \in {q \in alone : ~Covers(s, AnyLive(s), Together(s, alone), Back(s))
                                             /\ QuietFor(s, q) >= SilentAfter + CorrelationWindow}}
<1>1. ~Together(s, alone)
  <2>1. alone \subseteq {"r"}
    BY DEF Alone, Unexplained, SilentRigs, Reporting
  <2>2. IsFiniteSet({"r"}) /\ Cardinality({"r"}) = 1
    BY FS_Singleton
  <2>3. IsFiniteSet(alone) /\ Cardinality(alone) <= 1 /\ Cardinality(alone) \in Nat
    BY <2>1, <2>2, FS_Subset, FS_CardinalityType
  <2> HIDE DEF alone
  <2>4. DOMAIN [r \in alone |-> s.rigs[r].seen] = alone /\ ~(Cardinality(alone) >= 2)
    BY <2>3
  <2> QED BY <2>4 DEF Together, TogetherAt
<1>2. ~note
  BY <1>1 DEF VenueNote
<1>3. Silence(s) = {Finding("rig_silent", Rig(r), "urgent") : r \in Urgent(s)}
                   \cup {Finding("rig_silent", Rig(r), "warning") : r \in Held(s)}
                   \cup warned \cup When(note, Finding("venue_silent", Venue, "warning"))
  BY SilenceSpelled, FoundAmong DEF Held, Alone, Back, UnexplainedFindings
<1>4. Urgent(s) \cup Held(s) \cup alone \subseteq SilentRigs(s, Reporting(s))
  BY DEF Urgent, Held, HeldRigs, Alone, Unexplained
<1>5. When(note, Finding("venue_silent", Venue, "warning")) = {}
  BY <1>2 DEF When
<1>6. \E r \in Urgent(s) \cup Held(s) \cup alone :
        f = Finding("rig_silent", Rig(r), "urgent") \/ f = Finding("rig_silent", Rig(r), "warning")
  <2> HIDE DEF note, alone
  <2> QED BY <1>3, <1>5
<1> QED BY <1>4, <1>6, FindingIs

NoVenueSilence == \A a \in alerts : IsAlert(a) /\ a.rule # "venue_silent"

LEMMA SnapshotOfTheRig ==
  ASSUME NEW t, NEW stored, NEW last
  PROVE  LET s == RigSnapshot(t, stored, last)
         IN  /\ DOMAIN s.rigs = {"r"} /\ s.rigs["r"].seen = last /\ s.rigs["r"].beats = RecentBeats(t, stored)
             /\ s.open = {<<a.rule, a.subject>> : a \in alerts}
BY DEF RigSnapshot

LEMMA NoVenueIsOpen ==
  ASSUME NoVenueSilence, NEW t, NEW stored, NEW last
  PROVE  ~IsOpen(RigSnapshot(t, stored, last), "venue_silent", Venue)
<1>1. \A a \in alerts : <<a.rule, a.subject>> # <<"venue_silent", Venue>>
  BY DEF NoVenueSilence
<1> QED BY <1>1, SnapshotOfTheRig DEF IsOpen

LEMMA NoVenueSilenceStep == NoVenueSilence /\ [RigNext]_rigWatchVars => NoVenueSilence'
<1> SUFFICES ASSUME NoVenueSilence, [RigNext]_rigWatchVars PROVE NoVenueSilence'
  OBVIOUS
<1>1. \/ alerts' = alerts
      \/ \E t, stored, last : Evaluate(t, stored, last)
  BY DEF RigNext, Tick, Land, Restart, SendHeartbeat, SendBegun, SendGoodbye, Sends, rigWatchVars
<1>2. CASE alerts' = alerts
  BY <1>2 DEF NoVenueSilence
<1>3. ASSUME NEW t, NEW stored, NEW last,
             Evaluate(t, stored, last), alerts' # alerts PROVE NoVenueSilence'
  <2> DEFINE s == RigSnapshot(t, stored, last)
             findings == EvaluateRules(s)
  <2>1. DOMAIN s.rigs = {"r"} /\ ~IsOpen(s, "venue_silent", Venue)
    BY SnapshotOfTheRig, NoVenueIsOpen
  <2>2. alerts' = Applied(findings)
    BY <1>3 DEF Evaluate
  <2> HIDE DEF s
  <2>3. \A f \in findings : f.rule # "venue_silent"
    <3> SUFFICES ASSUME NEW f \in findings, f.rule = "venue_silent" PROVE FALSE
      OBVIOUS
    <3>1. f \in Silence(s)
      BY OnlyRuleOneSpeaksOfSilence DEF OfSilence
    <3>2. f.rule = "rig_silent"
      BY <2>1, <3>1, SilenceIsOneRigs
    <3> QED BY <3>2
  <2> HIDE DEF findings
  <2>4. \A a \in alerts : IsAlert(a)
    BY DEF NoVenueSilence
  <2>5. ASSUME NEW a \in Applied(findings) PROVE IsAlert(a) /\ a.rule # "venue_silent"
    <3>1. IsAlert(a) /\ ((\E f \in findings : About(a, f)) \/ \E b \in alerts : About(a, b))
      BY <2>4, AppliedAlerts
    <3> QED BY <2>3, <3>1 DEF About, NoVenueSilence
  <2> QED BY <2>2, <2>5 DEF NoVenueSilence
<1> QED BY <1>1, <1>2, <1>3

(* The last a closed process sent of what a snapshot has is a goodbye.     *)
LEMMA GoodbyeStands ==
  ASSUME BeatsSound, SentInOrder, NEW i \in DOMAIN beats, beats[i].bye,
         \A j, k \in DOMAIN beats : beats[j].run # beats[i].run /\ beats[k].run = beats[i].run => j < k
  PROVE  SaidGoodbye(RigState(RecentBeats(now, beats)))
<1> DEFINE n == Len(beats)
           p == beats[i].run
           recent == RecentBeats(now, beats)
           state == RigState(recent)
<1>1. /\ beats \in Seq(HeartbeatRow) /\ n \in Nat /\ DOMAIN beats = 1..n /\ n \in DOMAIN beats /\ i \in 1..n
      /\ now \in Nat
  BY DEF BeatsSound, RigTyped
<1>2. \A j \in DOMAIN beats : /\ beats[j] \in HeartbeatRow /\ beats[j].at \in Nat /\ beats[j] \in Sent
                              /\ SentAt(beats[j]) <= beats[j].at /\ beats[j].at - SentAt(beats[j]) <= MaxDelay
                              /\ SentAt(beats[j]) \in Int
  BY WatchTimes DEF BeatsSound, Arrived, Says, Sent, SentAt, HeartbeatRow
<1>3. PICK m \in 0..n : /\ recent = SubSeq(beats, m + 1, n)
                        /\ \A j \in DOMAIN beats : beats[j].at >= beats[n].at - BeforeLatest => j > m
  BY <1>1, <1>2, RecentIs
<1>4. /\ recent \in Seq(HeartbeatRow) /\ DOMAIN recent = 1..(n - m)
      /\ \A j \in 1..(n - m) : recent[j] = beats[m + j] /\ m + j \in DOMAIN beats
  BY <1>1, <1>3
<1> HIDE DEF n, recent
<1>5. beats[n].run = p
  <2>1. ~(n < i)
    BY <1>1
  <2> QED BY <1>1, <2>1
<1>6. PICK q \in DOMAIN beats : q > m /\ beats[q].bye /\ beats[q].run = p
  <2>1. CASE beats[n].bye
    <3> DEFINE last == beats[n].at
    <3>1. last \in Nat
      BY <1>1, <1>2
    <3> HIDE DEF last
    <3>2. last >= last - BeforeLatest
      BY <3>1, WatchTimes
    <3>3. n > m
      BY <1>1, <1>3, <3>2 DEF last
    <3> QED BY <1>1, <1>5, <2>1, <3>3
  <2>2. CASE ~beats[n].bye
    <3> DEFINE last == beats[n].at
               sent == SentAt(beats[n])
               closed_ == SentAt(beats[i])
               arrival == beats[i].at
    <3>1. sent <= closed_
      <4>1. beats[n].seq < beats[i].seq
        BY <1>1, <1>2, <1>5, <2>2 DEF SentInOrder
      <4> QED BY <1>1, <1>2, <1>5, <4>1 DEF SentInOrder
    <3>2. /\ last \in Nat /\ arrival \in Nat /\ sent \in Int /\ closed_ \in Int
          /\ last - sent <= MaxDelay /\ closed_ <= arrival
      BY <1>1, <1>2
    <3> HIDE DEF last, arrival, sent, closed_
    <3>3. arrival >= last - BeforeLatest
      BY <3>1, <3>2, WatchTimes
    <3>4. i > m
      BY <1>3, <3>3 DEF last, arrival
    <3> QED BY <3>4
  <2> QED BY <2>1, <2>2
<1>7. q - m \in DOMAIN recent /\ recent[q - m] = beats[q]
  <2>1. q - m \in 1..(n - m) /\ m + (q - m) = q
    BY <1>1, <1>6
  <2> QED BY <1>4, <2>1
<1>8. \A j \in DOMAIN recent : recent[j].run # None /\ recent[j].seq \in Nat
  <2> SUFFICES ASSUME NEW j \in DOMAIN recent PROVE recent[j].run # None /\ recent[j].seq \in Nat
    OBVIOUS
  <2>2. recent \in Seq(HeartbeatRow)
    BY <1>4
  <2>1. recent[j] \in HeartbeatRow
    BY <2>2
  <2> QED BY <2>1, NoneIsNoTime DEF HeartbeatRow
<1>9. \A j, k \in DOMAIN recent : recent[j].run # p /\ recent[k].run = p => j < k
  <2> SUFFICES ASSUME NEW j \in DOMAIN recent, NEW k \in DOMAIN recent, recent[j].run # p, recent[k].run = p
               PROVE  j < k
    OBVIOUS
  <2>1. m + j \in DOMAIN beats /\ m + k \in DOMAIN beats /\ beats[m + j].run # p /\ beats[m + k].run = p
    BY <1>4
  <2>2. m + j < m + k
    BY <2>1
  <2>3. j \in Int /\ k \in Int /\ m \in Int
    BY <1>1, <1>4
  <2> HIDE DEF p
  <2> QED BY <2>2, <2>3
<1>10. /\ \E j \in DOMAIN recent : state = recent[j]
       /\ \A j \in DOMAIN recent : recent[j].run = p => state.run = p /\ recent[j].seq <= state.seq
  <2>1. recent # <<>>
    <3>1. DOMAIN recent # {} /\ DOMAIN <<>> = {}
      BY <1>7
    <3> QED BY <3>1
  <2> HIDE DEF p
  <2> QED BY <1>4, <1>8, <1>9, <2>1, StateIs
<1> HIDE DEF state
<1>11. PICK l \in DOMAIN beats : state = beats[l]
  BY <1>4, <1>10
<1>12. state.run = p /\ beats[q].seq <= state.seq
  BY <1>6, <1>7, <1>10
<1>13. state \in HeartbeatRow /\ state \in Sent /\ beats[q] \in Sent /\ beats[q] \in HeartbeatRow
  BY <1>2, <1>11
<1>14. state.bye
  <2> SUFFICES ASSUME ~state.bye PROVE FALSE
    OBVIOUS
  <2>1. state.seq < beats[q].seq
    BY <1>6, <1>12, <1>13 DEF SentInOrder
  <2>2. state.seq \in Nat /\ beats[q].seq \in Nat
    BY <1>13 DEF HeartbeatRow
  <2> QED BY <1>12, <2>1, <2>2
<1>15. state # None
  BY <1>13, RigWatchAssumption
<1> QED BY <1>14, <1>15 DEF SaidGoodbye, state, recent

(* A rig whose last process said goodbye is not reported silent, in        *)
(* whatever order what it sent arrived (rig-state.ts, rules.ts rule 1).    *)
THEOREM ClosedRigsStayQuiet == RigSpec => []ClosedRigStaysQuiet
<1>1. RigInit => NoVenueSilence
  BY DEF RigInit, NoVenueSilence
<1>2. ASSUME BeatsSound, SentInOrder, NoVenueSilence PROVE ClosedRigStaysQuiet
  <2> SUFFICES ASSUME NEW i \in DOMAIN beats, beats[i].bye,
                      \A j, k \in DOMAIN beats : beats[j].run # beats[i].run /\ beats[k].run = beats[i].run => j < k
               PROVE  Silence(RigSnapshot(now, beats, seen)) = {}
    BY DEF ClosedRigStaysQuiet
  <2> DEFINE s == RigSnapshot(now, beats, seen)
  <2>1. SaidGoodbye(RigState(RecentBeats(now, beats)))
    BY <1>2, GoodbyeStands
  <2>2. DOMAIN s.rigs = {"r"} /\ s.rigs["r"].beats = RecentBeats(now, beats)
    BY SnapshotOfTheRig
  <2>3. ~IsOpen(s, "venue_silent", Venue)
    BY <1>2, NoVenueIsOpen
  <2> HIDE DEF s
  <2>4. Reporting(s) = {}
    BY <2>1, <2>2 DEF Reporting
  <2>5. SilentRigs(s, Reporting(s)) = {}
    BY <2>4 DEF SilentRigs
  <2>6. \A f : f \notin Silence(s)
    BY <2>2, <2>3, <2>5, SilenceIsOneRigs
  <2> QED BY <2>6 DEF s
<1>3. RigSpec => []NoVenueSilence
  BY <1>1, NoVenueSilenceStep, PTL DEF RigSpec
<1> QED BY <1>2, <1>3, BeatsStaySound, SentStaysInOrder, PTL
=============================================================================
