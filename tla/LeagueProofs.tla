----------------------------- MODULE LeagueProofs -----------------------------
(***************************************************************************)
(* Proofs about League for any staff, drivers, combos, lap times and bound *)
(* on what happens.                                                        *)
(*                                                                         *)
(* The argument: a season's lock has one holder, who found it open, and    *)
(* only a holder ends it.  So the season of an opener that is about to     *)
(* commit is still open, and a roll finds no round in the season it ends.  *)
(* An opener that found no league was sent before the first round opened,  *)
(* and so before any round closed.  An opener read the featured combo with *)
(* no round open, when it is one that opening is to put back, or amid a    *)
(* round, when it is that round's.                                         *)
(***************************************************************************)
EXTENDS League, FiniteSetTheorems, SequenceTheorems, WellFoundedInduction, TLAPS

Season == [league : Nat, open : BOOLEAN]

Round ==
  [season : Nat, combo : Combos, prior : Combos \cup {None}, amid : Nat \cup {None}, opened : Nat,
   closed : Nat \cup {None}, began : Nat \cup {None}, finishers : Seq(Drivers), retired : SUBSET Drivers]

Lap ==
  [driver : Drivers, combo : Combos, time : Times, clean : BOOLEAN, at : Nat,
   during : Nat \cup {None}, judged : Nat \cup {None},
   stage : {"sent", "judged", "stored", "ruled"}, valid : BOOLEAN]

(* The requests, by how far they have come.                                *)
Asking    == [at : {"open"}, combo : Combos]
Seeking   == [at : {"locking", "creating", "relocking"}, combo : Combos, opened : Nat, wants : Nat]
Inserting == [at : {"inserting"}, combo : Combos, opened : Nat, holds : Nat,
              fresh : {"nothing", "season", "league"}]
Checking  == [at : {"checking"}, opened : Nat, holds : Nat, fresh : {"nothing", "season", "league"},
              combo : Combos, prior : Combos \cup {None}, amid : Nat \cup {None}]
Closer    == [at : {"close", "closing"}, round : Nat, closed : Nat]
Roller    == [at : {"roll"}, wants : Nat]
Rolling   == [at : {"rolling"}, wants : Nat, holds : Nat]

Request == {Idle} \cup Asking \cup Seeking \cup Inserting \cup Checking \cup Closer \cup Roller \cup Rolling

TypeOK ==
  /\ leagues \in Nat
  /\ seasons \in Seq(Season)
  /\ rounds \in Seq(Round)
  /\ featured \in Combos \cup {None}
  /\ own \in Combos \cup {None}
  /\ txn \in [Staff -> Request]
  /\ happenings \in Nat
  /\ laps \subseteq Lap
  /\ clock \in Nat

(* A request only holds on to rounds and seasons there are.                *)
RefersToRows ==
  \A s \in Staff :
    /\ At(s, "close") \/ At(s, "closing") => txn[s].round \in DOMAIN rounds
    /\ At(s, "locking") \/ At(s, "relocking") \/ At(s, "roll") => txn[s].wants \in DOMAIN seasons
    /\ At(s, "rolling") => txn[s].holds \in DOMAIN seasons

-----------------------------------------------------------------------------
LEMMA NoneIsNoNumber == None \notin Nat
BY LeagueAssumption DEF LeagueAssumption

LEMMA TypeInit == Init => TypeOK
<1> SUFFICES ASSUME Init PROVE TypeOK
  OBVIOUS
<1>1. seasons \in Seq(Season) /\ rounds \in Seq(Round)
  BY EmptySeq DEF Init
<1> QED BY <1>1 DEF Init, TypeOK, Request

(* A non-empty set of numbers up to n has a largest.                       *)
LEMMA LastOfSome ==
  ASSUME NEW n \in Nat, NEW W \in SUBSET (1..n), W # {}
  PROVE  Max(W) \in W
<1> DEFINE T == {n - i : i \in W}
<1>1. T \in SUBSET Nat /\ T # {}
  <2>1. \A i \in W : n - i \in Nat
    OBVIOUS
  <2> QED BY <2>1
<1>2. \E x \in T : \A y \in T : ~(<<y, x>> \in OpToRel(<, Nat))
  <2> HIDE DEF T
  <2> QED BY <1>1, NatLessThanWellFounded, WFMin
<1>3. PICK i \in W : \A j \in W : ~(<<n - j, n - i>> \in OpToRel(<, Nat))
  BY <1>2
<1>4. ASSUME NEW j \in W PROVE i >= j
  <2>1. SUFFICES ASSUME i < j PROVE FALSE
    OBVIOUS
  <2>2. n - j \in Nat /\ n - i \in Nat /\ n - j < n - i
    BY <2>1
  <2>3. <<n - j, n - i>> \in OpToRel(<, Nat)
    BY <2>2 DEF OpToRel
  <2> QED BY <1>3, <2>3
<1> QED BY <1>4 DEF Max

(* The latest open season is one of the open ones.                         *)
LEMMA LatestIsOpen ==
  ASSUME TypeOK
  PROVE  /\ LatestOpen \in Nat
         /\ OpenSeasons # {} => LatestOpen \in OpenSeasons
<1>1. OpenSeasons \in SUBSET (1..Len(seasons)) /\ Len(seasons) \in Nat
  BY LenProperties DEF TypeOK, OpenSeasons
<1>2. OpenSeasons # {} => Max(OpenSeasons) \in OpenSeasons
  BY <1>1, LastOfSome
<1>3. \A i \in OpenSeasons : i \in Nat
  BY <1>1
<1> QED BY <1>2, <1>3 DEF LatestOpen, NoSeason

(* What a request carries at each of its stages.                           *)
LEMMA Stages ==
  ASSUME TypeOK, NEW s \in Staff
  PROVE  /\ At(s, "open") => txn[s] \in Asking
         /\ At(s, "locking") \/ At(s, "creating") \/ At(s, "relocking") => txn[s] \in Seeking
         /\ At(s, "inserting") => txn[s] \in Inserting
         /\ At(s, "checking") => txn[s] \in Checking
         /\ At(s, "close") \/ At(s, "closing") => txn[s] \in Closer
         /\ At(s, "roll") => txn[s] \in Roller
         /\ At(s, "rolling") => txn[s] \in Rolling
BY DEF TypeOK, At, Request, Idle, Asking, Seeking, Inserting, Checking, Closer, Roller, Rolling

LEMMA LapIsJudged ==
  ASSUME NEW l \in Lap, NEW round \in Nat \cup {None}, NEW valid \in BOOLEAN
  PROVE  [l EXCEPT !.stage = "judged", !.judged = round, !.valid = valid] \in Lap
BY DEF Lap

LEMMA LapIsStored == ASSUME NEW l \in Lap PROVE [l EXCEPT !.stage = "stored"] \in Lap
BY DEF Lap

LEMMA LapIsRuled ==
  ASSUME NEW l \in Lap, NEW valid \in BOOLEAN
  PROVE  [l EXCEPT !.stage = "ruled", !.valid = valid] \in Lap
BY DEF Lap

LEMMA TonightIsARound ==
  ASSUME TypeOK
  PROVE  /\ TonightsRound \in Nat \cup {None}
         /\ OpenRounds = {} => TonightsRound = None
         /\ OpenRounds # {} => TonightsRound \in OpenRounds
BY LenProperties DEF TypeOK, TonightsRound, OpenRounds

LEMMA TypeStep == TypeOK /\ RefersToRows /\ [Next]_vars => TypeOK'
<1> SUFFICES ASSUME TypeOK, RefersToRows, [Next]_vars PROVE TypeOK'
  OBVIOUS
<1> USE DEF TypeOK
<1>1. CASE UNCHANGED vars
  BY <1>1 DEF vars, league
<1>2. ASSUME NEW s \in Staff, NEW t \in Request, Becomes(s, t) PROVE txn' \in [Staff -> Request]
  BY <1>2 DEF Becomes
<1>3. ASSUME NEW s \in Staff, Answers(s) PROVE txn' \in [Staff -> Request]
  BY <1>3 DEF Answers, Becomes, Request
<1>4. ASSUME NEW s \in Staff, NEW combo \in Combos, AskOpen(s, combo) PROVE TypeOK'
  <2>1. [at |-> "open", combo |-> combo] \in Request
    BY DEF Request, Asking
  <2> QED BY <1>2, <1>4, <2>1 DEF AskOpen, Asks, Happens, league
<1>5. ASSUME NEW s \in Staff, OpenSelects(s) PROVE TypeOK'
  <2>1. txn[s].combo \in Combos
    BY <1>5, Stages DEF OpenSelects, Asking
  <2>2. [at |-> IF OpenSeasons = {} THEN "creating" ELSE "locking", combo |-> txn[s].combo,
         opened |-> clock + 1, wants |-> LatestOpen] \in Request
    BY <2>1, LatestIsOpen DEF Request, Seeking
  <2> QED BY <1>2, <1>5, <2>2 DEF OpenSelects, league
<1>6. ASSUME NEW s \in Staff, NEW i \in Nat, NEW fresh \in {"nothing", "season", "league"},
             txn[s] \in Seeking, Takes(s, i, fresh)
      PROVE  txn' \in [Staff -> Request]
  <2>1. [at |-> "inserting", combo |-> txn[s].combo, opened |-> txn[s].opened, holds |-> i, fresh |-> fresh]
          \in Request
    BY <1>6 DEF Seeking, Inserting, Request
  <2> QED BY <1>2, <1>6, <2>1 DEF Takes
<1>7. ASSUME NEW s \in Staff, OpenLocks(s) \/ OpenCreates(s) \/ OpenRelocks(s) PROVE TypeOK'
  <2>1. txn[s] \in Seeking /\ txn[s].wants \in Nat /\ NoSeason \in Nat
    BY <1>7, Stages DEF OpenLocks, OpenCreates, OpenRelocks, Seeking, NoSeason
  <2>2. /\ [txn[s] EXCEPT !.at = "creating"] \in Request
        /\ [txn[s] EXCEPT !.at = "relocking", !.wants = LatestOpen] \in Request
    BY <2>1, LatestIsOpen DEF Request, Seeking
  <2>3. txn' \in [Staff -> Request]
    <3>1. CASE OpenLocks(s)
      BY <1>2, <1>6, <2>1, <2>2, <3>1 DEF OpenLocks
    <3>2. CASE OpenCreates(s)
      BY <1>2, <1>6, <2>1, <2>2, <3>2 DEF OpenCreates
    <3>3. CASE OpenRelocks(s)
      BY <1>3, <1>6, <2>1, <3>3 DEF OpenRelocks
    <3> QED BY <1>7, <3>1, <3>2, <3>3
  <2> QED BY <1>7, <2>3 DEF OpenLocks, OpenCreates, OpenRelocks, league
<1>8. ASSUME NEW s \in Staff, OpenInserts(s) PROVE TypeOK'
  <2>1. txn[s] \in Inserting
    BY <1>8, Stages DEF OpenInserts
  <2>2. [at |-> "checking", opened |-> txn[s].opened, holds |-> txn[s].holds, fresh |-> txn[s].fresh,
         combo |-> txn[s].combo, prior |-> PriorOf(txn[s].combo), amid |-> TonightsRound] \in Request
    BY <2>1, TonightIsARound DEF Inserting, Checking, Request, PriorOf
  <2> QED BY <1>2, <1>8, <2>2 DEF OpenInserts, league
<1>9. ASSUME NEW s \in Staff, OpenCommits(s) PROVE TypeOK'
  <2> DEFINE season == [league |-> IF txn[s].fresh = "league" THEN leagues + 1 ELSE 1, open |-> TRUE]
             round == [season |-> IF txn[s].fresh = "nothing" THEN txn[s].holds ELSE Len(seasons) + 1,
                       combo |-> txn[s].combo, prior |-> txn[s].prior,
                       amid |-> txn[s].amid, opened |-> txn[s].opened, closed |-> None,
                       began |-> None, finishers |-> <<>>, retired |-> {}]
  <2>1. txn[s] \in Checking
    BY <1>9, Stages DEF OpenCommits
  <2>2. season \in Season
    BY DEF Season
  <2>3. Len(seasons) + 1 \in Nat
    BY LenProperties
  <2>4. round \in Round
    BY <2>1, <2>3, EmptySeq DEF Round, Checking
  <2> HIDE DEF season, round
  <2>5. Append(seasons, season) \in Seq(Season) /\ Append(rounds, round) \in Seq(Round)
    BY <2>2, <2>4, AppendProperties
  <2>6. seasons' \in Seq(Season)
    BY <1>9, <2>5 DEF OpenCommits, SeasonsLeft, SeasonCreated, season
  <2>7. rounds' \in Seq(Round)
    BY <1>9, <2>5 DEF OpenCommits, round
  <2>8. leagues' \in Nat /\ featured' \in Combos \cup {None} /\ own' \in Combos \cup {None}
    BY <1>9, <2>1 DEF OpenCommits, Checking
  <2>9. txn' \in [Staff -> Request] /\ happenings' \in Nat /\ laps' \subseteq Lap /\ clock' \in Nat
    BY <1>3, <1>9 DEF OpenCommits
  <2> QED BY <2>6, <2>7, <2>8, <2>9
<1>10. ASSUME NEW s \in Staff, NEW n \in OpenRounds, AskClose(s, n) PROVE TypeOK'
  <2>1. n \in Nat
    BY LenProperties DEF OpenRounds
  <2>2. [at |-> "close", round |-> n, closed |-> clock + 1] \in Request
    BY <2>1 DEF Closer, Request
  <2> QED BY <1>2, <1>10, <2>2 DEF AskClose, Asks, Happens, league
<1>11. ASSUME NEW s \in Staff, Closes(s) PROVE TypeOK'
  <2>1. [txn[s] EXCEPT !.at = "closing"] \in Request
    BY <1>11, Stages DEF Closes, Closer, Request
  <2> QED BY <1>2, <1>3, <1>11, <2>1 DEF Closes, league
<1>12. ASSUME NEW n \in DOMAIN rounds, NEW round \in Round
       PROVE  [rounds EXCEPT ![n] = round] \in Seq(Round)
  BY LenProperties, ExceptSeq
<1>13. ASSUME NEW s \in Staff, CloseCommits(s) PROVE TypeOK'
  <2> DEFINE n == txn[s].round
  <2>1. txn[s] \in Closer /\ n \in DOMAIN rounds
    BY <1>13, Stages DEF CloseCommits, RefersToRows
  <2>2. rounds[n] \in Round
    BY <2>1, LenProperties, ElementOfSeq
  <2>3. [rounds[n] EXCEPT !.closed = txn[s].closed] \in Round /\ rounds[n].prior \in Combos \cup {None}
    BY <2>1, <2>2 DEF Round, Closer
  <2>4. rounds' = [rounds EXCEPT ![n] = [rounds[n] EXCEPT !.closed = txn[s].closed]]
    BY <1>13, <2>2 DEF CloseCommits
  <2>5. rounds' \in Seq(Round)
    BY <1>12, <2>1, <2>3, <2>4
  <2> QED BY <1>3, <1>13, <2>3, <2>5 DEF CloseCommits
<1>14. ASSUME NEW s \in Staff, AskRoll(s) PROVE TypeOK'
  <2>1. [at |-> "roll", wants |-> LatestOpen] \in Request
    BY LatestIsOpen DEF Request, Roller
  <2> QED BY <1>2, <1>14, <2>1 DEF AskRoll, Asks, Happens, league
<1>15. ASSUME NEW s \in Staff, RollLocks(s) PROVE TypeOK'
  <2>1. [at |-> "rolling", wants |-> txn[s].wants, holds |-> Selected(s)] \in Request
    BY <1>15, Stages DEF RollLocks, Roller, Rolling, Request, Selected
  <2> QED BY <1>2, <1>3, <1>15, <2>1 DEF RollLocks, league
<1>16. ASSUME NEW s \in Staff, RollCommits(s) PROVE TypeOK'
  <2> DEFINE i == txn[s].holds
             ended == [seasons EXCEPT ![i] = [seasons[i] EXCEPT !.open = FALSE]]
  <2>1. i \in DOMAIN seasons
    BY <1>16 DEF RollCommits, RefersToRows
  <2>2. seasons[i] \in Season
    BY <2>1, LenProperties, ElementOfSeq
  <2>3. [seasons[i] EXCEPT !.open = FALSE] \in Season /\ [league |-> seasons[i].league, open |-> TRUE] \in Season
    BY <2>2 DEF Season
  <2>4. ended \in Seq(Season)
    BY <2>1, <2>3, LenProperties, ExceptSeq
  <2>5. Append(ended, [league |-> seasons[i].league, open |-> TRUE]) \in Seq(Season)
    BY <2>3, <2>4, AppendProperties
  <2>6. seasons' \in Seq(Season)
    BY <1>16, <2>5 DEF RollCommits
  <2> QED BY <1>3, <1>16, <2>6 DEF RollCommits
<1>17. ASSUME NEW s \in Staff, Fails(s) PROVE TypeOK'
  BY <1>3, <1>17 DEF Fails, league
<1>18. TonightsRound \in Nat \cup {None}
  BY TonightIsARound
<1>19. ASSUME NEW d \in Drivers, NEW combo \in Combos, NEW time \in Times, NEW clean \in BOOLEAN,
              Drive(d, combo, time, clean)
       PROVE  TypeOK'
  <2> DEFINE lap == [driver |-> d, combo |-> combo, time |-> time, clean |-> clean, at |-> clock + 1,
                     during |-> TonightsRound, judged |-> None, stage |-> "sent", valid |-> FALSE]
  <2>1. lap \in Lap
    BY <1>18 DEF Lap
  <2>2. laps' = laps \cup {lap}
    BY <1>19 DEF Drive
  <2> HIDE DEF lap
  <2>3. laps' \subseteq Lap
    BY <2>1, <2>2
  <2> QED BY <1>19, <2>3 DEF Drive, Happens, league
<1>20. ASSUME NEW l \in laps, JudgeLap(l) \/ StoreLap(l) \/ Rule(l) PROVE TypeOK'
  <2>1. l \in Lap
    OBVIOUS
  <2>2. Counts(l) \in BOOLEAN
    BY <2>1 DEF Counts, Lap
  <2>3. (~l.valid) \in BOOLEAN
    OBVIOUS
  <2>4. laps' \subseteq Lap
    <3> DEFINE judged == [l EXCEPT !.stage = "judged", !.judged = TonightsRound, !.valid = Counts(l)]
               ruled  == [l EXCEPT !.stage = "ruled", !.valid = ~@]
    <3>1. judged \in Lap
      BY <1>18, <2>1, <2>2, LapIsJudged
    <3>2. [l EXCEPT !.stage = "stored"] \in Lap
      BY <2>1, LapIsStored
    <3>3. ruled \in Lap
      BY <2>1, <2>3, LapIsRuled
    <3>4. laps' \subseteq laps \cup {judged, [l EXCEPT !.stage = "stored"], ruled}
      BY <1>20 DEF JudgeLap, StoreLap, Rule
    <3> HIDE DEF judged, ruled
    <3> QED BY <3>1, <3>2, <3>3, <3>4
  <2> QED BY <1>20, <2>4 DEF JudgeLap, StoreLap, Rule, Happens, league
<1>21. ASSUME NEW n \in OpenRounds PROVE n \in DOMAIN rounds /\ rounds[n] \in Round
  BY <1>21, LenProperties, ElementOfSeq DEF OpenRounds
<1>22. ASSUME NEW n \in OpenRounds, RaceBegins(n) PROVE TypeOK'
  <2>1. \A at \in Nat : [rounds[n] EXCEPT !.began = at] \in Round
    BY <1>21 DEF Round
  <2>2. rounds' = [rounds EXCEPT ![n] = [rounds[n] EXCEPT !.began = clock + 1]]
    BY <1>22 DEF RaceBegins
  <2>3. rounds' \in Seq(Round)
    <3>1. clock + 1 \in Nat
      OBVIOUS
    <3> QED BY <1>12, <1>21, <2>1, <2>2, <3>1
  <2> QED BY <1>22, <2>3 DEF RaceBegins, Happens
<1>23. ASSUME NEW n \in OpenRounds, NEW d \in Drivers, Finishes(n, d) PROVE TypeOK'
  <2>1. Append(rounds[n].finishers, d) \in Seq(Drivers)
    BY <1>21, AppendProperties DEF Round
  <2>2. [rounds[n] EXCEPT !.finishers = Append(rounds[n].finishers, d)] \in Round
    BY <1>21, <2>1 DEF Round
  <2>3. rounds' = [rounds EXCEPT ![n] = [rounds[n] EXCEPT !.finishers = Append(rounds[n].finishers, d)]]
    BY <1>23 DEF Finishes
  <2>4. rounds' \in Seq(Round)
    BY <1>12, <1>21, <2>2, <2>3
  <2> QED BY <1>23, <2>4 DEF Finishes, Happens
<1>24. ASSUME NEW n \in OpenRounds, NEW d \in Drivers, Retires(n, d) PROVE TypeOK'
  <2>1. [rounds[n] EXCEPT !.retired = rounds[n].retired \cup {d}] \in Round
    BY <1>21 DEF Round
  <2>2. rounds' = [rounds EXCEPT ![n] = [rounds[n] EXCEPT !.retired = rounds[n].retired \cup {d}]]
    BY <1>24 DEF Retires
  <2>3. rounds' \in Seq(Round)
    BY <1>12, <1>21, <2>1, <2>2
  <2> QED BY <1>24, <2>3 DEF Retires, Happens
<1> HIDE DEF TypeOK
<1> QED
  BY <1>1, <1>4, <1>5, <1>7, <1>8, <1>9, <1>10, <1>11, <1>13, <1>14, <1>15, <1>16, <1>17, <1>19,
     <1>20, <1>22, <1>23, <1>24
  DEF Next
-----------------------------------------------------------------------------
(* What a step does, as far as the rounds and seasons go.                  *)

Holds(s) == txn[s].at \in {"inserting", "checking", "rolling"}
Fresh(s) == txn[s].at \in {"inserting", "checking"} /\ txn[s].fresh # "nothing"

FreeOf(s, i) == \A u \in Staff \ {s} : Holds(u) => txn[u].holds # i

LetsGo(s) == txn'[s] = Idle

Asked(s) ==
  /\ txn'[s].at = "open"
  /\ OpenRounds = {}

Stamped(s) == txn[s].at \in {"locking", "creating", "relocking", "inserting", "checking"}
Renews(s)  == Fresh(s) /\ txn[s].fresh = "season"
Founds(s)  == Fresh(s) /\ txn[s].fresh = "league"

KeepsStamp(s) == Stamped(s) /\ txn'[s].opened = txn[s].opened

Seeks(s) ==
  /\ txn'[s].at \in {"locking", "creating", "relocking"}
  /\ txn'[s].at # "creating" => txn'[s].wants \in OpenSeasons
  /\ KeepsStamp(s) \/ txn'[s].opened = clock'

TakesOpen(s) ==
  /\ KeepsStamp(s)
  /\ txn'[s].at = "inserting"
  /\ txn'[s].fresh = "nothing"
  /\ txn'[s].holds \in OpenSeasons
  /\ FreeOf(s, txn'[s].holds)

TakesFresh(s) ==
  /\ KeepsStamp(s)
  /\ txn'[s].at = "inserting"
  /\ txn'[s].holds = NoSeason
  /\ \/ txn'[s].fresh = "league" /\ leagues = 0
     \/ /\ txn'[s].fresh = "season" /\ leagues > 0
        /\ \A u \in Staff \ {s} : ~Renews(u)
        /\ \A i \in OpenSeasons : seasons[i].league # 1

Inserts(s) ==
  /\ KeepsStamp(s)
  /\ At(s, "inserting")
  /\ txn'[s].at = "checking"
  /\ txn'[s].holds = txn[s].holds
  /\ txn'[s].fresh = txn[s].fresh
  /\ txn'[s].prior = featured
  /\ txn'[s].amid = TonightsRound

AsksClose(s) ==
  /\ txn'[s].at = "close"
  /\ txn'[s].round \in OpenRounds
  /\ txn'[s].closed = clock + 1

LocksRound(s) ==
  /\ At(s, "close")
  /\ txn'[s].at = "closing"
  /\ txn'[s].round = txn[s].round
  /\ txn'[s].closed = txn[s].closed
  /\ txn'[s].round \in OpenRounds
  /\ ~Closing(txn[s].round)

AsksRoll(s) ==
  /\ txn'[s].at = "roll"
  /\ txn'[s].wants \in OpenSeasons

LocksSeason(s) ==
  /\ txn'[s].at = "rolling"
  /\ txn'[s].holds \in OpenSeasons
  /\ FreeOf(s, txn'[s].holds)

OthersStay(s) == \A u \in Staff \ {s} : txn'[u] = txn[u]

Moves(s) ==
  /\ OthersStay(s)
  /\ \/ LetsGo(s) \/ Asked(s) \/ Seeks(s) \/ TakesOpen(s) \/ TakesFresh(s) \/ Inserts(s)
     \/ AsksClose(s) \/ LocksRound(s) \/ AsksRoll(s) \/ LocksSeason(s)

(* What no step writes again, in the row of a round.                       *)
SameOpening(old, new) ==
  /\ new.season = old.season /\ new.combo = old.combo /\ new.prior = old.prior
  /\ new.amid = old.amid /\ new.opened = old.opened

(* A race changes no round as far as it matters here.                      *)
SameRounds ==
  /\ DOMAIN rounds' = DOMAIN rounds
  /\ \A n \in DOMAIN rounds : /\ SameOpening(rounds[n], rounds'[n])
                              /\ rounds'[n].closed = rounds[n].closed
                              /\ n \in OpenRounds \/ rounds'[n] = rounds[n]

SeasonAdded(league1) ==
  LET i == Len(seasons) + 1
  IN  /\ i \notin DOMAIN seasons
      /\ DOMAIN seasons' = DOMAIN seasons \cup {i}
      /\ seasons'[i].open /\ seasons'[i].league = league1

OpensRound(s) ==
  LET n == Len(rounds) + 1
  IN  /\ At(s, "checking") /\ OthersStay(s) /\ LetsGo(s)
      /\ OpenRounds = {}
      /\ n \notin DOMAIN rounds
      /\ DOMAIN rounds' = DOMAIN rounds \cup {n}
      /\ \A m \in DOMAIN rounds : rounds'[m] = rounds[m]
      /\ rounds'[n].closed = None
      /\ rounds'[n].prior = txn[s].prior /\ rounds'[n].amid = txn[s].amid
      /\ rounds'[n].combo = txn[s].combo /\ rounds'[n].opened = txn[s].opened
      /\ featured' = txn[s].combo
      /\ \A i \in DOMAIN seasons : seasons'[i] = seasons[i]
      /\ IF txn[s].fresh = "nothing"
         THEN rounds'[n].season = txn[s].holds /\ DOMAIN seasons' = DOMAIN seasons
         ELSE /\ rounds'[n].season = Len(seasons) + 1
              /\ SeasonAdded(IF txn[s].fresh = "league" THEN leagues + 1 ELSE 1)
      /\ leagues' = IF txn[s].fresh = "league" THEN leagues + 1 ELSE leagues
      /\ own' = own

ClosesRound(s) ==
  LET n == txn[s].round
  IN  /\ At(s, "closing") /\ OthersStay(s) /\ LetsGo(s)
      /\ n \in DOMAIN rounds
      /\ DOMAIN rounds' = DOMAIN rounds
      /\ \A m \in DOMAIN rounds \ {n} : rounds'[m] = rounds[m]
      /\ rounds'[n].closed = txn[s].closed /\ txn[s].closed # None
      /\ SameOpening(rounds[n], rounds'[n])
      /\ featured' = rounds[n].prior
      /\ UNCHANGED <<leagues, seasons, own>>

RollsSeason(s) ==
  LET i == txn[s].holds
  IN  /\ At(s, "rolling") /\ OthersStay(s) /\ LetsGo(s)
      /\ OpenRounds = {}
      /\ i \in DOMAIN seasons
      /\ \A j \in DOMAIN seasons \ {i} : seasons'[j] = seasons[j]
      /\ ~seasons'[i].open /\ seasons'[i].league = seasons[i].league
      /\ SeasonAdded(seasons[i].league)
      /\ UNCHANGED <<leagues, rounds, featured, own>>

Evolves ==
  \/ UNCHANGED <<txn, leagues, seasons, featured, own>> /\ SameRounds
  \/ \E s \in Staff : Moves(s) /\ UNCHANGED league
  \/ \E s \in Staff : OpensRound(s) \/ ClosesRound(s) \/ RollsSeason(s)

LEMMA WhoHolds ==
  ASSUME TypeOK, NEW s \in Staff
  PROVE  /\ \A i : ~LockedByOther(s, i) => FreeOf(s, i)
         /\ \A u \in Staff : "fresh" \in DOMAIN txn[u] <=> txn[u].at \in {"inserting", "checking"}
         /\ \A u \in Staff : Renews(u) => "fresh" \in DOMAIN txn[u]
<1>1. ASSUME NEW u \in Staff, Holds(u) PROVE "holds" \in DOMAIN txn[u]
  BY <1>1, Stages DEF Holds, At, Inserting, Checking, Rolling
<1>2. ASSUME NEW u \in Staff PROVE "fresh" \in DOMAIN txn[u] <=> txn[u].at \in {"inserting", "checking"}
  BY DEF TypeOK, Request, Idle, Asking, Seeking, Inserting, Checking, Closer, Roller, Rolling
<1> QED BY <1>1, <1>2 DEF FreeOf, LockedByOther, Renews, Fresh

LEMMA SeasonIsAdded ==
  ASSUME TypeOK, NEW old \in Seq(Season), Len(old) = Len(seasons), NEW season \in Season, season.open,
         seasons' = Append(old, season)
  PROVE  /\ SeasonAdded(season.league)
         /\ \A i \in DOMAIN seasons : seasons'[i] = old[i]
<1>1. DOMAIN seasons = 1..Len(seasons) /\ Len(seasons) \in Nat
  BY LenProperties DEF TypeOK
<1>2. /\ seasons' \in Seq(Season) /\ Len(seasons') = Len(seasons) + 1
      /\ \A i \in 1..Len(seasons) : seasons'[i] = old[i]
      /\ seasons'[Len(seasons) + 1] = season
  BY AppendProperties
<1>3. DOMAIN seasons' = 1..(Len(seasons) + 1)
  BY <1>2, LenProperties
<1> QED BY <1>1, <1>2, <1>3 DEF SeasonAdded

LEMMA RoundIsAdded ==
  ASSUME TypeOK, NEW round \in Round, rounds' = Append(rounds, round)
  PROVE  /\ Len(rounds) + 1 \notin DOMAIN rounds
         /\ DOMAIN rounds' = DOMAIN rounds \cup {Len(rounds) + 1}
         /\ \A m \in DOMAIN rounds : rounds'[m] = rounds[m]
         /\ rounds'[Len(rounds) + 1] = round
<1>1. DOMAIN rounds = 1..Len(rounds) /\ Len(rounds) \in Nat
  BY LenProperties DEF TypeOK
<1>2. /\ rounds' \in Seq(Round) /\ Len(rounds') = Len(rounds) + 1
      /\ \A i \in 1..Len(rounds) : rounds'[i] = rounds[i]
      /\ rounds'[Len(rounds) + 1] = round
  BY AppendProperties DEF TypeOK
<1>3. DOMAIN rounds' = 1..(Len(rounds) + 1)
  BY <1>2, LenProperties
<1> QED BY <1>1, <1>2, <1>3

LEMMA OpeningMoves ==
  ASSUME TypeOK, RefersToRows, NEW s \in Staff,
         OpenSelects(s) \/ OpenLocks(s) \/ OpenCreates(s) \/ OpenRelocks(s) \/ OpenInserts(s)
  PROVE  Moves(s) /\ UNCHANGED league
<1>1. s \in DOMAIN txn
  BY DEF TypeOK
<1>2. CASE OpenSelects(s)
  BY <1>1, <1>2, LatestIsOpen DEF OpenSelects, Becomes, At, Moves, OthersStay, Seeks
<1>3. ASSUME OpenLocks(s) \/ OpenCreates(s) \/ OpenRelocks(s) PROVE txn[s] \in Seeking /\ Stamped(s)
  BY <1>3, Stages DEF OpenLocks, OpenCreates, OpenRelocks, Stamped, At
<1>4. ASSUME NEW i, NEW fresh, Takes(s, i, fresh)
      PROVE  /\ OthersStay(s)
             /\ txn'[s].at = "inserting" /\ txn'[s].holds = i /\ txn'[s].fresh = fresh
             /\ txn'[s].opened = txn[s].opened
  BY <1>1, <1>4 DEF Takes, Becomes, OthersStay
<1>5. CASE OpenLocks(s)
  <2>1. txn[s] \in Seeking /\ Stamped(s)
    BY <1>3, <1>5
  <2>2. FreeOf(s, txn[s].wants)
    BY <1>5, WhoHolds DEF OpenLocks
  <2>3. CASE seasons[txn[s].wants].open
    <3>1. txn[s].wants \in OpenSeasons
      BY <1>5, <2>3 DEF OpenLocks, RefersToRows, OpenSeasons
    <3> QED BY <1>4, <1>5, <2>1, <2>2, <2>3, <3>1 DEF OpenLocks, TakesOpen, Moves, KeepsStamp
  <2>4. CASE ~seasons[txn[s].wants].open
    <3> DEFINE t == [txn[s] EXCEPT !.at = "creating"]
    <3>1. t.at = "creating" /\ t.opened = txn[s].opened
      BY <2>1 DEF Seeking
    <3>2. txn' = [txn EXCEPT ![s] = t]
      BY <1>5, <2>4 DEF OpenLocks, Becomes
    <3>3. txn'[s].at = "creating" /\ txn'[s].opened = txn[s].opened /\ OthersStay(s)
      <4> HIDE DEF t
      <4> QED BY <1>1, <3>1, <3>2 DEF OthersStay
    <3> QED BY <1>5, <2>1, <3>3 DEF OpenLocks, Seeks, Moves, KeepsStamp
  <2> QED BY <1>5, <2>3, <2>4 DEF OpenLocks
<1>6. CASE OpenCreates(s)
  <2>1. txn[s] \in Seeking /\ Stamped(s)
    BY <1>3, <1>6
  <2>2. CASE leagues = 0 /\ Takes(s, NoSeason, "league")
    BY <1>4, <1>6, <2>1, <2>2 DEF OpenCreates, TakesFresh, Moves, KeepsStamp
  <2>3. CASE /\ leagues > 0 /\ Takes(s, NoSeason, "season") /\ \A i \in OpenSeasons : seasons[i].league # 1
             /\ \A u \in Staff \ {s} : ~Renews(u)
    BY <1>4, <1>6, <2>1, <2>3 DEF OpenCreates, TakesFresh, Moves, KeepsStamp
  <2>4. CASE /\ \E i \in OpenSeasons : seasons[i].league = 1
             /\ Becomes(s, [txn[s] EXCEPT !.at = "relocking", !.wants = LatestOpen])
    <3> DEFINE t == [txn[s] EXCEPT !.at = "relocking", !.wants = LatestOpen]
    <3>1. t.at = "relocking" /\ t.wants = LatestOpen /\ t.opened = txn[s].opened
      BY <2>1 DEF Seeking
    <3>2. txn' = [txn EXCEPT ![s] = t]
      BY <2>4 DEF Becomes
    <3>3. /\ txn'[s].at = "relocking" /\ txn'[s].wants \in OpenSeasons
          /\ txn'[s].opened = txn[s].opened /\ OthersStay(s)
      <4> HIDE DEF t
      <4> QED BY <1>1, <2>4, <3>1, <3>2, LatestIsOpen DEF OthersStay
    <3> QED BY <1>6, <2>1, <3>3 DEF OpenCreates, Seeks, Moves, KeepsStamp
  <2>5. (\A u \in Staff \ {s} : "fresh" \in DOMAIN txn[u] => txn[u].fresh # "season")
          => \A u \in Staff \ {s} : ~Renews(u)
    BY WhoHolds DEF Renews
  <2> QED BY <1>6, <2>2, <2>3, <2>4, <2>5 DEF OpenCreates
<1>7. CASE OpenRelocks(s)
  <2>1. txn[s] \in Seeking /\ Stamped(s)
    BY <1>3, <1>7
  <2>2. FreeOf(s, txn[s].wants)
    BY <1>7, WhoHolds DEF OpenRelocks
  <2>3. CASE seasons[txn[s].wants].open
    <3>1. txn[s].wants \in OpenSeasons
      BY <1>7, <2>3 DEF OpenRelocks, RefersToRows, OpenSeasons
    <3> QED BY <1>4, <1>7, <2>1, <2>2, <2>3, <3>1 DEF OpenRelocks, TakesOpen, Moves, KeepsStamp
  <2>4. CASE ~seasons[txn[s].wants].open
    <3>1. txn' = [txn EXCEPT ![s] = Idle] /\ UNCHANGED league
      BY <1>7, <2>4 DEF OpenRelocks, Answers, Becomes
    <3> QED BY <1>1, <3>1 DEF LetsGo, OthersStay, Moves
  <2> QED BY <1>7, <2>3, <2>4
<1>8. CASE OpenInserts(s)
  <2>1. At(s, "inserting") /\ PriorOf(txn[s].combo) = featured
    BY <1>8 DEF OpenInserts, PriorOf
  <2> DEFINE t == [at |-> "checking", opened |-> txn[s].opened, holds |-> txn[s].holds, fresh |-> txn[s].fresh,
                   combo |-> txn[s].combo, prior |-> PriorOf(txn[s].combo), amid |-> TonightsRound]
  <2>2. txn'[s] = t /\ OthersStay(s)
    BY <1>1, <1>8 DEF OpenInserts, Becomes, OthersStay
  <2>3. /\ t.at = "checking" /\ t.holds = txn[s].holds /\ t.fresh = txn[s].fresh /\ t.prior = featured
        /\ t.opened = txn[s].opened /\ t.amid = TonightsRound
    BY <2>1
  <2>4. Inserts(s)
    <3> HIDE DEF t
    <3> QED BY <2>1, <2>2, <2>3 DEF Inserts, KeepsStamp, Stamped, At
  <2> QED BY <1>8, <2>2, <2>4 DEF OpenInserts, Moves
<1> QED BY <1>2, <1>5, <1>6, <1>7, <1>8

LEMMA OtherMoves ==
  ASSUME TypeOK, RefersToRows, NEW s \in Staff,
         \/ \E combo \in Combos : AskOpen(s, combo)
         \/ \E n \in OpenRounds : AskClose(s, n)
         \/ Closes(s) \/ AskRoll(s) \/ RollLocks(s) \/ Fails(s)
  PROVE  Moves(s) /\ UNCHANGED league
<1>1. s \in DOMAIN txn
  BY DEF TypeOK
<1>2. CASE \E combo \in Combos : AskOpen(s, combo)
  BY <1>1, <1>2 DEF AskOpen, Becomes, Asked, OthersStay, Moves
<1>3. ASSUME NEW n \in OpenRounds, AskClose(s, n) PROVE Moves(s) /\ UNCHANGED league
  <2>1. txn' = [txn EXCEPT ![s] = [at |-> "close", round |-> n, closed |-> clock + 1]] /\ UNCHANGED league
    BY <1>3 DEF AskClose, Becomes
  <2>2. AsksClose(s) /\ OthersStay(s)
    BY <1>1, <1>3, <2>1 DEF AskClose, AsksClose, OthersStay
  <2> QED BY <2>1, <2>2 DEF Moves
<1>4. ASSUME Answers(s) PROVE LetsGo(s) /\ OthersStay(s)
  BY <1>1, <1>4 DEF Answers, Becomes, LetsGo, OthersStay
<1>5. CASE Closes(s)
  <2> DEFINE t == [txn[s] EXCEPT !.at = "closing"]
  <2>1. t.at = "closing" /\ t.round = txn[s].round /\ t.closed = txn[s].closed
    BY <1>5, Stages DEF Closes, Closer
  <2>2. CASE txn[s].round \in OpenRounds
    <3>1. txn' = [txn EXCEPT ![s] = t] /\ At(s, "close") /\ ~Closing(txn[s].round) /\ UNCHANGED league
      BY <1>5, <2>2 DEF Closes, Becomes
    <3> HIDE DEF t
    <3>2. LocksRound(s) /\ OthersStay(s)
      BY <1>1, <2>1, <2>2, <3>1 DEF LocksRound, OthersStay
    <3> QED BY <3>1, <3>2 DEF Moves
  <2>3. CASE txn[s].round \notin OpenRounds
    BY <1>4, <1>5, <2>3 DEF Closes, Moves
  <2> QED BY <2>2, <2>3
<1>6. CASE AskRoll(s)
  BY <1>1, <1>6, LatestIsOpen DEF AskRoll, Becomes, AsksRoll, OthersStay, Moves
<1>7. CASE RollLocks(s)
  <2>1. At(s, "roll") /\ Selected(s) \in DOMAIN seasons /\ FreeOf(s, Selected(s)) /\ UNCHANGED league
    BY <1>7, WhoHolds DEF RollLocks, RefersToRows, Selected
  <2>2. CASE seasons[Selected(s)].open
    <3>1. txn' = [txn EXCEPT ![s] = [at |-> "rolling", wants |-> txn[s].wants, holds |-> Selected(s)]]
      BY <1>7, <2>2 DEF RollLocks, Becomes
    <3>2. txn'[s].at = "rolling" /\ txn'[s].holds = Selected(s) /\ OthersStay(s)
      BY <1>1, <3>1 DEF OthersStay
    <3>3. Selected(s) \in OpenSeasons
      BY <2>1, <2>2 DEF OpenSeasons
    <3> QED BY <2>1, <3>2, <3>3 DEF LocksSeason, Moves
  <2>3. CASE ~seasons[Selected(s)].open
    <3>1. Answers(s)
      BY <1>7, <2>3 DEF RollLocks
    <3> QED BY <1>4, <2>1, <3>1 DEF Moves
  <2> QED BY <2>2, <2>3
<1>8. CASE Fails(s)
  BY <1>4, <1>8 DEF Fails, Moves
<1> QED BY <1>2, <1>3, <1>5, <1>6, <1>7, <1>8

LEMMA CommitsOfOpeners ==
  ASSUME TypeOK, NEW s \in Staff, OpenCommits(s)
  PROVE  (Moves(s) /\ UNCHANGED league) \/ OpensRound(s)
<1>1. At(s, "checking") /\ LetsGo(s) /\ OthersStay(s) /\ txn[s] \in Checking
  BY Stages DEF TypeOK, OpenCommits, Answers, Becomes, LetsGo, OthersStay
<1>2. CASE OpenRounds # {}
  BY <1>1, <1>2 DEF OpenCommits, SeasonsLeft, Moves, league
<1>3. CASE OpenRounds = {}
  <2> DEFINE isNew == txn[s].fresh # "nothing"
             season == [league |-> IF txn[s].fresh = "league" THEN leagues + 1 ELSE 1, open |-> TRUE]
             round == [season |-> IF txn[s].fresh = "nothing" THEN txn[s].holds ELSE Len(seasons) + 1,
                       combo |-> txn[s].combo, prior |-> txn[s].prior,
                       amid |-> txn[s].amid, opened |-> txn[s].opened, closed |-> None,
                       began |-> None, finishers |-> <<>>, retired |-> {}]
  <2>1. season \in Season /\ season.open /\ season.league = IF txn[s].fresh = "league" THEN leagues + 1 ELSE 1
    BY DEF Season, TypeOK
  <2>2. round \in Round
    BY <1>1, LenProperties, EmptySeq DEF Round, Checking, TypeOK
  <2>3. /\ round.closed = None /\ round.prior = txn[s].prior /\ round.amid = txn[s].amid
        /\ round.combo = txn[s].combo /\ round.opened = txn[s].opened
        /\ round.season = IF txn[s].fresh = "nothing" THEN txn[s].holds ELSE Len(seasons) + 1
    OBVIOUS
  <2>4. /\ rounds' = Append(rounds, round)
        /\ own' = own /\ featured' = txn[s].combo
        /\ leagues' = IF txn[s].fresh = "league" THEN leagues + 1 ELSE leagues
        /\ seasons' = IF isNew THEN Append(seasons, season) ELSE seasons
    BY <1>3 DEF OpenCommits, SeasonCreated
  <2> HIDE DEF season, round
  <2>5. /\ Len(rounds) + 1 \notin DOMAIN rounds
        /\ DOMAIN rounds' = DOMAIN rounds \cup {Len(rounds) + 1}
        /\ \A m \in DOMAIN rounds : rounds'[m] = rounds[m]
        /\ rounds'[Len(rounds) + 1] = round
    BY <2>2, <2>4, RoundIsAdded
  <2>6. isNew => SeasonAdded(season.league) /\ \A i \in DOMAIN seasons : seasons'[i] = seasons[i]
    <3>1. seasons \in Seq(Season)
      BY DEF TypeOK
    <3> QED BY <2>1, <2>4, <3>1, SeasonIsAdded
  <2> QED BY <1>1, <1>3, <2>1, <2>3, <2>4, <2>5, <2>6 DEF OpensRound
<1> QED BY <1>2, <1>3

LEMMA CommitsOfClosers ==
  ASSUME TypeOK, RefersToRows, NEW s \in Staff, CloseCommits(s)
  PROVE  ClosesRound(s)
<1> DEFINE n == txn[s].round
<1>1. At(s, "closing") /\ LetsGo(s) /\ OthersStay(s) /\ txn[s] \in Closer /\ n \in DOMAIN rounds
  BY Stages DEF TypeOK, CloseCommits, Answers, Becomes, LetsGo, OthersStay, RefersToRows
<1>2. rounds[n] \in Round /\ txn[s].closed # None
  BY <1>1, LenProperties, ElementOfSeq, NoneIsNoNumber DEF TypeOK, Closer
<1> DEFINE ended == [rounds[n] EXCEPT !.closed = txn[s].closed]
<1>3. ended.closed = txn[s].closed /\ SameOpening(rounds[n], ended)
  BY <1>2 DEF Round, SameOpening
<1>4. rounds' = [rounds EXCEPT ![n] = ended]
  BY DEF CloseCommits
<1> HIDE DEF ended
<1>5. DOMAIN rounds' = DOMAIN rounds /\ rounds'[n] = ended /\ \A m \in DOMAIN rounds \ {n} : rounds'[m] = rounds[m]
  BY <1>1, <1>4
<1>6. featured' = rounds[n].prior /\ UNCHANGED <<leagues, seasons, own>>
  BY DEF CloseCommits
<1> QED BY <1>1, <1>2, <1>3, <1>5, <1>6 DEF ClosesRound

LEMMA CommitsOfRollers ==
  ASSUME TypeOK, RefersToRows, NEW s \in Staff, RollCommits(s)
  PROVE  (Moves(s) /\ UNCHANGED league) \/ RollsSeason(s)
<1> DEFINE i == txn[s].holds
           ended == [seasons[i] EXCEPT !.open = FALSE]
           old == [seasons EXCEPT ![i] = ended]
           season == [league |-> seasons[i].league, open |-> TRUE]
<1>1. At(s, "rolling") /\ LetsGo(s) /\ OthersStay(s) /\ i \in DOMAIN seasons
  BY DEF TypeOK, RollCommits, Answers, Becomes, LetsGo, OthersStay, RefersToRows
<1>2. UNCHANGED <<leagues, rounds, featured, own>>
  BY DEF RollCommits
<1>3. CASE OpenRounds # {}
  BY <1>1, <1>2, <1>3 DEF RollCommits, MayRoll, Moves, league
<1>4. CASE OpenRounds = {}
  <2>1. seasons[i] \in Season
    BY <1>1, LenProperties, ElementOfSeq DEF TypeOK
  <2>2. ended \in Season /\ ~ended.open /\ ended.league = seasons[i].league
    BY <2>1 DEF Season
  <2>3. season \in Season /\ season.open /\ season.league = seasons[i].league
    BY <2>1 DEF Season
  <2> HIDE DEF ended, season
  <2>4. /\ old \in Seq(Season) /\ Len(old) = Len(seasons)
        /\ old[i] = ended /\ \A j \in DOMAIN seasons \ {i} : old[j] = seasons[j]
    BY <1>1, <2>2, LenProperties, ExceptSeq DEF TypeOK
  <2>5. seasons' = Append(old, season)
    BY <1>4 DEF RollCommits, MayRoll, ended, season
  <2> HIDE DEF old
  <2>6. SeasonAdded(season.league) /\ \A j \in DOMAIN seasons : seasons'[j] = old[j]
    BY <2>3, <2>4, <2>5, SeasonIsAdded
  <2> QED BY <1>1, <1>2, <1>4, <2>2, <2>3, <2>4, <2>6 DEF RollsSeason
<1> QED BY <1>3, <1>4

LEMMA RaceSteps ==
  ASSUME TypeOK, NEW n \in OpenRounds, RaceBegins(n) \/ \E d \in Drivers : Finishes(n, d) \/ Retires(n, d)
  PROVE  UNCHANGED <<txn, leagues, seasons, featured, own>> /\ SameRounds
<1>1. n \in DOMAIN rounds /\ rounds[n] \in Round
  BY LenProperties, ElementOfSeq DEF TypeOK, OpenRounds
<1>2. ASSUME NEW round, rounds' = [rounds EXCEPT ![n] = round],
             SameOpening(rounds[n], round), round.closed = rounds[n].closed
      PROVE  SameRounds
  BY <1>1, <1>2 DEF SameRounds, SameOpening
<1>3. CASE RaceBegins(n)
  <2> DEFINE round == [rounds[n] EXCEPT !.began = clock + 1]
  <2>1. SameOpening(rounds[n], round) /\ round.closed = rounds[n].closed
    BY <1>1 DEF Round, SameOpening
  <2>2. rounds' = [rounds EXCEPT ![n] = round]
    BY <1>3 DEF RaceBegins
  <2> HIDE DEF round
  <2> QED BY <1>2, <1>3, <2>1, <2>2 DEF RaceBegins
<1>4. ASSUME NEW d \in Drivers, Finishes(n, d)
      PROVE  UNCHANGED <<txn, leagues, seasons, featured, own>> /\ SameRounds
  <2> DEFINE round == [rounds[n] EXCEPT !.finishers = Append(@, d)]
  <2>1. SameOpening(rounds[n], round) /\ round.closed = rounds[n].closed
    BY <1>1 DEF Round, SameOpening
  <2>2. rounds' = [rounds EXCEPT ![n] = round]
    BY <1>4 DEF Finishes
  <2> HIDE DEF round
  <2> QED BY <1>2, <1>4, <2>1, <2>2 DEF Finishes
<1>5. ASSUME NEW d \in Drivers, Retires(n, d)
      PROVE  UNCHANGED <<txn, leagues, seasons, featured, own>> /\ SameRounds
  <2> DEFINE round == [rounds[n] EXCEPT !.retired = @ \cup {d}]
  <2>1. SameOpening(rounds[n], round) /\ round.closed = rounds[n].closed
    BY <1>1 DEF Round, SameOpening
  <2>2. rounds' = [rounds EXCEPT ![n] = round]
    BY <1>5 DEF Retires
  <2> HIDE DEF round
  <2> QED BY <1>2, <1>5, <2>1, <2>2 DEF Retires
<1> QED BY <1>3, <1>4, <1>5

LEMMA StepEvolves ==
  ASSUME TypeOK, RefersToRows, [Next]_vars PROVE Evolves
<1>1. ASSUME UNCHANGED <<league, txn>> PROVE Evolves
  BY <1>1 DEF Evolves, league, SameRounds, SameOpening
<1>2. CASE UNCHANGED vars
  BY <1>1, <1>2 DEF vars
<1>3. ASSUME NEW d \in Drivers, NEW combo \in Combos, NEW time \in Times, NEW clean \in BOOLEAN,
             Drive(d, combo, time, clean)
      PROVE  Evolves
  BY <1>1, <1>3 DEF Drive
<1>4. ASSUME NEW l \in laps, JudgeLap(l) \/ StoreLap(l) \/ Rule(l) PROVE Evolves
  BY <1>1, <1>4 DEF JudgeLap, StoreLap, Rule
<1> QED
  BY <1>2, <1>3, <1>4, OpeningMoves, OtherMoves, CommitsOfOpeners, CommitsOfClosers, CommitsOfRollers, RaceSteps
  DEF Next, Evolves
-----------------------------------------------------------------------------
(* The inductive invariant.                                                *)

(* A season's lock has one holder, and a holder's season is open.          *)
LocksAreExclusive ==
  \A s, u \in Staff : Holds(s) /\ Holds(u) /\ txn[s].holds = txn[u].holds => s = u \/ txn[s].holds = NoSeason

HeldSeasonsAreOpen ==
  \A s \in Staff : Holds(s) /\ ~Fresh(s) => txn[s].holds \in OpenSeasons

FreshHoldNone == \A s \in Staff : Fresh(s) => txn[s].holds = NoSeason

(* A round is closed once.                                                 *)
ClosingIsExclusive ==
  /\ \A s \in Staff : At(s, "closing") => txn[s].round \in OpenRounds
  /\ \A s, u \in Staff : At(s, "closing") /\ At(u, "closing") /\ txn[s].round = txn[u].round => s = u

RoundsHaveSeasons == \A n \in DOMAIN rounds : rounds[n].season \in DOMAIN seasons

OpenRoundIsAlone == \A n, m \in OpenRounds : n = m

OpenRoundIsInSeason == \A n \in OpenRounds : rounds[n].season \in OpenSeasons

(* An opener that found no league was sent before any round closed.        *)
SentInThePast == \A s \in Staff : Stamped(s) => txn[s].opened <= clock

FoundersCameFirst ==
  \A s \in Staff : Founds(s) =>
    /\ \A n \in DOMAIN rounds : rounds[n].closed # None => rounds[n].closed > txn[s].opened
    /\ \A u \in Staff : txn[u].at \in {"close", "closing"} => txn[u].closed > txn[s].opened

(* No league without a round; an opener that creates a season in the first *)
(* league is alone, and finds none open there.                             *)
LeaguesHaveRounds ==
  /\ \A i \in DOMAIN seasons : seasons[i].league \in 1..leagues
  /\ leagues > 0 => DOMAIN rounds # {}

RenewersAreAlone ==
  /\ \A s \in Staff : Renews(s) => leagues > 0 /\ \A i \in OpenSeasons : seasons[i].league # 1
  /\ \A s, u \in Staff : Renews(s) /\ Renews(u) => s = u

SeasonsAreRun ==
  /\ \A i, j \in OpenSeasons : seasons[i].league = seasons[j].league => i = j
  /\ \A i \in DOMAIN seasons : \E n \in DOMAIN rounds :
       /\ seasons[rounds[n].season].league = seasons[i].league
       /\ seasons[i].league # 1 => Outlived(n)

(* The combos that are to be put back: with no round open when an opener   *)
(* read it, the venue's or one that another had already put back.          *)
Known(combo) == combo = own \/ FromAnotherRound(combo)

ReadAmid(prior, amid) ==
  IF amid = None THEN Known(prior) ELSE amid \in DOMAIN rounds /\ prior = rounds[amid].combo

CombosAreKnown ==
  /\ OpenRounds = {} => Known(featured)
  /\ \A n \in OpenRounds : featured = rounds[n].combo
  /\ \A n \in DOMAIN rounds : /\ Known(rounds[n].prior)
                              /\ rounds[n].amid # None => rounds[n].amid \in DOMAIN rounds
  /\ \A s \in Staff : At(s, "checking") => ReadAmid(txn[s].prior, txn[s].amid)

IInv ==
  /\ TypeOK /\ RefersToRows
  /\ LocksAreExclusive /\ HeldSeasonsAreOpen /\ FreshHoldNone
  /\ ClosingIsExclusive
  /\ RoundsHaveSeasons /\ OpenRoundIsAlone /\ OpenRoundIsInSeason
  /\ SentInThePast /\ FoundersCameFirst
  /\ LeaguesHaveRounds /\ RenewersAreAlone /\ SeasonsAreRun
  /\ CombosAreKnown

LEMMA InvInit == Init => IInv
<1> SUFFICES ASSUME Init PROVE IInv
  OBVIOUS
<1>1. TypeOK
  BY TypeInit
<1>2. \A s \in Staff : txn[s].at = "idle"
  BY DEF Init, Idle
<1>3. DOMAIN rounds = {} /\ DOMAIN seasons = {} /\ leagues = 0 /\ featured = own
  BY DEF Init
<1>4. OpenRounds = {} /\ OpenSeasons = {}
  BY <1>3 DEF OpenRounds, OpenSeasons
<1>5. RefersToRows /\ LocksAreExclusive /\ HeldSeasonsAreOpen /\ FreshHoldNone /\ ClosingIsExclusive
  BY <1>2 DEF RefersToRows, At, Holds, Fresh, LocksAreExclusive, HeldSeasonsAreOpen, FreshHoldNone,
              ClosingIsExclusive
<1>6. RoundsHaveSeasons /\ OpenRoundIsAlone /\ OpenRoundIsInSeason
  BY <1>3, <1>4 DEF RoundsHaveSeasons, OpenRoundIsAlone, OpenRoundIsInSeason
<1>7. SentInThePast /\ FoundersCameFirst /\ RenewersAreAlone
  BY <1>2 DEF SentInThePast, FoundersCameFirst, RenewersAreAlone, Stamped, Founds, Renews, Fresh
<1>8. LeaguesHaveRounds /\ SeasonsAreRun
  BY <1>3, <1>4 DEF LeaguesHaveRounds, SeasonsAreRun
<1>9. CombosAreKnown
  BY <1>2, <1>3, <1>4 DEF CombosAreKnown, Known, At
<1> QED BY <1>1, <1>5, <1>6, <1>7, <1>8, <1>9 DEF IInv

(* A step ends at most the season its own request holds, and only with no  *)
(* round open; a new season leaves the others as they are.                 *)
LEMMA SeasonsStep ==
  ASSUME TypeOK, RefersToRows, [Next]_vars
  PROVE  /\ DOMAIN seasons \subseteq DOMAIN seasons' /\ DOMAIN rounds \subseteq DOMAIN rounds'
         /\ \A i \in OpenSeasons :
              \/ i \in OpenSeasons'
              \/ /\ OpenRounds = {} /\ OpenRounds' = {}
                 /\ \E s \in Staff : At(s, "rolling") /\ txn[s].holds = i /\ LetsGo(s)
<1>1. Evolves
  BY StepEvolves
<1>2. CASE UNCHANGED <<txn, leagues, seasons, featured, own>> /\ SameRounds
  BY <1>2 DEF SameRounds, OpenSeasons
<1>3. CASE \E s \in Staff : Moves(s) /\ UNCHANGED league
  BY <1>3 DEF league, OpenSeasons
<1>4. ASSUME NEW s \in Staff, OpensRound(s)
      PROVE  DOMAIN seasons \subseteq DOMAIN seasons' /\ DOMAIN rounds \subseteq DOMAIN rounds'
             /\ OpenSeasons \subseteq OpenSeasons'
  BY <1>4 DEF OpensRound, OpenSeasons, SeasonAdded
<1>5. CASE \E s \in Staff : ClosesRound(s)
  BY <1>5 DEF ClosesRound, OpenSeasons
<1>6. ASSUME NEW s \in Staff, RollsSeason(s)
      PROVE  /\ DOMAIN seasons \subseteq DOMAIN seasons' /\ DOMAIN rounds \subseteq DOMAIN rounds'
             /\ \A i \in OpenSeasons : i \in OpenSeasons' \/ txn[s].holds = i
             /\ OpenRounds = {} /\ OpenRounds' = {} /\ At(s, "rolling") /\ LetsGo(s)
  BY <1>6 DEF RollsSeason, OpenSeasons, OpenRounds, SeasonAdded
<1> QED BY <1>1, <1>2, <1>3, <1>4, <1>5, <1>6 DEF Evolves

LEMMA RefersStep ==
  ASSUME TypeOK, RefersToRows, [Next]_vars PROVE RefersToRows'
<1>1. Evolves /\ DOMAIN seasons \subseteq DOMAIN seasons' /\ DOMAIN rounds \subseteq DOMAIN rounds'
  BY StepEvolves, SeasonsStep
<1>2. ASSUME NEW s \in Staff, txn'[s] = txn[s]
      PROVE  /\ At(s, "close")' \/ At(s, "closing")' => txn'[s].round \in DOMAIN rounds'
             /\ At(s, "locking")' \/ At(s, "relocking")' \/ At(s, "roll")' => txn'[s].wants \in DOMAIN seasons'
             /\ At(s, "rolling")' => txn'[s].holds \in DOMAIN seasons'
  BY <1>1, <1>2 DEF RefersToRows, At
<1>3. CASE UNCHANGED txn
  BY <1>2, <1>3 DEF RefersToRows
<1>4. ASSUME NEW s \in Staff, LetsGo(s), OthersStay(s) PROVE RefersToRows'
  BY <1>2, <1>4 DEF LetsGo, OthersStay, Idle, RefersToRows, At
<1>5. ASSUME NEW s \in Staff, Moves(s) PROVE RefersToRows'
  <2>1. OthersStay(s)
    BY <1>5 DEF Moves
  <2>2. CASE LetsGo(s)
    BY <1>4, <2>1, <2>2
  <2>3. CASE Asked(s) \/ Seeks(s) \/ TakesOpen(s) \/ TakesFresh(s) \/ Inserts(s)
    BY <1>1, <1>2, <2>1, <2>3 DEF OthersStay, Asked, Seeks, TakesOpen, TakesFresh, Inserts, RefersToRows, At, OpenSeasons
  <2>4. CASE AsksClose(s) \/ LocksRound(s)
    BY <1>1, <1>2, <2>1, <2>4 DEF OthersStay, AsksClose, LocksRound, RefersToRows, At, OpenRounds
  <2>5. CASE AsksRoll(s) \/ LocksSeason(s)
    BY <1>1, <1>2, <2>1, <2>5 DEF OthersStay, AsksRoll, LocksSeason, RefersToRows, At, OpenSeasons
  <2> QED BY <1>5, <2>2, <2>3, <2>4, <2>5 DEF Moves
<1>6. CASE \E s \in Staff : OpensRound(s) \/ ClosesRound(s) \/ RollsSeason(s)
  BY <1>4, <1>6 DEF OpensRound, ClosesRound, RollsSeason
<1> QED BY <1>1, <1>3, <1>5, <1>6 DEF Evolves

(* Who holds what, after a step.                                           *)
LEMMA HoldersStep ==
  ASSUME TypeOK, RefersToRows, [Next]_vars, NEW u \in Staff, Holds(u)'
  PROVE  \/ txn'[u] = txn[u]
         \/ /\ Holds(u) /\ Inserts(u) /\ OthersStay(u) /\ UNCHANGED league
         \/ /\ TakesOpen(u) \/ LocksSeason(u)
            /\ OthersStay(u) /\ UNCHANGED league
         \/ /\ TakesFresh(u) /\ OthersStay(u) /\ UNCHANGED league
<1>1. Evolves
  BY StepEvolves
<1>2. ASSUME NEW s \in Staff, OthersStay(s), txn'[s].at \notin {"inserting", "checking", "rolling"}
      PROVE  txn'[u] = txn[u]
  BY <1>2 DEF OthersStay, Holds
<1>3. ASSUME NEW s \in Staff, OthersStay(s), LetsGo(s) PROVE txn'[u] = txn[u]
  BY <1>2, <1>3 DEF LetsGo, Idle
<1>4. ASSUME NEW s \in Staff, Moves(s), txn'[u] # txn[u]
      PROVE  /\ s = u
             /\ Inserts(u) \/ TakesOpen(u) \/ LocksSeason(u) \/ TakesFresh(u)
  BY <1>2, <1>3, <1>4 DEF Moves, OthersStay, Asked, Seeks, AsksClose, LocksRound, AsksRoll
<1>5. ASSUME NEW s \in Staff, OpensRound(s) \/ ClosesRound(s) \/ RollsSeason(s) PROVE txn'[u] = txn[u]
  BY <1>3, <1>5 DEF OpensRound, ClosesRound, RollsSeason
<1>6. Inserts(u) => Holds(u)
  BY DEF Inserts, Holds, At
<1>7. \A s \in Staff : Moves(s) => OthersStay(s)
  BY DEF Moves
<1> QED BY <1>1, <1>4, <1>5, <1>6, <1>7 DEF Evolves

LEMMA NoSeasonIsNone == ASSUME TypeOK PROVE NoSeason \notin DOMAIN seasons
BY LenProperties DEF TypeOK, NoSeason

LEMMA LocksStep ==
  ASSUME IInv, [Next]_vars PROVE LocksAreExclusive' /\ FreshHoldNone'
<1> USE DEF IInv
<1>1. ASSUME NEW s \in Staff, NEW u \in Staff, Holds(s)', Holds(u)', txn'[s].holds = txn'[u].holds, s # u
      PROVE  txn'[s].holds = NoSeason
  <2>1. CASE txn'[s] = txn[s] /\ txn'[u] = txn[u]
    BY <1>1, <2>1 DEF LocksAreExclusive, Holds
  <2>2. ASSUME NEW v \in Staff, NEW w \in Staff, v # w, Holds(v)', Holds(w)', txn'[v] # txn[v],
               txn'[v].holds = txn'[w].holds
        PROVE  txn'[v].holds = NoSeason
    <3>1. \/ Holds(v) /\ Inserts(v) /\ OthersStay(v)
          \/ (TakesOpen(v) \/ LocksSeason(v)) /\ OthersStay(v)
          \/ TakesFresh(v)
      BY <2>2, HoldersStep
    <3>2. OthersStay(v) => Holds(w) /\ txn'[w] = txn[w]
      BY <2>2 DEF OthersStay, Holds
    <3>3. CASE Holds(v) /\ Inserts(v) /\ OthersStay(v)
      BY <2>2, <3>2, <3>3 DEF Inserts, LocksAreExclusive
    <3>4. CASE (TakesOpen(v) \/ LocksSeason(v)) /\ OthersStay(v)
      BY <2>2, <3>2, <3>4 DEF TakesOpen, LocksSeason, FreeOf
    <3>5. CASE TakesFresh(v)
      BY <3>5 DEF TakesFresh
    <3> QED BY <3>1, <3>3, <3>4, <3>5
  <2> QED BY <1>1, <2>1, <2>2
<1>2. ASSUME NEW s \in Staff, Fresh(s)' PROVE txn'[s].holds = NoSeason
  <2>1. Holds(s)'
    BY <1>2 DEF Fresh, Holds
  <2> QED BY <1>2, <2>1, HoldersStep DEF FreshHoldNone, Fresh, Holds, Inserts, TakesOpen, LocksSeason, TakesFresh, At
<1> QED BY <1>1, <1>2 DEF LocksAreExclusive, FreshHoldNone

(* No one ends the season another holds.                                   *)
LEMMA HeldStep ==
  ASSUME IInv, [Next]_vars PROVE HeldSeasonsAreOpen'
<1> USE DEF IInv
<1>1. SUFFICES ASSUME NEW s \in Staff, Holds(s)', ~Fresh(s)' PROVE txn'[s].holds \in OpenSeasons'
  BY DEF HeldSeasonsAreOpen
<1>2. CASE txn'[s] = txn[s]
  <2>1. Holds(s) /\ ~Fresh(s) /\ txn[s].holds \in OpenSeasons
    BY <1>1, <1>2 DEF Holds, Fresh, HeldSeasonsAreOpen
  <2>2. txn[s].holds # NoSeason
    BY <2>1, NoSeasonIsNone DEF OpenSeasons
  <2>3. ASSUME NEW v \in Staff, At(v, "rolling"), txn[v].holds = txn[s].holds, LetsGo(v) PROVE FALSE
    <3>1. v = s
      BY <2>1, <2>2, <2>3 DEF LocksAreExclusive, Holds, At
    <3> QED BY <1>1, <2>3, <3>1 DEF LetsGo, Idle, Holds
  <2> QED BY <1>2, <2>1, <2>3, SeasonsStep
<1>3. CASE Holds(s) /\ Inserts(s) /\ UNCHANGED league
  <2>1. ~Fresh(s) /\ OpenSeasons' = OpenSeasons /\ txn'[s].holds = txn[s].holds
    BY <1>1, <1>3 DEF Inserts, Fresh, league, OpenSeasons, At
  <2> QED BY <1>3, <2>1 DEF HeldSeasonsAreOpen
<1>4. CASE (TakesOpen(s) \/ LocksSeason(s)) /\ UNCHANGED league
  BY <1>4 DEF TakesOpen, LocksSeason, league, OpenSeasons
<1>5. CASE TakesFresh(s)
  BY <1>1, <1>5 DEF TakesFresh, Fresh
<1> QED BY <1>1, <1>2, <1>3, <1>4, <1>5, HoldersStep

(* What becomes of the open rounds.                                        *)
LEMMA OpenRoundsStep ==
  ASSUME TypeOK, RefersToRows, [Next]_vars
  PROVE  \/ OpenRounds' = OpenRounds /\ \A n \in DOMAIN rounds : rounds'[n].season = rounds[n].season
         \/ /\ OpenRounds = {} /\ OpenRounds' = {Len(rounds) + 1}
            /\ \E s \in Staff : OpensRound(s)
         \/ \E s \in Staff :
              /\ ClosesRound(s)
              /\ OpenRounds' = OpenRounds \ {txn[s].round}
              /\ \A n \in DOMAIN rounds : rounds'[n].season = rounds[n].season
<1>1. Evolves
  BY StepEvolves
<1>2. CASE SameRounds
  BY <1>2 DEF SameRounds, SameOpening, OpenRounds
<1>3. CASE UNCHANGED league
  BY <1>3 DEF league, OpenRounds
<1>4. ASSUME NEW s \in Staff, OpensRound(s) PROVE OpenRounds = {} /\ OpenRounds' = {Len(rounds) + 1}
  BY <1>4 DEF OpensRound, OpenRounds
<1>5. ASSUME NEW s \in Staff, ClosesRound(s)
      PROVE  OpenRounds' = OpenRounds \ {txn[s].round} /\ \A n \in DOMAIN rounds : rounds'[n].season = rounds[n].season
  BY <1>5 DEF ClosesRound, SameOpening, OpenRounds
<1>6. CASE \E s \in Staff : RollsSeason(s)
  BY <1>6 DEF RollsSeason, OpenRounds
<1> QED BY <1>1, <1>2, <1>3, <1>4, <1>5, <1>6 DEF Evolves

LEMMA ClosingStep ==
  ASSUME IInv, [Next]_vars PROVE ClosingIsExclusive'
<1> USE DEF IInv
<1>1. Evolves
  BY StepEvolves
<1>2. ASSUME UNCHANGED txn, OpenRounds' = OpenRounds PROVE ClosingIsExclusive'
  BY <1>2 DEF ClosingIsExclusive, At
<1>3. CASE UNCHANGED txn /\ SameRounds
  <2>1. OpenRounds' = OpenRounds
    BY <1>3 DEF SameRounds, OpenRounds
  <2> QED BY <1>2, <1>3, <2>1
<1>4. ASSUME NEW s \in Staff, Moves(s), UNCHANGED league PROVE ClosingIsExclusive'
  <2>1. OpenRounds' = OpenRounds /\ OthersStay(s)
    BY <1>4 DEF league, OpenRounds, Moves
  <2>2. CASE LocksRound(s)
    BY <2>1, <2>2 DEF LocksRound, Closing, OthersStay, ClosingIsExclusive, At
  <2>3. CASE txn'[s].at # "closing"
    BY <2>1, <2>3 DEF OthersStay, ClosingIsExclusive, At
  <2> QED BY <1>4, <2>2, <2>3 DEF Moves, LetsGo, Idle, Asked, Seeks, TakesOpen, TakesFresh, Inserts, AsksClose,
                                  AsksRoll, LocksSeason
<1>5. ASSUME NEW s \in Staff, OpensRound(s) PROVE ClosingIsExclusive'
  <2>1. OpenRounds = {} /\ OthersStay(s) /\ txn'[s].at = "idle"
    BY <1>5 DEF OpensRound, LetsGo, Idle
  <2> QED BY <2>1 DEF OthersStay, ClosingIsExclusive, At
<1>6. ASSUME NEW s \in Staff, ClosesRound(s) PROVE ClosingIsExclusive'
  <2>1. OpenRounds' = OpenRounds \ {txn[s].round} /\ OthersStay(s) /\ txn'[s].at = "idle" /\ At(s, "closing")
    BY <1>6 DEF ClosesRound, LetsGo, Idle, OpenRounds
  <2> QED BY <2>1 DEF OthersStay, ClosingIsExclusive, At
<1>7. ASSUME NEW s \in Staff, RollsSeason(s) PROVE ClosingIsExclusive'
  <2>1. OpenRounds' = OpenRounds /\ OthersStay(s) /\ txn'[s].at = "idle"
    BY <1>7 DEF RollsSeason, LetsGo, Idle, OpenRounds
  <2> QED BY <2>1 DEF OthersStay, ClosingIsExclusive, At
<1> QED BY <1>1, <1>3, <1>4, <1>5, <1>6, <1>7 DEF Evolves

LEMMA RoundsStep ==
  ASSUME IInv, [Next]_vars
  PROVE  RoundsHaveSeasons' /\ OpenRoundIsAlone' /\ OpenRoundIsInSeason'
<1> USE DEF IInv
<1>1. ASSUME NEW s \in Staff, OpensRound(s)
      PROVE  rounds'[Len(rounds) + 1].season \in OpenSeasons'
  <2>1. CASE txn[s].fresh = "nothing"
    <3>1. txn[s].holds \in OpenSeasons
      BY <1>1, <2>1 DEF OpensRound, HeldSeasonsAreOpen, Holds, Fresh, At
    <3> QED BY <1>1, <2>1, <3>1 DEF OpensRound, OpenSeasons
  <2>2. CASE txn[s].fresh # "nothing"
    BY <1>1, <2>2 DEF OpensRound, OpenSeasons, SeasonAdded
  <2> QED BY <2>1, <2>2
<1>2. RoundsHaveSeasons'
  <2>1. DOMAIN seasons \subseteq DOMAIN seasons' /\ Evolves
    BY SeasonsStep, StepEvolves
  <2>2. ASSUME NEW s \in Staff, OpensRound(s) PROVE RoundsHaveSeasons'
    BY <1>1, <2>1, <2>2 DEF OpensRound, RoundsHaveSeasons, OpenSeasons
  <2>3. CASE SameRounds
    BY <2>1, <2>3 DEF SameRounds, SameOpening, RoundsHaveSeasons
  <2>4. CASE UNCHANGED league
    BY <2>4 DEF league, RoundsHaveSeasons
  <2>5. ASSUME NEW s \in Staff, ClosesRound(s) \/ RollsSeason(s) PROVE RoundsHaveSeasons'
    BY <2>1, <2>5 DEF ClosesRound, SameOpening, RollsSeason, RoundsHaveSeasons
  <2> QED BY <2>1, <2>2, <2>3, <2>4, <2>5 DEF Evolves
<1>3. OpenRoundIsAlone'
  BY OpenRoundsStep DEF OpenRoundIsAlone
<1>4. OpenRoundIsInSeason'
  <2>1. CASE OpenRounds' \subseteq OpenRounds /\ \A n \in DOMAIN rounds : rounds'[n].season = rounds[n].season
    BY <2>1, SeasonsStep DEF OpenRoundIsInSeason, OpenRounds
  <2>2. CASE OpenRounds' = {Len(rounds) + 1} /\ \E s \in Staff : OpensRound(s)
    BY <1>1, <2>2 DEF OpenRoundIsInSeason
  <2> QED BY <2>1, <2>2, OpenRoundsStep
<1> QED BY <1>2, <1>3, <1>4

(* What a step leaves of the rounds and of the leagues.                    *)
LEMMA RowsStay ==
  ASSUME IInv, [Next]_vars
  PROVE  /\ own' = own /\ leagues <= leagues'
         /\ \A n \in DOMAIN rounds :
              /\ n \in DOMAIN rounds' /\ SameOpening(rounds[n], rounds'[n])
              /\ \/ rounds'[n].closed = rounds[n].closed
                 \/ /\ rounds[n].closed = None
                    /\ \E s \in Staff : At(s, "closing") /\ rounds'[n].closed = txn[s].closed
         /\ \A i \in DOMAIN seasons : i \in DOMAIN seasons' /\ seasons'[i].league = seasons[i].league
<1> USE DEF IInv
<1> DEFINE RowsKept ==
             /\ \A n \in DOMAIN rounds :
                  /\ n \in DOMAIN rounds' /\ SameOpening(rounds[n], rounds'[n])
                  /\ \/ rounds'[n].closed = rounds[n].closed
                     \/ /\ rounds[n].closed = None
                        /\ \E s \in Staff : At(s, "closing") /\ rounds'[n].closed = txn[s].closed
             /\ \A i \in DOMAIN seasons : i \in DOMAIN seasons' /\ seasons'[i].league = seasons[i].league
<1>1. Evolves
  BY StepEvolves
<1>2. own' = own /\ leagues <= leagues'
  <2>1. leagues \in Nat
    BY DEF TypeOK
  <2>2. own' = own /\ leagues' \in {leagues, leagues + 1}
    BY <1>1 DEF Evolves, OpensRound, ClosesRound, RollsSeason, league
  <2> QED BY <2>1, <2>2
<1>3. ASSUME UNCHANGED seasons, SameRounds PROVE RowsKept
  BY <1>3 DEF SameRounds
<1>4. ASSUME UNCHANGED league PROVE RowsKept
  BY <1>4 DEF league, SameOpening
<1>5. ASSUME NEW s \in Staff, OpensRound(s) PROVE RowsKept
  BY <1>5 DEF OpensRound, SeasonAdded, SameOpening
<1>6. ASSUME NEW s \in Staff, ClosesRound(s) PROVE RowsKept
  <2>1. rounds[txn[s].round].closed = None
    BY <1>6 DEF ClosesRound, ClosingIsExclusive, OpenRounds
  <2> QED BY <1>6, <2>1 DEF ClosesRound, SameOpening
<1>7. ASSUME NEW s \in Staff, RollsSeason(s) PROVE RowsKept
  BY <1>7 DEF RollsSeason, SeasonAdded, SameOpening
<1> QED BY <1>1, <1>2, <1>3, <1>4, <1>5, <1>6, <1>7 DEF Evolves

LEMMA TimePasses == TypeOK /\ [Next]_vars => clock <= clock'
<1> SUFFICES ASSUME [Next]_vars, TypeOK PROVE clock <= clock'
  OBVIOUS
<1>1. ASSUME NEW s \in Staff,
             \/ \E combo \in Combos : AskOpen(s, combo)
             \/ OpenSelects(s) \/ OpenLocks(s) \/ OpenCreates(s) \/ OpenRelocks(s)
             \/ OpenInserts(s) \/ OpenCommits(s)
      PROVE  clock' \in {clock, clock + 1}
  BY <1>1 DEF AskOpen, OpenSelects, OpenLocks, OpenCreates, OpenRelocks, OpenInserts, OpenCommits
<1>2. ASSUME NEW s \in Staff,
             \/ \E n \in OpenRounds : AskClose(s, n)
             \/ Closes(s) \/ CloseCommits(s) \/ AskRoll(s) \/ RollLocks(s) \/ RollCommits(s) \/ Fails(s)
      PROVE  clock' \in {clock, clock + 1}
  BY <1>2 DEF AskClose, Closes, CloseCommits, AskRoll, RollLocks, RollCommits, Fails
<1>3. ASSUME NEW l \in laps, JudgeLap(l) \/ StoreLap(l) \/ Rule(l) PROVE clock' \in {clock, clock + 1}
  BY <1>3 DEF JudgeLap, StoreLap, Rule
<1>4. ASSUME NEW d \in Drivers, NEW combo \in Combos, NEW time \in Times, NEW clean \in BOOLEAN,
             Drive(d, combo, time, clean)
      PROVE  clock' \in {clock, clock + 1}
  BY <1>4 DEF Drive
<1>5. ASSUME NEW n \in OpenRounds, RaceBegins(n) \/ \E d \in Drivers : Finishes(n, d) \/ Retires(n, d)
      PROVE  clock' \in {clock, clock + 1}
  BY <1>5 DEF RaceBegins, Finishes, Retires
<1>6. clock' \in {clock, clock + 1}
  BY <1>1, <1>2, <1>3, <1>4, <1>5 DEF Next, vars
<1> QED BY <1>6 DEF TypeOK

LEMMA SentStep ==
  ASSUME IInv, [Next]_vars PROVE SentInThePast'
<1> USE DEF IInv
<1>1. SUFFICES ASSUME NEW u \in Staff, Stamped(u)' PROVE txn'[u].opened <= clock'
  BY DEF SentInThePast
<1>2. clock \in Nat /\ clock' \in Nat /\ clock <= clock'
  BY TimePasses, TypeStep DEF TypeOK
<1>3. Stamped(u) => txn[u].opened \in Nat /\ txn[u].opened <= clock
  BY Stages DEF SentInThePast, Stamped, At, Seeking, Inserting, Checking
<1>4. \/ Stamped(u) /\ txn'[u].opened = txn[u].opened
      \/ txn'[u].opened = clock'
  <2>1. Evolves
    BY StepEvolves
  <2>2. ASSUME txn'[u] = txn[u] PROVE Stamped(u) /\ txn'[u].opened = txn[u].opened
    BY <1>1, <2>2 DEF Stamped
  <2>3. ASSUME NEW s \in Staff, OthersStay(s), LetsGo(s) PROVE txn'[u] = txn[u]
    BY <1>1, <2>3 DEF OthersStay, LetsGo, Idle, Stamped
  <2>4. ASSUME NEW s \in Staff, Moves(s), txn'[u] # txn[u]
        PROVE  s = u /\ (KeepsStamp(u) \/ txn'[u].opened = clock')
    <3>1. s = u
      BY <2>4 DEF Moves, OthersStay
    <3> QED BY <1>1, <2>4, <3>1 DEF Moves, LetsGo, Idle, Asked, Seeks, TakesOpen, TakesFresh, Inserts, AsksClose,
                                    LocksRound, AsksRoll, LocksSeason, Stamped
  <2> QED BY <2>1, <2>2, <2>3, <2>4 DEF Evolves, OpensRound, ClosesRound, RollsSeason, KeepsStamp
<1> QED BY <1>2, <1>3, <1>4

(* An opener that creates a season did so in an earlier step, or takes it. *)
LEMMA FreshStep ==
  ASSUME IInv, [Next]_vars, NEW u \in Staff, Fresh(u)'
  PROVE  \/ Fresh(u) /\ txn'[u].fresh = txn[u].fresh /\ txn'[u].opened = txn[u].opened
         \/ TakesFresh(u) /\ OthersStay(u) /\ UNCHANGED league
<1>1. Holds(u)'
  BY DEF Fresh, Holds
<1>2. TypeOK /\ RefersToRows
  BY DEF IInv
<1>3. CASE txn'[u] = txn[u]
  BY <1>3 DEF Fresh
<1>4. CASE Inserts(u)
  BY <1>4 DEF Inserts, KeepsStamp, Fresh, At
<1>5. TakesOpen(u) \/ LocksSeason(u) => FALSE
  BY DEF TakesOpen, LocksSeason, Fresh
<1> QED BY <1>1, <1>2, <1>3, <1>4, <1>5, HoldersStep

(* So with a request to close: it was sent before, or is sent now.         *)
LEMMA CloserStep ==
  ASSUME IInv, [Next]_vars, NEW u \in Staff, txn'[u].at \in {"close", "closing"}
  PROVE  \/ txn[u].at \in {"close", "closing"} /\ txn'[u].closed = txn[u].closed
         \/ OpenRounds # {} /\ txn'[u].closed = clock + 1
<1>1. Evolves
  BY StepEvolves DEF IInv
<1>2. ASSUME NEW s \in Staff, OthersStay(s), LetsGo(s) PROVE txn'[u] = txn[u]
  BY <1>2 DEF OthersStay, LetsGo, Idle
<1>3. ASSUME NEW s \in Staff, Moves(s), txn'[u] # txn[u]
      PROVE  s = u /\ (AsksClose(u) \/ LocksRound(u))
  <2>1. s = u
    BY <1>3 DEF Moves, OthersStay
  <2> QED BY <1>3, <2>1 DEF Moves, LetsGo, Idle, Asked, Seeks, TakesOpen, TakesFresh, Inserts, AsksRoll, LocksSeason
<1>4. CASE AsksClose(u)
  BY <1>4 DEF AsksClose
<1>5. CASE LocksRound(u)
  BY <1>5 DEF LocksRound, At
<1> QED BY <1>1, <1>2, <1>3, <1>4, <1>5 DEF Evolves, OpensRound, ClosesRound, RollsSeason

LEMMA NoLeagueNoRound == ASSUME IInv, leagues = 0 PROVE DOMAIN rounds = {}
<1>1. DOMAIN seasons = {}
  BY DEF IInv, LeaguesHaveRounds
<1> QED BY <1>1 DEF IInv, RoundsHaveSeasons

LEMMA FoundersStep ==
  ASSUME IInv, [Next]_vars PROVE FoundersCameFirst'
<1>1. SUFFICES ASSUME NEW s \in Staff, Founds(s)'
               PROVE  /\ \A n \in DOMAIN rounds' : rounds'[n].closed # None => rounds'[n].closed > txn'[s].opened
                      /\ \A u \in Staff : txn'[u].at \in {"close", "closing"} => txn'[u].closed > txn'[s].opened
  BY DEF FoundersCameFirst
<1>2. Fresh(s)' /\ TypeOK /\ RefersToRows /\ clock \in Nat
  BY <1>1 DEF Founds, IInv, TypeOK
<1>3. CASE Fresh(s) /\ txn'[s].fresh = txn[s].fresh /\ txn'[s].opened = txn[s].opened
  <2>1. Founds(s)
    BY <1>1, <1>3 DEF Founds
  <2>2. txn[s].opened \in Nat /\ txn[s].opened <= clock
    BY <1>2, <1>3, Stages DEF Fresh, Stamped, At, Inserting, Checking, SentInThePast, IInv
  <2>3. ASSUME NEW n \in DOMAIN rounds', rounds'[n].closed # None PROVE rounds'[n].closed > txn[s].opened
    <3>1. n \in DOMAIN rounds
      <4>1. \A u \in Staff : OpensRound(u) => n \in DOMAIN rounds
        BY <2>3 DEF OpensRound
      <4>2. Evolves
        BY <1>2, StepEvolves
      <4> QED BY <2>3, <4>1, <4>2 DEF Evolves, SameRounds, league, ClosesRound, RollsSeason
    <3>2. CASE rounds'[n].closed = rounds[n].closed
      BY <2>1, <2>3, <3>1, <3>2 DEF FoundersCameFirst, IInv
    <3>3. ASSUME NEW u \in Staff, At(u, "closing"), rounds'[n].closed = txn[u].closed
          PROVE  rounds'[n].closed > txn[s].opened
      BY <2>1, <3>3 DEF FoundersCameFirst, IInv, At
    <3> QED BY <3>1, <3>2, <3>3, RowsStay
  <2>4. ASSUME NEW u \in Staff, txn'[u].at \in {"close", "closing"} PROVE txn'[u].closed > txn[s].opened
    <3>1. CASE txn[u].at \in {"close", "closing"} /\ txn'[u].closed = txn[u].closed
      BY <2>1, <3>1 DEF FoundersCameFirst, IInv
    <3>2. CASE txn'[u].closed = clock + 1
      BY <1>2, <2>2, <3>2
    <3> QED BY <2>4, <3>1, <3>2, CloserStep
  <2> QED BY <1>3, <2>3, <2>4
<1>4. CASE TakesFresh(s) /\ OthersStay(s) /\ UNCHANGED league
  <2>1. leagues = 0
    BY <1>1, <1>4 DEF TakesFresh, Founds
  <2>2. DOMAIN rounds = {} /\ DOMAIN rounds' = {}
    BY <1>4, <2>1, NoLeagueNoRound DEF league
  <2>3. ASSUME NEW u \in Staff, txn'[u].at \in {"close", "closing"} PROVE FALSE
    <3>1. u # s /\ txn[u].at \in {"close", "closing"}
      BY <1>4, <2>3 DEF TakesFresh, OthersStay
    <3> QED BY <1>2, <2>2, <3>1 DEF RefersToRows, At
  <2> QED BY <2>2, <2>3
<1> QED BY <1>2, <1>3, <1>4, FreshStep

(* A season that is added is one a roll or an opener made.                 *)
LEMMA NewSeasons ==
  ASSUME IInv, [Next]_vars
  PROVE  \/ DOMAIN seasons' = DOMAIN seasons /\ OpenSeasons' \subseteq OpenSeasons
         \/ \E s \in Staff : OpensRound(s) /\ Fresh(s)
         \/ \E s \in Staff : RollsSeason(s)
<1>1. Evolves
  BY StepEvolves DEF IInv
<1>2. CASE UNCHANGED seasons
  BY <1>2 DEF OpenSeasons
<1>3. ASSUME NEW s \in Staff, OpensRound(s), ~Fresh(s)
      PROVE  DOMAIN seasons' = DOMAIN seasons /\ OpenSeasons' \subseteq OpenSeasons
  BY <1>3 DEF OpensRound, Fresh, OpenSeasons, At
<1> QED BY <1>1, <1>2, <1>3 DEF Evolves, league, ClosesRound

LEMMA FreshIs ==
  ASSUME IInv, NEW s \in Staff, Fresh(s) PROVE Founds(s) \/ Renews(s)
BY Stages DEF IInv, Fresh, At, Inserting, Checking, Founds, Renews

(* What an opener creates is open, in a league with no open season.        *)
LEMMA SeasonOfOpener ==
  ASSUME IInv, NEW s \in Staff, OpensRound(s), Fresh(s)
  PROVE  /\ leagues \in Nat
         /\ SeasonAdded(IF Founds(s) THEN leagues + 1 ELSE 1)
         /\ leagues' = IF Founds(s) THEN leagues + 1 ELSE leagues
         /\ ~Founds(s) => leagues > 0 /\ \A i \in OpenSeasons : seasons[i].league # 1
         /\ \A i \in OpenSeasons : seasons[i].league \in 1..leagues
         /\ \A i \in DOMAIN seasons : seasons'[i] = seasons[i]
         /\ rounds'[Len(rounds) + 1].season = Len(seasons) + 1
         /\ DOMAIN rounds' = DOMAIN rounds \cup {Len(rounds) + 1}
<1>1. (txn[s].fresh = "league") = Founds(s) /\ (~Founds(s) => Renews(s)) /\ txn[s].fresh # "nothing"
  BY FreshIs DEF Founds, Fresh
<1> QED BY <1>1 DEF OpensRound, IInv, TypeOK, RenewersAreAlone, LeaguesHaveRounds, OpenSeasons

LEMMA SeasonOfRoll ==
  ASSUME IInv, NEW s \in Staff, RollsSeason(s)
  PROVE  /\ txn[s].holds \in OpenSeasons /\ txn[s].holds \in DOMAIN seasons
         /\ txn[s].holds \notin OpenSeasons'
BY DEF RollsSeason, IInv, HeldSeasonsAreOpen, Holds, Fresh, At, OpenSeasons

LEMMA LeaguesStep ==
  ASSUME IInv, [Next]_vars PROVE LeaguesHaveRounds'
<1>1. leagues \in Nat /\ leagues' \in Nat /\ leagues <= leagues'
  BY RowsStay, TypeStep DEF IInv, TypeOK
<1>2. \A i \in DOMAIN seasons : seasons'[i].league \in 1..leagues'
  BY <1>1, RowsStay DEF IInv, LeaguesHaveRounds
<1>3. DOMAIN rounds # {} => DOMAIN rounds' # {}
  BY RowsStay
<1>4. ASSUME NEW s \in Staff, OpensRound(s), Fresh(s) PROVE LeaguesHaveRounds'
  BY <1>1, <1>2, <1>4, SeasonOfOpener DEF LeaguesHaveRounds, SeasonAdded
<1>5. ASSUME NEW s \in Staff, RollsSeason(s) PROVE LeaguesHaveRounds'
  <2>1. seasons[txn[s].holds].league \in 1..leagues' /\ leagues' = leagues
    BY <1>5, SeasonOfRoll DEF RollsSeason, IInv, LeaguesHaveRounds
  <2> QED BY <1>2, <1>3, <1>5, <2>1 DEF RollsSeason, SeasonAdded, IInv, LeaguesHaveRounds
<1>6. ASSUME DOMAIN seasons' = DOMAIN seasons, \A s \in Staff : ~(OpensRound(s) /\ Fresh(s)) PROVE LeaguesHaveRounds'
  <2>1. leagues' = leagues \/ DOMAIN rounds' # {}
    BY StepEvolves DEF IInv, Evolves, league, OpensRound, ClosesRound, RollsSeason
  <2> QED BY <1>2, <1>3, <1>6, <2>1 DEF IInv, LeaguesHaveRounds
<1> QED BY <1>4, <1>5, <1>6, NewSeasons

LEMMA RenewersStep ==
  ASSUME IInv, [Next]_vars PROVE RenewersAreAlone'
<1>1. leagues \in Nat /\ leagues' \in Nat /\ leagues <= leagues' /\ Evolves
  BY RowsStay, TypeStep, StepEvolves DEF IInv, TypeOK
<1>2. ASSUME NEW s \in Staff, Renews(s)'
      PROVE  \/ Renews(s)
             \/ TakesFresh(s) /\ txn'[s].fresh = "season" /\ OthersStay(s) /\ UNCHANGED league
  BY <1>2, FreshStep DEF Renews
<1>3. ASSUME NEW s \in Staff, Renews(s)' PROVE leagues' > 0 /\ \A i \in OpenSeasons' : seasons'[i].league # 1
  <2>1. CASE Renews(s)
    <3>1. leagues > 0 /\ \A i \in OpenSeasons : seasons[i].league # 1
      BY <2>1 DEF IInv, RenewersAreAlone
    <3>2. CASE DOMAIN seasons' = DOMAIN seasons /\ OpenSeasons' \subseteq OpenSeasons
      BY <1>1, <3>1, <3>2, RowsStay DEF OpenSeasons
    <3>3. ASSUME NEW u \in Staff, OpensRound(u), Fresh(u)
          PROVE  \A i \in OpenSeasons' : seasons'[i].league # 1
      <4>1. Founds(u)
        <5>1. u = s => txn'[s] = Idle
          BY <3>3 DEF OpensRound, LetsGo
        <5>2. u # s
          BY <1>3, <5>1 DEF Renews, Fresh, Idle
        <5> QED BY <2>1, <3>3, <5>2, FreshIs DEF IInv, RenewersAreAlone
      <4>2. leagues + 1 # 1
        BY <1>1, <3>1
      <4> QED BY <3>1, <3>3, <4>1, <4>2, SeasonOfOpener DEF SeasonAdded, OpenSeasons
    <3>4. ASSUME NEW u \in Staff, RollsSeason(u) PROVE \A i \in OpenSeasons' : seasons'[i].league # 1
      <4>1. seasons[txn[u].holds].league # 1
        BY <3>1, <3>4, SeasonOfRoll
      <4> QED BY <3>1, <3>4, <4>1, SeasonOfRoll DEF RollsSeason, SeasonAdded, OpenSeasons
    <3> QED BY <1>1, <3>1, <3>2, <3>3, <3>4, NewSeasons
  <2>2. CASE TakesFresh(s) /\ txn'[s].fresh = "season" /\ UNCHANGED league
    BY <2>2 DEF TakesFresh, league, OpenSeasons
  <2> QED BY <1>2, <1>3, <2>1, <2>2
<1>4. ASSUME NEW s \in Staff, NEW u \in Staff, Renews(s)', Renews(u)', s # u PROVE FALSE
  <2>1. ASSUME NEW v \in Staff, NEW w \in Staff, v # w, Renews(w)',
               TakesFresh(v), txn'[v].fresh = "season", OthersStay(v)
        PROVE  FALSE
    BY <2>1 DEF TakesFresh, OthersStay, Renews, Fresh
  <2> QED BY <1>2, <1>4, <2>1 DEF IInv, RenewersAreAlone
<1> QED BY <1>3, <1>4 DEF RenewersAreAlone

LEMMA RunStep ==
  ASSUME IInv, [Next]_vars PROVE SeasonsAreRun'
<1> DEFINE OutlivedNext(n) == \E m \in 1..(n - 1) : rounds'[m].closed # None /\ rounds'[m].closed > rounds'[n].opened
           HasRound(i) == \E n \in DOMAIN rounds' :
                             /\ seasons'[rounds'[n].season].league = seasons'[i].league
                             /\ seasons'[i].league # 1 => OutlivedNext(n)
<1>1. ASSUME NEW n \in DOMAIN rounds, Outlived(n) PROVE OutlivedNext(n)
  <2>1. PICK m \in 1..(n - 1) : rounds[m].closed # None /\ rounds[m].closed > rounds[n].opened
    BY <1>1 DEF Outlived
  <2>2. m \in DOMAIN rounds
    BY <1>1, <2>1, LenProperties DEF IInv, TypeOK
  <2>3. rounds'[m].closed = rounds[m].closed /\ rounds'[n].opened = rounds[n].opened
    BY <1>1, <2>1, <2>2, RowsStay DEF SameOpening
  <2> QED BY <2>1, <2>3
<1>2. ASSUME NEW i \in DOMAIN seasons, NEW j \in DOMAIN seasons', seasons'[j].league = seasons[i].league
      PROVE  HasRound(j)
  <2>1. PICK n \in DOMAIN rounds : /\ seasons[rounds[n].season].league = seasons[i].league
                                   /\ seasons[i].league # 1 => Outlived(n)
    BY DEF IInv, SeasonsAreRun
  <2>2. rounds[n].season \in DOMAIN seasons
    BY DEF IInv, RoundsHaveSeasons
  <2>3. n \in DOMAIN rounds' /\ seasons'[rounds'[n].season].league = seasons[i].league
    BY <2>1, <2>2, RowsStay DEF SameOpening
  <2> QED BY <1>1, <1>2, <2>1, <2>3
<1>3. \A i \in DOMAIN seasons : HasRound(i)
  <2> HIDE DEF HasRound
  <2> QED BY <1>2, RowsStay
<1>4. CASE DOMAIN seasons' = DOMAIN seasons /\ OpenSeasons' \subseteq OpenSeasons
  <2>1. \A i, j \in OpenSeasons' : seasons'[i].league = seasons'[j].league => i = j
    BY <1>4, RowsStay DEF IInv, SeasonsAreRun, OpenSeasons
  <2> QED BY <1>3, <1>4, <2>1 DEF SeasonsAreRun, Outlived
<1>5. ASSUME NEW s \in Staff, OpensRound(s), Fresh(s) PROVE SeasonsAreRun'
  <2> DEFINE new == Len(seasons) + 1
             n == Len(rounds) + 1
  <2>1. /\ leagues \in Nat /\ SeasonAdded(IF Founds(s) THEN leagues + 1 ELSE 1)
        /\ ~Founds(s) => leagues > 0 /\ \A i \in OpenSeasons : seasons[i].league # 1
        /\ \A i \in OpenSeasons : seasons[i].league \in 1..leagues
        /\ \A i \in DOMAIN seasons : seasons'[i] = seasons[i]
        /\ rounds'[n].season = new
        /\ DOMAIN rounds' = DOMAIN rounds \cup {n}
    BY <1>5, SeasonOfOpener
  <2>2. OpenSeasons' = OpenSeasons \cup {new} /\ \A i \in OpenSeasons : seasons[i].league # seasons'[new].league
    BY <2>1 DEF SeasonAdded, OpenSeasons
  <2>3. \A i, j \in OpenSeasons' : seasons'[i].league = seasons'[j].league => i = j
    BY <2>1, <2>2 DEF IInv, SeasonsAreRun, OpenSeasons
  <2>4. seasons'[new].league # 1 => OutlivedNext(n)
    <3>1. SUFFICES ASSUME seasons'[new].league # 1 PROVE OutlivedNext(n)
      OBVIOUS
    <3>2. Founds(s) /\ leagues > 0
      BY <2>1, <3>1 DEF SeasonAdded
    <3>3. PICK m \in DOMAIN rounds : TRUE
      BY <3>2 DEF IInv, LeaguesHaveRounds
    <3>4. rounds[m].closed # None /\ rounds[m].closed > txn[s].opened
      BY <1>5, <3>2 DEF OpensRound, OpenRounds, IInv, FoundersCameFirst
    <3>5. m \in 1..(n - 1)
      BY LenProperties DEF IInv, TypeOK
    <3>6. rounds'[m].closed = rounds[m].closed /\ rounds'[n].opened = txn[s].opened
      BY <1>5 DEF OpensRound
    <3> QED BY <3>4, <3>5, <3>6
  <2>5. HasRound(new)
    BY <2>1, <2>4
  <2>6. DOMAIN seasons' = DOMAIN seasons \cup {new}
    BY <2>1 DEF SeasonAdded
  <2> QED BY <1>3, <2>3, <2>5, <2>6 DEF SeasonsAreRun, Outlived
<1>6. ASSUME NEW s \in Staff, RollsSeason(s) PROVE SeasonsAreRun'
  <2> DEFINE new == Len(seasons) + 1
             i == txn[s].holds
  <2>1. i \in OpenSeasons /\ i \in DOMAIN seasons /\ i \notin OpenSeasons'
    BY <1>6, SeasonOfRoll
  <2>2. /\ SeasonAdded(seasons[i].league)
        /\ \A j \in DOMAIN seasons \ {i} : seasons'[j] = seasons[j]
    BY <1>6 DEF RollsSeason
  <2>3. OpenSeasons' = (OpenSeasons \ {i}) \cup {new} /\ new \notin DOMAIN seasons
    BY <2>1, <2>2 DEF SeasonAdded, OpenSeasons
  <2>4. \A j \in OpenSeasons \ {i} : seasons'[j].league = seasons[j].league /\ seasons[j].league # seasons'[new].league
    BY <2>1, <2>2 DEF SeasonAdded, OpenSeasons, IInv, SeasonsAreRun
  <2>5. \A j, k \in OpenSeasons' : seasons'[j].league = seasons'[k].league => j = k
    BY <2>3, <2>4 DEF IInv, SeasonsAreRun
  <2>6. HasRound(new) /\ DOMAIN seasons' = DOMAIN seasons \cup {new}
    <3> HIDE DEF HasRound
    <3> QED BY <1>2, <2>1, <2>2 DEF SeasonAdded
  <2> QED BY <1>3, <2>5, <2>6 DEF SeasonsAreRun, Outlived
<1> QED BY <1>4, <1>5, <1>6, NewSeasons

LEMMA KnownStays ==
  ASSUME IInv, [Next]_vars, NEW CONSTANT combo, Known(combo) PROVE Known(combo)'
<1>1. CASE combo = own
  BY <1>1, RowsStay DEF Known
<1>2. ASSUME NEW n \in DOMAIN rounds, rounds[n].amid # None, combo = rounds[rounds[n].amid].combo
      PROVE  Known(combo)'
  <2>1. rounds[n].amid \in DOMAIN rounds
    BY <1>2 DEF IInv, CombosAreKnown
  <2>2. /\ n \in DOMAIN rounds' /\ rounds'[n].amid = rounds[n].amid
        /\ rounds'[rounds[n].amid].combo = combo
    BY <1>2, <2>1, RowsStay DEF SameOpening
  <2> QED BY <1>2, <2>2 DEF Known, FromAnotherRound
<1> QED BY <1>1, <1>2 DEF Known, FromAnotherRound

LEMMA CombosStep ==
  ASSUME IInv, [Next]_vars PROVE CombosAreKnown'
<1> DEFINE KnownNext(combo) ==
             combo = own' \/ \E n \in DOMAIN rounds' : /\ rounds'[n].amid # None
                                                       /\ combo = rounds'[rounds'[n].amid].combo
           Prior(u) == IF txn'[u].amid = None THEN KnownNext(txn'[u].prior)
                       ELSE txn'[u].amid \in DOMAIN rounds' /\ txn'[u].prior = rounds'[txn'[u].amid].combo
<1>1. ASSUME NEW CONSTANT combo, Known(combo) PROVE KnownNext(combo)
  BY <1>1, KnownStays DEF Known, FromAnotherRound
<1>2. \A combo : Known(combo) => KnownNext(combo)
  BY <1>1
<1>3. TypeOK /\ RefersToRows /\ Evolves /\ CombosAreKnown
  BY StepEvolves DEF IInv
<1>4. OpenRounds' = {} => KnownNext(featured')
  <2>1. CASE OpenRounds' = OpenRounds /\ featured' = featured
    <3> HIDE DEF KnownNext
    <3> QED BY <1>2, <1>3, <2>1 DEF CombosAreKnown
  <2>2. ASSUME NEW s \in Staff, ClosesRound(s) PROVE KnownNext(featured')
    <3>1. Known(rounds[txn[s].round].prior) /\ featured' = rounds[txn[s].round].prior
      BY <1>3, <2>2 DEF ClosesRound, CombosAreKnown
    <3> HIDE DEF KnownNext
    <3> QED BY <1>2, <3>1
  <2>3. ASSUME NEW s \in Staff, OpensRound(s) PROVE OpenRounds' # {}
    BY <2>3 DEF OpensRound, OpenRounds
  <2>4. SameRounds => OpenRounds' = OpenRounds
    BY DEF SameRounds, OpenRounds
  <2>5. UNCHANGED rounds => OpenRounds' = OpenRounds
    BY DEF OpenRounds
  <2> HIDE DEF KnownNext
  <2> QED BY <1>3, <2>1, <2>2, <2>3, <2>4, <2>5 DEF Evolves, league, RollsSeason
<1>5. \A n \in OpenRounds' : featured' = rounds'[n].combo
  <2>1. CASE SameRounds /\ featured' = featured
    BY <1>3, <2>1 DEF SameRounds, SameOpening, OpenRounds, CombosAreKnown
  <2>2. CASE UNCHANGED <<rounds, featured>>
    BY <1>3, <2>2 DEF OpenRounds, CombosAreKnown
  <2>3. ASSUME NEW s \in Staff, OpensRound(s) PROVE \A n \in OpenRounds' : featured' = rounds'[n].combo
    BY <2>3 DEF OpensRound, OpenRounds
  <2>4. ASSUME NEW s \in Staff, ClosesRound(s) PROVE OpenRounds' = {}
    <3>1. txn[s].round \in OpenRounds
      BY <2>4 DEF ClosesRound, IInv, ClosingIsExclusive
    <3> QED BY <2>4, <3>1 DEF ClosesRound, OpenRounds, IInv, OpenRoundIsAlone
  <2> QED BY <1>3, <2>1, <2>2, <2>3, <2>4 DEF Evolves, league, RollsSeason
<1>6. ASSUME NEW u \in Staff, At(u, "checking") PROVE
        IF txn[u].amid = None THEN KnownNext(txn[u].prior)
        ELSE txn[u].amid \in DOMAIN rounds' /\ txn[u].prior = rounds'[txn[u].amid].combo
  <2>1. ReadAmid(txn[u].prior, txn[u].amid)
    BY <1>3, <1>6 DEF CombosAreKnown
  <2>2. txn[u].amid = None => KnownNext(txn[u].prior)
    <3> HIDE DEF KnownNext
    <3> QED BY <1>2, <2>1 DEF ReadAmid
  <2>3. txn[u].amid # None => txn[u].amid \in DOMAIN rounds' /\ txn[u].prior = rounds'[txn[u].amid].combo
    BY <2>1, RowsStay DEF ReadAmid, SameOpening
  <2> HIDE DEF KnownNext
  <2> QED BY <2>2, <2>3
<1>7. ASSUME NEW n \in DOMAIN rounds'
      PROVE  KnownNext(rounds'[n].prior) /\ (rounds'[n].amid # None => rounds'[n].amid \in DOMAIN rounds')
  <2>1. CASE n \in DOMAIN rounds
    <3>1. /\ Known(rounds[n].prior) /\ rounds'[n].prior = rounds[n].prior
          /\ rounds[n].amid # None => rounds[n].amid \in DOMAIN rounds
          /\ rounds'[n].amid = rounds[n].amid
      BY <1>3, <2>1, RowsStay DEF CombosAreKnown, SameOpening
    <3>2. rounds'[n].amid # None => rounds'[n].amid \in DOMAIN rounds'
      BY <3>1, RowsStay
    <3> HIDE DEF KnownNext
    <3> QED BY <1>2, <3>1, <3>2
  <2>2. CASE n \notin DOMAIN rounds
    <3>1. PICK s \in Staff : OpensRound(s)
      BY <1>3, <1>7, <2>2 DEF Evolves, SameRounds, league, ClosesRound, RollsSeason
    <3>2. At(s, "checking") /\ rounds'[n].prior = txn[s].prior /\ rounds'[n].amid = txn[s].amid
      BY <1>7, <2>2, <3>1 DEF OpensRound
    <3>3. CASE txn[s].amid = None
      <4> HIDE DEF KnownNext
      <4> QED BY <1>6, <3>2, <3>3
    <3>4. CASE txn[s].amid # None
      <4>1. txn[s].amid \in DOMAIN rounds' /\ txn[s].prior = rounds'[txn[s].amid].combo
        <5> HIDE DEF KnownNext
        <5> QED BY <1>6, <3>2, <3>4
      <4> QED BY <1>7, <3>2, <3>4, <4>1
    <3> QED BY <3>3, <3>4
  <2> QED BY <2>1, <2>2
<1>8. ASSUME NEW u \in Staff, At(u, "checking")' PROVE Prior(u)
  <2>1. Holds(u)' /\ txn'[u].at = "checking"
    BY <1>8 DEF Holds, At
  <2>2. CASE txn'[u] = txn[u]
    <3>1. At(u, "checking")
      BY <2>1, <2>2 DEF At
    <3> HIDE DEF KnownNext
    <3> QED BY <1>6, <2>2, <3>1
  <2>3. CASE Inserts(u)
    <3>1. txn'[u].prior = featured /\ txn'[u].amid = TonightsRound
      BY <2>3 DEF Inserts
    <3>2. CASE OpenRounds = {}
      <4>1. TonightsRound = None /\ Known(featured)
        BY <1>3, <3>2, TonightIsARound DEF CombosAreKnown
      <4> HIDE DEF KnownNext
      <4> QED BY <1>2, <3>1, <4>1
    <3>3. CASE OpenRounds # {}
      <4>1. TonightsRound \in OpenRounds /\ featured = rounds[TonightsRound].combo /\ TonightsRound \in DOMAIN rounds
        BY <1>3, <3>3, TonightIsARound DEF CombosAreKnown, OpenRounds
      <4>2. TonightsRound # None
        BY <1>3, <4>1, NoneIsNoNumber, LenProperties DEF TypeOK
      <4>3. TonightsRound \in DOMAIN rounds' /\ rounds'[TonightsRound].combo = featured
        BY <4>1, RowsStay DEF SameOpening
      <4> HIDE DEF KnownNext
      <4> QED BY <3>1, <4>2, <4>3
    <3> QED BY <3>2, <3>3
  <2>4. TakesOpen(u) \/ LocksSeason(u) \/ TakesFresh(u) => FALSE
    BY <2>1 DEF TakesOpen, LocksSeason, TakesFresh
  <2> HIDE DEF Prior
  <2> QED BY <1>3, <2>1, <2>2, <2>3, <2>4, HoldersStep
<1> QED BY <1>4, <1>5, <1>7, <1>8 DEF CombosAreKnown, Known, FromAnotherRound, ReadAmid

LEMMA InvStep == IInv /\ [Next]_vars => IInv'
BY TypeStep, RefersStep, LocksStep, HeldStep, ClosingStep, RoundsStep, SentStep, FoundersStep, LeaguesStep,
   RenewersStep, RunStep, CombosStep
DEF IInv

LEMMA Invariance == Spec => []IInv
<1>1. Init => IInv
  BY InvInit
<1> QED BY <1>1, InvStep, PTL DEF Spec
-----------------------------------------------------------------------------
(* What it all comes to.                                                   *)

LEMMA AtMostOne ==
  ASSUME NEW S, \A x, y \in S : x = y PROVE Cardinality(S) <= 1
<1>1. CASE S = {}
  BY <1>1, FS_EmptySet
<1>2. CASE S # {}
  <2>1. PICK x \in S : TRUE
    BY <1>2
  <2>2. S = {x}
    BY <2>1
  <2>3. Cardinality({x}) = 1
    BY FS_Singleton
  <2> QED BY <2>2, <2>3
<1> QED BY <1>1, <1>2

(* Every row and every request keeps its type: no request refers to a      *)
(* round or season that is not there (lib/league-queries.ts).              *)
THEOREM TypeCorrect == Spec => [](TypeOK /\ RefersToRows)
<1>1. IInv => TypeOK /\ RefersToRows
  BY DEF IInv
<1> QED BY <1>1, Invariance, PTL

(* Whatever staff do at the same time, at most one round is open and it    *)
(* lies in an open season (openLeagueRound, closeLeagueRound,              *)
(* rollLeagueSeason).                                                      *)
THEOREM OpenRoundHasItsSeason == Spec => []OneOpenRound
<1>1. IInv => OneOpenRound
  <2> SUFFICES ASSUME IInv PROVE OneOpenRound
    OBVIOUS
  <2>1. Cardinality(OpenRounds) <= 1
    BY AtMostOne DEF IInv, OpenRoundIsAlone
  <2> QED BY <2>1 DEF OneOpenRound, IInv, OpenRoundIsInSeason, OpenSeasons
<1> QED BY <1>1, Invariance, PTL

(* Each league runs one season at a time; every league has a round, and a   *)
(* league beyond the first comes of a request to open that was sent before *)
(* an earlier round closed: no request that failed left one behind         *)
(* (ensureOpenSeasonTx).                                                   *)
THEOREM RunningSeason == Spec => []OneRunningSeason
<1>1. IInv => SeasonsAreRun
  BY DEF IInv
<1>2. SeasonsAreRun /\ OneOpenRound => OneRunningSeason
  BY DEF SeasonsAreRun, OneRunningSeason
<1> QED BY <1>1, <1>2, Invariance, OpenRoundHasItsSeason, PTL

(* With no round open the featured combo is what it was before league      *)
(* night, or the combo of the round another was opened amid                *)
(* (closeLeagueRound, openLeagueRound).                                    *)
THEOREM ComboPutBack == Spec => []ComboIsPutBack
<1>1. IInv => ComboIsPutBack
  BY DEF IInv, CombosAreKnown, Known, ComboIsPutBack
<1> QED BY <1>1, Invariance, PTL

(* A closed round is final: no close, race or roll writes its row again,   *)
(* so the laps and the result it counts stay those it closed with          *)
(* (closeLeagueRound's guarded update).                                    *)
ClosedRoundsAreFinal ==
  [][\A n \in DOMAIN rounds \ OpenRounds : n \in DOMAIN rounds' /\ rounds'[n] = rounds[n]]_vars

THEOREM ClosedStaysClosed == Spec => ClosedRoundsAreFinal
<1> DEFINE Final == \A n \in DOMAIN rounds \ OpenRounds : n \in DOMAIN rounds' /\ rounds'[n] = rounds[n]
<1>1. ASSUME IInv, [Next]_vars PROVE Final
  <2>1. Evolves /\ DOMAIN rounds \subseteq DOMAIN rounds'
    BY <1>1, StepEvolves, SeasonsStep DEF IInv
  <2>2. CASE SameRounds
    BY <2>1, <2>2 DEF SameRounds
  <2>3. CASE UNCHANGED league
    BY <2>3 DEF league
  <2>4. ASSUME NEW s \in Staff, ClosesRound(s) PROVE Final
    <3>1. txn[s].round \in OpenRounds
      BY <1>1, <2>4 DEF ClosesRound, IInv, ClosingIsExclusive
    <3> QED BY <2>1, <2>4, <3>1 DEF ClosesRound
  <2>5. ASSUME NEW s \in Staff, OpensRound(s) \/ RollsSeason(s) PROVE Final
    BY <2>1, <2>5 DEF OpensRound, RollsSeason
  <2> QED BY <2>1, <2>2, <2>3, <2>4, <2>5 DEF Evolves
<1>2. IInv /\ [Next]_vars => [Final]_vars
  BY <1>1
<1> QED BY <1>2, Invariance, PTL DEF Spec, ClosedRoundsAreFinal

(* No season ends under a round: a roll that ends one finds no round open  *)
(* and leaves none (rollLeagueSeason).                                     *)
NoSeasonEndsUnderARound ==
  [][\A i \in OpenSeasons : i \notin OpenSeasons' => OpenRounds = {} /\ OpenRounds' = {}]_vars

THEOREM SeasonOutlivesItsRound == Spec => NoSeasonEndsUnderARound
<1>1. IInv /\ [Next]_vars =>
        [\A i \in OpenSeasons : i \notin OpenSeasons' => OpenRounds = {} /\ OpenRounds' = {}]_vars
  BY SeasonsStep DEF IInv
<1> QED BY <1>1, Invariance, PTL DEF Spec, NoSeasonEndsUnderARound
=============================================================================
