-------------------------------- MODULE League --------------------------------
(***************************************************************************)
(* League night: the transactions that open a round, close it and roll     *)
(* the season (lib/league-queries.ts), and the laps that count for a round *)
(* while they run (computeValidity in lib/validity.ts, as                  *)
(* api/agent/events calls it; api/staff/lap-validity).                     *)
(*                                                                         *)
(* The transactions run under READ COMMITTED, as in CheckIn: a statement   *)
(* sees what was committed when it began, a row lock waits and then looks  *)
(* again, a unique index waits for whoever may yet settle it.  now() is    *)
(* when a transaction began.  The last statements and the commit are one   *)
(* step where nothing can tell them apart.  One venue day.                 *)
(***************************************************************************)
EXTENDS Standings

CONSTANTS
  Staff,        \* requests being served at once
  Drivers,      \* the active drivers, numbers in the order of their names
  Combos,       \* a track, its layout and a car
  Times,        \* the lap times
  MaxHappenings \* bounds the requests of staff, the laps and the events of a race, together

ASSUME LeagueAssumption ==
  /\ Drivers \subseteq Nat /\ Times \subseteq Nat
  /\ MaxHappenings \in Nat
  /\ None \notin Nat \cup Combos

VARIABLES
  leagues,   \* how many leagues there are
  seasons,   \* league_seasons: [league, open], in the order they began
  rounds,    \* league_rounds
  featured,  \* today's featured combo, or None
  own,       \* what it was before league night
  txn,       \* the request each of Staff is on
  happenings, \* how many requests, laps and race events there were
  laps,      \* the laps driven, and how far each has come
  clock      \* the time, which every stamp moves on

league == <<leagues, seasons, rounds, featured, own>>
vars   == <<league, txn, happenings, laps, clock>>

Idle == [at |-> "idle"]

Init ==
  /\ leagues = 0 /\ seasons = <<>> /\ rounds = <<>>
  /\ own \in Combos \cup {None}
  /\ featured = own
  /\ txn = [s \in Staff |-> Idle]
  /\ happenings = 0
  /\ laps = {}
  /\ clock = 0
-----------------------------------------------------------------------------
OpenRounds == {n \in DOMAIN rounds : rounds[n].closed = None}
OpenSeasons == {i \in DOMAIN seasons : seasons[i].open}

TonightsRound == IF OpenRounds = {} THEN None ELSE CHOOSE n \in OpenRounds : TRUE

NoSeason == 0
LatestOpen == IF OpenSeasons = {} THEN NoSeason ELSE Max(OpenSeasons)

At(s, step)   == txn[s].at = step
Becomes(s, t) == txn' = [txn EXCEPT ![s] = t]
Answers(s)    == Becomes(s, Idle)

Happens == happenings < MaxHappenings /\ happenings' = happenings + 1

Asks(s) ==
  /\ txn[s] = Idle
  /\ Happens

LockedByOther(s, i) == \E u \in Staff \ {s} : "holds" \in DOMAIN txn[u] /\ txn[u].holds = i
-----------------------------------------------------------------------------
(* openLeagueRound.                                                        *)
(* getOpenRound, before the transaction.                                   *)
AskOpen(s, combo) ==
  /\ Asks(s)
  /\ OpenRounds = {}
  /\ Becomes(s, [at |-> "open", combo |-> combo])
  /\ UNCHANGED <<league, laps, clock>>

(* ensureOpenSeasonTx: the open season, for update.                        *)
OpenSelects(s) ==
  /\ At(s, "open")
  /\ clock' = clock + 1
  /\ Becomes(s, [at |-> IF OpenSeasons = {} THEN "creating" ELSE "locking", combo |-> txn[s].combo,
                 opened |-> clock + 1, wants |-> LatestOpen])
  /\ UNCHANGED <<league, happenings, laps>>

Takes(s, i, fresh) ==
  Becomes(s, [at |-> "inserting", combo |-> txn[s].combo, opened |-> txn[s].opened, holds |-> i, fresh |-> fresh])

OpenLocks(s) ==
  /\ At(s, "locking")
  /\ ~LockedByOther(s, txn[s].wants)
  /\ IF seasons[txn[s].wants].open THEN Takes(s, txn[s].wants, "nothing")
     ELSE Becomes(s, [txn[s] EXCEPT !.at = "creating"])
  /\ UNCHANGED <<league, happenings, laps, clock>>

(* With none, a season of the first league, or of a new one.  The index    *)
(* allows one open season per league: a season that lost to another's is   *)
(* rolled back to the savepoint, and the open one selected.                *)
OpenCreates(s) ==
  /\ At(s, "creating")
  /\ \/ /\ leagues = 0
        /\ Takes(s, NoSeason, "league")
     \/ /\ leagues > 0
        /\ \A u \in Staff \ {s} : "fresh" \in DOMAIN txn[u] => txn[u].fresh # "season"
        /\ IF \A i \in OpenSeasons : seasons[i].league # 1 THEN Takes(s, NoSeason, "season")
           ELSE Becomes(s, [txn[s] EXCEPT !.at = "relocking", !.wants = LatestOpen])
  /\ UNCHANGED <<league, happenings, laps, clock>>

OpenRelocks(s) ==
  /\ At(s, "relocking")
  /\ ~LockedByOther(s, txn[s].wants)
  /\ IF seasons[txn[s].wants].open THEN Takes(s, txn[s].wants, "nothing") ELSE Answers(s)
  /\ UNCHANGED <<league, happenings, laps, clock>>

(* insert into league_rounds ... select: what it read when it began, amid  *)
(* which round.                                                            *)
PriorAfterThePin(combo) == combo
PriorOf(combo)          == featured

OpenInserts(s) ==
  /\ At(s, "inserting")
  /\ Becomes(s, [at |-> "checking", opened |-> txn[s].opened, holds |-> txn[s].holds, fresh |-> txn[s].fresh,
                 combo |-> txn[s].combo, prior |-> PriorOf(txn[s].combo), amid |-> TonightsRound])
  /\ UNCHANGED <<league, happenings, laps, clock>>

(* one_open_round_venue_wide waits for a close under way.  An open round   *)
(* fails the transaction, which leaves nothing behind; otherwise the combo *)
(* is pinned, and all of it commits.                                       *)
SeasonCreated(s) ==
  IF txn[s].fresh = "nothing" THEN seasons
  ELSE Append(seasons, [league |-> IF txn[s].fresh = "league" THEN leagues + 1 ELSE 1, open |-> TRUE])

SeasonLeftBehind(s) == SeasonCreated(s)
SeasonsLeft(s)      == seasons

Closing(n) == \E u \in Staff : At(u, "closing") /\ txn[u].round = n

OpenCommits(s) ==
  /\ At(s, "checking")
  /\ \A n \in OpenRounds : ~Closing(n)
  /\ IF OpenRounds # {} THEN seasons' = SeasonsLeft(s) /\ UNCHANGED <<leagues, rounds, featured, own>>
     ELSE /\ seasons' = SeasonCreated(s)
          /\ leagues' = IF txn[s].fresh = "league" THEN leagues + 1 ELSE leagues
          /\ rounds' = Append(rounds, [season |-> IF txn[s].fresh = "nothing" THEN txn[s].holds ELSE Len(seasons) + 1,
                                       combo |-> txn[s].combo, prior |-> txn[s].prior,
                                       amid |-> txn[s].amid, opened |-> txn[s].opened, closed |-> None,
                                       began |-> None, finishers |-> <<>>, retired |-> {}])
          /\ featured' = txn[s].combo
          /\ UNCHANGED own
  /\ Answers(s)
  /\ UNCHANGED <<happenings, laps, clock>>
-----------------------------------------------------------------------------
(* closeLeagueRound, of a round staff see open.                            *)
AskClose(s, n) ==
  /\ Asks(s)
  /\ n \in OpenRounds
  /\ clock' = clock + 1
  /\ Becomes(s, [at |-> "close", round |-> n, closed |-> clock + 1])
  /\ UNCHANGED <<league, laps>>

Closes(s) ==
  /\ At(s, "close")
  /\ ~Closing(txn[s].round)
  /\ IF txn[s].round \in OpenRounds THEN Becomes(s, [txn[s] EXCEPT !.at = "closing"]) ELSE Answers(s)
  /\ UNCHANGED <<league, happenings, laps, clock>>

(* The sweep (RaceNight's CloseRound), and the combo as opening found it.  *)
CloseCommits(s) ==
  LET n == txn[s].round
  IN  /\ At(s, "closing")
      /\ rounds' = [rounds EXCEPT ![n].closed = txn[s].closed]
      /\ featured' = rounds[n].prior
      /\ Answers(s)
      /\ UNCHANGED <<leagues, seasons, own, happenings, laps, clock>>
-----------------------------------------------------------------------------
(* rollLeagueSeason.                                                       *)
AskRoll(s) ==
  /\ Asks(s)
  /\ OpenSeasons # {}
  /\ Becomes(s, [at |-> "roll", wants |-> LatestOpen])
  /\ UNCHANGED <<league, laps, clock>>

Selected(s)       == txn[s].wants

RollLocks(s) ==
  /\ At(s, "roll")
  /\ ~LockedByOther(s, Selected(s))
  /\ IF seasons[Selected(s)].open
     THEN Becomes(s, [at |-> "rolling", wants |-> txn[s].wants, holds |-> Selected(s)])
     ELSE Answers(s)
  /\ UNCHANGED <<league, happenings, laps, clock>>

MayRoll == OpenRounds = {}

RollCommits(s) ==
  LET i == txn[s].holds
  IN  /\ At(s, "rolling")
      /\ seasons' = IF MayRoll
                    THEN Append([seasons EXCEPT ![i].open = FALSE], [league |-> seasons[i].league, open |-> TRUE])
                    ELSE seasons
      /\ Answers(s)
      /\ UNCHANGED <<leagues, rounds, featured, own, happenings, laps, clock>>

(* The process ends, or the database is lost: the transaction with it.     *)
Fails(s) ==
  /\ txn[s] # Idle
  /\ Answers(s)
  /\ UNCHANGED <<league, happenings, laps, clock>>
-----------------------------------------------------------------------------
(* The laps.  A lap is on its way, then judged by the combo its batch read *)
(* (in which round), then stored.  during: the round open as it was driven.*)
(* Those driven with no round open are no round's.                         *)
Drive(d, combo, time, clean) ==
  /\ OpenRounds # {}
  /\ Happens
  /\ clock' = clock + 1
  /\ laps' = laps \cup {[driver |-> d, combo |-> combo, time |-> time, clean |-> clean, at |-> clock + 1,
                         during |-> TonightsRound, judged |-> None, stage |-> "sent", valid |-> FALSE]}
  /\ UNCHANGED <<league, txn>>

Counts(l) == l.clean /\ featured \in {None, l.combo}

JudgeLap(l) ==
  /\ l.stage = "sent"
  /\ laps' = (laps \ {l}) \cup {[l EXCEPT !.stage = "judged", !.judged = TonightsRound, !.valid = Counts(l)]}
  /\ UNCHANGED <<league, txn, happenings, clock>>

StoreLap(l) ==
  /\ l.stage = "judged"
  /\ laps' = (laps \ {l}) \cup {[l EXCEPT !.stage = "stored"]}
  /\ UNCHANGED <<league, txn, happenings, clock>>

(* Staff invalidate a lap, or restore it.                                  *)
Rule(l) ==
  /\ l.stage \in {"stored", "ruled"}
  /\ Happens
  /\ laps' = (laps \ {l}) \cup {[l EXCEPT !.stage = "ruled", !.valid = ~@]}
  /\ UNCHANGED <<league, txn, clock>>

(* The race: its session is heard while the round is open, then the cars   *)
(* finish, or staff put them down as retired.                              *)
RaceBegins(n) ==
  /\ n \in OpenRounds
  /\ rounds[n].began = None
  /\ Happens
  /\ clock' = clock + 1
  /\ rounds' = [rounds EXCEPT ![n].began = clock + 1]
  /\ UNCHANGED <<leagues, seasons, featured, own, txn, laps>>

Finishes(n, d) ==
  /\ n \in OpenRounds
  /\ rounds[n].began # None
  /\ d \notin InRace(rounds[n])
  /\ Happens
  /\ rounds' = [rounds EXCEPT ![n].finishers = Append(@, d)]
  /\ UNCHANGED <<leagues, seasons, featured, own, txn, laps, clock>>

Retires(n, d) ==
  /\ n \in OpenRounds
  /\ rounds[n].began # None
  /\ d \notin InRace(rounds[n])
  /\ Happens
  /\ rounds' = [rounds EXCEPT ![n].retired = @ \cup {d}]
  /\ UNCHANGED <<leagues, seasons, featured, own, txn, laps, clock>>
-----------------------------------------------------------------------------
Next ==
  \/ \E s \in Staff :
       \/ \E combo \in Combos : AskOpen(s, combo)
       \/ OpenSelects(s) \/ OpenLocks(s) \/ OpenCreates(s) \/ OpenRelocks(s) \/ OpenInserts(s) \/ OpenCommits(s)
       \/ \E n \in OpenRounds : AskClose(s, n)
       \/ Closes(s) \/ CloseCommits(s)
       \/ AskRoll(s) \/ RollLocks(s) \/ RollCommits(s)
       \/ Fails(s)
  \/ \E d \in Drivers, combo \in Combos, time \in Times, clean \in BOOLEAN : Drive(d, combo, time, clean)
  \/ \E l \in laps : JudgeLap(l) \/ StoreLap(l) \/ Rule(l)
  \/ \E n \in OpenRounds : RaceBegins(n) \/ \E d \in Drivers : Finishes(n, d) \/ Retires(n, d)

Spec == Init /\ [][Next]_vars
-----------------------------------------------------------------------------
(* At most one round is open, and it lies in a season that is: no roll ends *)
(* the season under a round that opens.                                    *)
OneOpenRound ==
  /\ Cardinality(OpenRounds) <= 1
  /\ \A n \in OpenRounds : seasons[rounds[n].season].open

(* A league runs one season at a time, whatever openers and a roll do at   *)
(* the same time, and no season or league is left by a request that failed: *)
(* every league has a round.  A league beyond the first comes of a request *)
(* to open that was sent before an earlier round closed.                   *)
Outlived(n) == \E m \in 1..(n - 1) : rounds[m].closed # None /\ rounds[m].closed > rounds[n].opened

OneRunningSeason ==
  /\ OneOpenRound
  /\ \A i, j \in OpenSeasons : seasons[i].league = seasons[j].league => i = j
  /\ \A i \in DOMAIN seasons : \E n \in DOMAIN rounds :
       /\ seasons[rounds[n].season].league = seasons[i].league
       /\ seasons[i].league # 1 => Outlived(n)

(* Closing puts the featured combo back the way opening found it: with no  *)
(* round open, it is what it was before league night.  Only if a request   *)
(* to open read it amid another round can it be anything else, and then it *)
(* is the combo of that round.                                             *)
FromAnotherRound(combo) ==
  \E n \in DOMAIN rounds : rounds[n].amid # None /\ combo = rounds[rounds[n].amid].combo

ComboIsPutBack == OpenRounds = {} => featured = own \/ FromAnotherRound(featured)

StoredLaps == {l \in laps : l.stage \in {"stored", "ruled"}}

Points(i) == [d \in Drivers |-> SeasonPoints(StoredLaps, rounds, i, d)]

CostsNothing(driver, was, is) ==
  \A d \in Drivers : IF d = driver THEN is[d] >= was[d] ELSE is[d] <= was[d]

(* A lap never costs its driver: one that is stored takes no points from   *)
(* them, and gives none to anyone else.                                    *)
ALapNeverCosts ==
  [][\A l \in StoredLaps' \ StoredLaps : l.stage = "stored" =>
       \A i \in DOMAIN seasons : CostsNothing(l.driver, Points(i), Points(i)')]_vars
=============================================================================
