-------------------------- MODULE MatchSimulation --------------------------
(***************************************************************************)
(* One simulated path of simulation/match.py: _simulate_one_path plays a   *)
(* match point by point on the scoring engine, keeps both players'         *)
(* statistics and the break events, jumps over the tied cycles of a        *)
(* tiebreak that hardly ever ends, and lets a player retire at the end of  *)
(* a game.  Random draws are nondeterministic choices among the outcomes   *)
(* of positive probability.                                                *)
(***************************************************************************)
EXTENDS TennisScoring

CONSTANTS PossibleResults,  \* service-point results the performances can draw
          Retirements,      \* players with a positive retirement intensity
          Accelerates,      \* no trace, and sweeps are rarer than the threshold
          MaxCycles         \* bound on the tied cycles one acceleration skips

\* The five branches of the service-point tree, the playable ones won or lost.
Result(branch, won) == [branch |-> branch, serverWon |-> won]
PointResults ==
  {Result("ace", TRUE), Result("doubleFault", FALSE)}
    \union [branch : {"first", "second"}, serverWon : BOOLEAN]

ASSUME SimulationAssumption ==
  /\ PossibleResults \subseteq PointResults
  /\ Retirements \subseteq Players
  /\ Accelerates \in BOOLEAN
  /\ MaxCycles \in Nat
  /\ None \notin Nat

GameCounters == {"service_games_played", "return_games_played", "service_games_held",
                 "breaks_conceded", "breaks_achieved", "break_point_opportunities"}
ServeCounters == {"service_points", "first_serve_opportunities", "first_serves_in",
                  "first_serve_points_won", "returnable_first_serve_trials",
                  "returnable_first_serve_wins", "second_serve_opportunities",
                  "double_faults", "playable_second_serve_trials",
                  "playable_second_serve_wins", "second_serve_points_won", "aces"}
Counters == GameCounters \union ServeCounters

VARIABLES totals,         \* totals_by_player
          breakEvents,    \* the BreakEvents, in order
          retired,        \* retired_player_id
          retirementGame  \* retirement_game_number

simulationVars == <<scoringVars, totals, breakEvents, retired, retirementGame>>

SimulationInit ==
  /\ Init
  /\ totals = [p \in Players |-> [c \in Counters |-> 0]]
  /\ breakEvents = <<>>
  /\ retired = None
  /\ retirementGame = None

-----------------------------------------------------------------------------
(* Statistics of a point played on the engine. *)

FirstServeIn(r) == r.branch \in {"ace", "first"}

\* Does a point with result r increment the server's counter c?
Counts(c, r) ==
  CASE c \in {"service_points", "first_serve_opportunities"} -> TRUE
    [] c = "first_serves_in" -> FirstServeIn(r)
    [] c = "first_serve_points_won" -> FirstServeIn(r) /\ r.serverWon
    [] c = "returnable_first_serve_trials" -> r.branch = "first"
    [] c = "returnable_first_serve_wins" -> r.branch = "first" /\ r.serverWon
    [] c = "second_serve_opportunities" -> ~FirstServeIn(r)
    [] c = "second_serve_points_won" -> ~FirstServeIn(r) /\ r.serverWon
    [] c = "playable_second_serve_trials" -> r.branch = "second"
    [] c = "playable_second_serve_wins" -> r.branch = "second" /\ r.serverWon
    [] c = "aces" -> r.branch = "ace"
    [] c = "double_faults" -> r.branch = "doubleFault"

ServerCounters(r, w) ==
  {c \in ServeCounters : Counts(c, r)}
    \union (IF GameWon(w) THEN {"service_games_played"} ELSE {})
    \union (IF BreakOfServe(w) THEN {"breaks_conceded"} ELSE {})
    \union (IF GameWon(w) /\ ~BreakOfServe(w) THEN {"service_games_held"} ELSE {})

ReceiverCounters(w) ==
  (IF BreakPoint THEN {"break_point_opportunities"} ELSE {})
    \union (IF GameWon(w) THEN {"return_games_played"} ELSE {})
    \union (IF BreakOfServe(w) THEN {"breaks_achieved"} ELSE {})

Bump(counts, names) == [c \in Counters |-> counts[c] + IF c \in names THEN 1 ELSE 0]

\* The break event of a game, numbered in its set and in the match.
Break ==
  LET game == Sum(activeSet.games) + 1 IN
  [setNumber |-> activeSet.setNumber, gameNumber |-> game,
   matchGameNumber |-> OverSets(LAMBDA r : Sum(r.games)) + game,
   server |-> Server, receiver |-> Receiver]

-----------------------------------------------------------------------------
(* The end of a game or tiebreak: ordinary termination first, then at most *)
(* one retirement.                                                         *)

\* Fault: the boundary is the game before the one just completed.
RetireOrGoOnStale ==
  \/ UNCHANGED <<retired, retirementGame>>
  \/ \E p \in Retirements : retired' = p /\ retirementGame' = TotalGames

RetireOrGoOn ==
  \/ UNCHANGED <<retired, retirementGame>>
  \/ \E p \in Retirements : retired' = p /\ retirementGame' = TotalGames'

Boundary(completed) ==
  IF completed /\ ~IsComplete' THEN RetireOrGoOn
  ELSE UNCHANGED <<retired, retirementGame>>

\* _accelerate_extended_tiebreak applies.
AccelerationDue ==
  /\ Accelerates /\ InTiebreak
  /\ LET points == activeSet.tiebreak.points IN
     points[0] = points[1] /\ points[0] >= activeSet.tiebreak.target - 1

PointWinner(r) == IF r.serverWon THEN Server ELSE Receiver

\* One pass of the loop that generates a point.
PlayPoint ==
  /\ retired = None /\ activeSet # None /\ ~AccelerationDue
  /\ \E r \in PossibleResults :
       LET w == PointWinner(r) IN
       /\ AwardPoint(w)
       /\ totals' = [totals EXCEPT ![Server] = Bump(@, ServerCounters(r, w)),
                                   ![Receiver] = Bump(@, ReceiverCounters(w))]
       /\ breakEvents' = IF BreakOfServe(w) THEN Append(breakEvents, Break)
                         ELSE breakEvents
       /\ Boundary(GameWon(w) \/ TiebreakWon(w))

-----------------------------------------------------------------------------
(* The accelerated tiebreak: tied cycles, in which both servers win or     *)
(* both lose, and a sweep by w.                                            *)

\* How a number of won and of lost service points can split over the results.
Splits(won, lost) ==
  {n \in [PossibleResults -> 0 .. won + lost] :
     /\ MapThenSumSet(LAMBDA r : n[r], {r \in PossibleResults : r.serverWon}) = won
     /\ MapThenSumSet(LAMBDA r : n[r], {r \in PossibleResults : ~r.serverWon}) = lost}

Drawn(n, r) == IF r \in PossibleResults THEN n[r] ELSE 0

FirstServesIn(n) ==
  Drawn(n, Result("ace", TRUE)) + Drawn(n, Result("first", TRUE))
    + Drawn(n, Result("first", FALSE))

\* What _add_aggregate_service_points adds for a split n.
Aggregate(n) ==
  LET aces == Drawn(n, Result("ace", TRUE))
      firstWins == Drawn(n, Result("first", TRUE))
      firstLosses == Drawn(n, Result("first", FALSE))
      doubleFaults == Drawn(n, Result("doubleFault", FALSE))
      secondWins == Drawn(n, Result("second", TRUE))
      secondLosses == Drawn(n, Result("second", FALSE))
      points == aces + firstWins + firstLosses + doubleFaults + secondWins + secondLosses
  IN  [service_points |-> points,
       first_serve_opportunities |-> points,
       first_serves_in |-> FirstServesIn(n),
       first_serve_points_won |-> aces + firstWins,
       returnable_first_serve_trials |-> firstWins + firstLosses,
       returnable_first_serve_wins |-> firstWins,
       second_serve_opportunities |-> points - FirstServesIn(n),
       double_faults |-> doubleFaults,
       playable_second_serve_trials |-> secondWins + secondLosses,
       playable_second_serve_wins |-> secondWins,
       second_serve_points_won |-> secondWins,
       aces |-> aces]

AddAggregate(counts, n) ==
  [c \in Counters |-> counts[c] + IF c \in ServeCounters THEN Aggregate(n)[c] ELSE 0]

\* Fault: the points of the cycles are not counted.
AcceleratedPointsSweep(cycles) == 2

\* The splits of the points p served in the cycles and in the sweep by w.
SweepSplits(p, w, cycles, bothWin) ==
  Splits(bothWin + IF p = w THEN 1 ELSE 0, cycles - bothWin + IF p = w THEN 0 ELSE 1)

\* The final score, and the points the acceleration stands for.
SweptPoints(w, cycles) ==
  [p \in Players |-> activeSet.tiebreak.points[p] + cycles + IF p = w THEN 2 ELSE 0]
AcceleratedPoints(cycles) == 2 * cycles + 2

\* When no service point can be won, or none lost, a sweep has no split and no
\* step is possible: the code raises there.
Accelerate(w) ==
  /\ retired = None /\ activeSet # None /\ AccelerationDue
  /\ \E cycles \in 0 .. MaxCycles : \E bothWin \in 0 .. cycles :
       /\ FinishSet([setNumber |-> activeSet.setNumber,
                     firstServer |-> activeSet.firstServer,
                     games |-> Increment(activeSet.games, w),
                     tiebreak |-> [activeSet.tiebreak EXCEPT
                                     !.points = SweptPoints(w, cycles)]])
       /\ totalPoints' = totalPoints + AcceleratedPoints(cycles)
       /\ \E n0 \in SweepSplits(0, w, cycles, bothWin),
             n1 \in SweepSplits(1, w, cycles, bothWin) :
            totals' = [totals EXCEPT ![0] = AddAggregate(@, n0),
                                     ![1] = AddAggregate(@, n1)]
  /\ Boundary(TRUE)
  /\ UNCHANGED <<initialServer, opportunities, breaks, breakEvents>>

SimulationNext == PlayPoint \/ \E w \in Players : Accelerate(w)

SimulationSpec == SimulationInit /\ [][SimulationNext]_simulationVars

-----------------------------------------------------------------------------
(* The MatchPath that the loop's result is built into. *)

PathBuilt == retired # None \/ IsComplete

TiebreakSets == {i \in DOMAIN completedSets : completedSets[i].tiebreak # None}
GamesWon(p) ==
  totals[p]["service_games_held"] + totals[p]["breaks_achieved"]
    + Cardinality({i \in TiebreakSets : SetWinner(completedSets[i]) = p})
ActiveSetStarted ==
  activeSet # None /\ (Sum(activeSet.games) > 0 \/ Sum(activeSet.gamePoints) > 0 \/ InTiebreak)
SetsStarted == Len(completedSets) + IF ActiveSetStarted THEN 1 ELSE 0
WinnerId == IF retired = None THEN MatchWinner ELSE Other(retired)

-----------------------------------------------------------------------------
(***************************************************************************)
(* Properties.                                                             *)
(***************************************************************************)

\* What PlayerMatchStats accepts: service points that split into the branches
\* of the point tree, and service games that split into holds and breaks.
StatsAccepted ==
  \A p \in Players : LET t == totals[p] IN
    /\ t["service_points"] = t["first_serves_in"] + t["second_serve_opportunities"]
    /\ t["first_serve_opportunities"] = t["service_points"]
    /\ t["first_serves_in"] = t["aces"] + t["returnable_first_serve_trials"]
    /\ t["first_serve_points_won"] = t["aces"] + t["returnable_first_serve_wins"]
    /\ t["second_serve_opportunities"]
         = t["double_faults"] + t["playable_second_serve_trials"]
    /\ t["second_serve_points_won"] = t["playable_second_serve_wins"]
    /\ t["first_serve_points_won"] <= t["first_serves_in"]
    /\ t["second_serve_points_won"] <= t["second_serve_opportunities"]
    /\ t["service_games_held"] + t["breaks_conceded"] = t["service_games_played"]
    /\ t["breaks_achieved"] <= t["return_games_played"]
    /\ t["breaks_achieved"] <= t["break_point_opportunities"]

\* Nor by MatchPath: the score, the statistics of both players, the break
\* events and the retirement boundary, which the loop keeps separately, agree.
PathAccepted ==
  PathBuilt =>
    /\ WinnerId \in Players
    /\ Len(completedSets) <= SetsStarted /\ SetsStarted <= BestOf
    /\ retired # None =>
         retirementGame >= 1 /\ retirementGame = GamesWon(0) + GamesWon(1)
    /\ retired = None =>
         /\ SetsStarted = Len(completedSets)
         /\ SetsWon(WinnerId) = SetsToWin /\ SetsWon(Other(WinnerId)) < SetsToWin
         /\ GamesWon(0) + GamesWon(1) = TotalGames
         /\ \A i \in DOMAIN completedSets :
              /\ completedSets[i].setNumber = i
              /\ completedSets[i].firstServer = FirstServerDue(i)
    /\ \A i \in TiebreakSets : completedSets[i].setNumber \in 1 .. SetsStarted
    /\ \A i, j \in TiebreakSets :
         completedSets[i].setNumber = completedSets[j].setNumber => i = j
    /\ \A p \in Players :
         /\ totals[p]["breaks_achieved"] = totals[Other(p)]["breaks_conceded"]
         /\ totals[p]["return_games_played"] = totals[Other(p)]["service_games_played"]
    /\ Len(breakEvents) = totals[0]["breaks_achieved"] + totals[1]["breaks_achieved"]
    /\ \A i \in 2 .. Len(breakEvents) :
         breakEvents[i - 1].matchGameNumber < breakEvents[i].matchGameNumber

\* The statistics the simulation keeps beside the scoring engine count the
\* same match, its points, its break points and its breaks, and split as
\* PlayerMatchStats asks, whether a cycle was played or skipped.
StatsFollowScore ==
  /\ StatsAccepted
  /\ totalPoints = totals[0]["service_points"] + totals[1]["service_points"]
  /\ \A p \in Players : /\ totals[p]["breaks_achieved"] = breaks[p]
                        /\ totals[p]["break_point_opportunities"] = opportunities[p]
=============================================================================
