-------------------------- MODULE OfficialOutcomes --------------------------
(***************************************************************************)
(* The settlement of a lock by the official record of its match            *)
(* (calibration/outcomes.py).  A record has the sets, the winner or the    *)
(* player who retired, and may have statistics; games are those of the     *)
(* completed sets.  The evaluator of simulated paths is applied to it.     *)
(***************************************************************************)
EXTENDS Settlement

\* What a record may have beside the sets.
Reportable == {"stats", "breaks", "break events", "aces", "double faults", "first serves"}

SetGamesOf(p) == OverSets(LAMBDA r : r.games[p])
\* What is not reported is 0 here: a prop that looked at it would be settled by
\* nothing.
Reported(p, counter, field, reported) ==
  IF field \in reported THEN totals[p][counter] ELSE 0
OfficialOutcome(reported) ==
  [winner |-> WinnerId, completed |-> IsComplete, retired |-> retired,
   sets |-> completedSets, started |-> SetsStarted,
   stats |-> [p \in Players |->
     [games_won |-> SetGamesOf(p),
      aces |-> Reported(p, "aces", "aces", reported),
      double_faults |-> Reported(p, "double_faults", "double faults", reported),
      breaks_achieved |-> Reported(p, "breaks_achieved", "breaks", reported),
      first_serves_in |-> Reported(p, "first_serves_in", "first serves", reported),
      first_serve_points_won |->
        Reported(p, "first_serve_points_won", "first serves", reported)]],
   breakEvents |-> IF "break events" \in reported THEN breakEvents ELSE <<>>]

\* outcome_is_coherent
OutcomeAccepted(outcome) ==
  LET Wins(p) == Cardinality({i \in DOMAIN outcome.sets : SetWinner(outcome.sets[i]) = p})
  IN  /\ outcome.completed => outcome.winner \in Players /\ outcome.retired = None
      /\ ~outcome.completed => outcome.retired # None
      /\ outcome.retired # None => outcome.winner = Other(outcome.retired)
      /\ \A i \in DOMAIN outcome.sets : /\ outcome.sets[i].setNumber = i
                                        /\ IsLegalSetScore(outcome.sets[i].games,
                                                           outcome.sets[i].tiebreak # None)
      /\ outcome.started >= Len(outcome.sets)
      /\ outcome.completed => /\ Wins(outcome.winner) = SetsToWin
                              /\ Wins(Other(outcome.winner)) < SetsToWin
      /\ \A p \in Players :
           outcome.stats[p].first_serve_points_won <= outcome.stats[p].first_serves_in

-----------------------------------------------------------------------------
\* historical_prop_available: what a prop needs a record to have.
OfAces == {"PLAYER_ACES", "TOTAL_ACES", "ACE_COMPARE"}
OfFaults == {"PLAYER_DF", "TOTAL_DF", "DF_COMPARE"}
OfBreaks == {"BREAK_COUNT", "TOTAL_BREAKS", "BOTH_BREAK"}

\* Fault: where the break events are missing there were none.
NeedsStatsOnly(kind) ==
  CASE kind \in {"PLAYER_GAMES", "GAME_HANDICAP", "FIRST_BREAK_TIMING"} -> {"stats"}
    [] kind \in OfBreaks -> {"stats", "breaks"}
    [] kind \in OfAces -> {"stats", "aces"}
    [] kind \in OfFaults -> {"stats", "double faults"}
    [] kind = "FIRST_SERVE_WIN_PCT" -> {"stats", "first serves"}
    [] OTHER -> {}
NeedsOf(kind) ==
  CASE kind \in {"PLAYER_GAMES", "GAME_HANDICAP"} -> {"stats"}
    [] kind \in OfBreaks -> {"stats", "breaks"}
    [] kind = "FIRST_BREAK_TIMING" -> {"break events"}
    [] kind \in OfAces -> {"stats", "aces"}
    [] kind \in OfFaults -> {"stats", "double faults"}
    [] kind = "FIRST_SERVE_WIN_PCT" -> {"stats", "first serves"}
    [] OTHER -> {}
Needs(prop) ==
  IF prop.kind \in Composites THEN UNION {NeedsOf(e.kind) : e \in prop.exprs}
  ELSE NeedsOf(prop.kind)

\* The record is settled as a path is; its games are those of its sets.
RecordTotals(outcome) ==
  [p \in Players |->
     LET stats == outcome.stats[p]
         tiebreaks == Cardinality({i \in TiebreakSets : SetWinner(completedSets[i]) = p})
     IN  [c \in Counters |->
            IF c \in DOMAIN stats THEN stats[c]
            ELSE IF c = "service_games_held"
                 THEN stats.games_won - stats.breaks_achieved - tiebreaks ELSE 0]]
Record(countsOfPlayers, events) ==
  INSTANCE Settlement WITH totals <- countsOfPlayers, breakEvents <- events

\* settle_historical_lock, for one prop of the lock.
Resolution(prop, reported) ==
  LET outcome == OfficialOutcome(reported)
  IN  IF ~(Needs(prop) \subseteq reported) THEN "unavailable"
      ELSE Record(RecordTotals(outcome), outcome.breakEvents)!Settle(prop)

-----------------------------------------------------------------------------
(***************************************************************************)
(* Properties.                                                             *)
(***************************************************************************)

\* The forecast and its settlement count the same thing.  Every path has a
\* record that is accepted, and one with what the prop needs and no more never
\* settles it against the path.  That of a completed match leaves nothing open
\* but a percentage of nothing; that of a retirement may void what the games of
\* the last set settle.
RecordsSettleAsPaths ==
  PathBuilt =>
    /\ OutcomeAccepted(OfficialOutcome(Reportable))
    /\ \A prop \in Props :
         LET official == Resolution(prop, Needs(prop))
         IN  /\ official \in Settlements \/ IsComplete => official = Settle(prop)
             /\ IsComplete /\ prop.kind \notin Composites =>
                  official \in Settlements \/ Undetermined(prop)
=============================================================================
