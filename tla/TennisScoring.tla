--------------------------- MODULE TennisScoring ---------------------------
(***************************************************************************)
(* The deterministic scoring state machine of simulation/scoring.py.       *)
(* A match is the immutable MatchState; award_point consumes the winner of *)
(* one point.  The frozen rules are the constants: the code fixes          *)
(* GamePoints = 4, SetGames = 6, TiebreakTarget = 7, DecidingTarget = 10   *)
(* and BestOf in {3, 5}; nothing below needs more than RulesAssumption.    *)
(***************************************************************************)
EXTENDS Integers, Sequences, FiniteSets, FiniteSetsExt

CONSTANTS BestOf,          \* sets in the match format
          GamePoints,      \* points that win a game, by two
          SetGames,        \* games that win a set, by two; level at it: tiebreak
          TiebreakTarget,  \* points that win a tiebreak, by two
          DecidingTarget,  \* the same in the set numbered BestOf
          None             \* Python's None

ASSUME RulesAssumption ==
  /\ BestOf \in Nat /\ BestOf % 2 = 1
  /\ GamePoints \in Nat /\ GamePoints >= 2
  /\ SetGames \in Nat /\ SetGames >= 2
  /\ TiebreakTarget \in Nat /\ TiebreakTarget >= 2
  /\ DecidingTarget \in Nat /\ DecidingTarget >= 2

Players == {0, 1}
Other(p) == 1 - p
Score == [Players -> Nat]
Level == [p \in Players |-> 0]
Increment(s, p) == [s EXCEPT ![p] = @ + 1]
Sum(s) == s[0] + s[1]

TerminalFor(s, p, target) == s[p] >= target /\ s[p] - s[Other(p)] >= 2
IsTerminal(s, target) == \E p \in Players : TerminalFor(s, p, target)
TerminalWinner(s, target) == CHOOSE p \in Players : TerminalFor(s, p, target)

IsMinimalTerminal(s, target) ==
  \E p \in Players :
    /\ TerminalFor(s, p, target)
    /\ s[p] = IF s[Other(p)] <= target - 2 THEN target ELSE s[Other(p)] + 2

\* The 1-2-2 service sequence: who serves the tiebreak point numbered n + 1.
TiebreakServer(first, n) ==
  IF n = 0 \/ ((n - 1) \div 2) % 2 = 1 THEN first ELSE Other(first)

\* At least "40" and ahead of the server.
IsBreakPoint(points, server) ==
  /\ points[Other(server)] >= GamePoints - 1
  /\ points[Other(server)] > points[server]

IsLegalSetScore(games, tiebreakPlayed) ==
  \E p \in Players :
    LET high == games[p]  low == games[Other(p)] IN
    IF tiebreakPlayed
    THEN high = SetGames + 1 /\ low = SetGames
    ELSE \/ high = SetGames /\ low <= SetGames - 2
         \/ high = SetGames + 1 /\ low = SetGames - 1

TargetOf(setNumber) == IF setNumber = BestOf THEN DecidingTarget ELSE TiebreakTarget

Tiebreak == [firstServer : Players, target : {TiebreakTarget, DecidingTarget},
             points : Score]
SetState == [setNumber : Nat \ {0}, firstServer : Players, games : Score,
             gamePoints : Score, tiebreak : Tiebreak \union {None}]
SetResult == [setNumber : Nat \ {0}, firstServer : Players, games : Score,
              tiebreak : Tiebreak \union {None}]

ASSUME NoneAssumption == None \notin Tiebreak /\ None \notin SetState

SetWinner(r) == IF r.games[0] > r.games[1] THEN 0 ELSE 1

\* Fault: the player who opened a set opens the next one.
NextSetServerFixed(r) == r.firstServer

NextSetServer(r) ==
  IF r.tiebreak # None THEN Other(r.tiebreak.firstServer)
  ELSE IF Sum(r.games) % 2 = 0 THEN r.firstServer ELSE Other(r.firstServer)

\* Sets p won among the first n of a sequence of set results.
WonAmong(sets, n, p) == Cardinality({i \in 1 .. n : SetWinner(sets[i]) = p})
SetsToWin == BestOf \div 2 + 1

-----------------------------------------------------------------------------
VARIABLES initialServer,  \* who served the first game of the match
          completedSets,  \* the SetResults, in order
          activeSet,      \* the SetState in play, None after the match
          opportunities,  \* break points each player has had, as receiver
          breaks,         \* games each player has won as receiver
          totalPoints     \* points played in the match

scoringVars ==
  <<initialServer, completedSets, activeSet, opportunities, breaks, totalPoints>>

SetsWon(p) == WonAmong(completedSets, Len(completedSets), p)
IsComplete == \E p \in Players : SetsWon(p) = SetsToWin
MatchWinner == CHOOSE p \in Players : SetsWon(p) = SetsToWin

InTiebreak == activeSet.tiebreak # None
RegularServer ==
  IF Sum(activeSet.games) % 2 = 0 THEN activeSet.firstServer
  ELSE Other(activeSet.firstServer)
Server == IF InTiebreak
          THEN TiebreakServer(activeSet.tiebreak.firstServer,
                              Sum(activeSet.tiebreak.points))
          ELSE RegularServer
Receiver == Other(Server)

\* Totals over the match: the properties of MatchState of the same names.
OverSets(f(_)) == MapThenSumSet(LAMBDA i : f(completedSets[i]), DOMAIN completedSets)
ActiveGames(p) == IF activeSet = None THEN 0 ELSE activeSet.games[p]
TotalGames == OverSets(LAMBDA r : Sum(r.games)) + ActiveGames(0) + ActiveGames(1)

-----------------------------------------------------------------------------
NewSet(number, first) ==
  [setNumber |-> number, firstServer |-> first, games |-> Level,
   gamePoints |-> Level, tiebreak |-> None]

\* new_match, for either first server.
Init ==
  /\ initialServer \in Players
  /\ completedSets = <<>>
  /\ activeSet = NewSet(1, initialServer)
  /\ opportunities = Level
  /\ breaks = Level
  /\ totalPoints = 0

NextGamePoints(w) == Increment(activeSet.gamePoints, w)
NextTiebreakPoints(w) == Increment(activeSet.tiebreak.points, w)
BreakPoint == ~InTiebreak /\ IsBreakPoint(activeSet.gamePoints, Server)

\* The facts of PointTransition that the simulation reads: what the point
\* won by w completes.
GameWon(w) == ~InTiebreak /\ IsTerminal(NextGamePoints(w), GamePoints)
BreakOfServe(w) == GameWon(w) /\ TerminalWinner(NextGamePoints(w), GamePoints) # Server
TiebreakWon(w) ==
  InTiebreak /\ IsTerminal(NextTiebreakPoints(w), activeSet.tiebreak.target)
GamesAfter(w) ==
  Increment(activeSet.games, TerminalWinner(NextGamePoints(w), GamePoints))
SetWon(w) == \/ TiebreakWon(w)
             \/ GameWon(w) /\ IsTerminal(GamesAfter(w), SetGames)

\* The bookkeeping every point does.
CountPoint(w) ==
  /\ totalPoints' = totalPoints + 1
  /\ opportunities' = IF BreakPoint THEN Increment(opportunities, Receiver)
                      ELSE opportunities
  /\ breaks' = IF BreakOfServe(w)
               THEN Increment(breaks, TerminalWinner(NextGamePoints(w), GamePoints))
               ELSE breaks
  /\ UNCHANGED initialServer

\* Fault: the sets before this one are dropped.
FinishSetForgets(result) ==
  LET sets == Append(completedSets, result) IN
  /\ completedSets' = <<result>>
  /\ activeSet' = IF WonAmong(sets, Len(sets), SetWinner(result)) = SetsToWin
                  THEN None
                  ELSE NewSet(result.setNumber + 1, NextSetServer(result))

\* _finish_set
FinishSet(result) ==
  LET sets == Append(completedSets, result) IN
  /\ completedSets' = sets
  /\ activeSet' = IF WonAmong(sets, Len(sets), SetWinner(result)) = SetsToWin
                  THEN None
                  ELSE NewSet(result.setNumber + 1, NextSetServer(result))

ScoreTiebreakPoint(w) ==
  /\ InTiebreak /\ ~TiebreakWon(w)
  /\ activeSet' = [activeSet EXCEPT !.tiebreak.points = NextTiebreakPoints(w)]
  /\ UNCHANGED completedSets

WinTiebreak(w) ==
  /\ TiebreakWon(w)
  /\ LET points == NextTiebreakPoints(w)
         winner == TerminalWinner(points, activeSet.tiebreak.target)
     IN  FinishSet([setNumber |-> activeSet.setNumber,
                    firstServer |-> activeSet.firstServer,
                    games |-> Increment(activeSet.games, winner),
                    tiebreak |-> [activeSet.tiebreak EXCEPT !.points = points]])

ScoreGamePoint(w) ==
  /\ ~InTiebreak /\ ~GameWon(w)
  /\ activeSet' = [activeSet EXCEPT !.gamePoints = NextGamePoints(w)]
  /\ UNCHANGED completedSets

WinGame(w) ==
  /\ GameWon(w) /\ ~SetWon(w)
  /\ activeSet' =
       [activeSet EXCEPT
          !.games = GamesAfter(w),
          !.gamePoints = Level,
          !.tiebreak =
            IF GamesAfter(w) = [p \in Players |-> SetGames]
            THEN [firstServer |-> Other(Server),
                  target |-> TargetOf(activeSet.setNumber), points |-> Level]
            ELSE None]
  /\ UNCHANGED completedSets

WinSet(w) ==
  /\ GameWon(w) /\ SetWon(w)
  /\ FinishSet([setNumber |-> activeSet.setNumber,
                firstServer |-> activeSet.firstServer,
                games |-> GamesAfter(w), tiebreak |-> None])

\* award_point: raises once the match is complete, so it is not enabled then.
AwardPoint(w) ==
  /\ ~IsComplete /\ activeSet # None
  /\ \/ ScoreTiebreakPoint(w)
     \/ WinTiebreak(w)
     \/ ScoreGamePoint(w)
     \/ WinGame(w)
     \/ WinSet(w)
  /\ CountPoint(w)

Next == \E w \in Players : AwardPoint(w)

Spec == Init /\ [][Next]_scoringVars

-----------------------------------------------------------------------------
(***************************************************************************)
(* Properties.                                                             *)
(***************************************************************************)

\* The variables hold values of the fields' types.
TypeOK ==
  /\ initialServer \in Players
  /\ completedSets \in Seq(SetResult)
  /\ activeSet \in SetState \union {None}
  /\ opportunities \in Score
  /\ breaks \in Score
  /\ totalPoints \in Nat

\* No set, tiebreak or game that award_point builds is refused by the
\* constructors of SetState, SetResult, TiebreakState and TiebreakResult: no
\* active game, set or tiebreak is already decided, a tiebreak is played exactly
\* at SetGames-all and starts with the player due to serve, and every completed
\* set and tiebreak has a score at which play must have stopped.
ActiveSetAccepted ==
  activeSet # None =>
    IF InTiebreak
    THEN /\ activeSet.games = [p \in Players |-> SetGames]
         /\ activeSet.gamePoints = Level
         /\ activeSet.tiebreak.firstServer = activeSet.firstServer
         /\ activeSet.tiebreak.target = TargetOf(activeSet.setNumber)
         /\ ~IsTerminal(activeSet.tiebreak.points, activeSet.tiebreak.target)
    ELSE /\ \A p \in Players : activeSet.games[p] <= SetGames
         /\ activeSet.games # [p \in Players |-> SetGames]
         /\ ~IsTerminal(activeSet.games, SetGames)
         /\ ~IsTerminal(activeSet.gamePoints, GamePoints)

ResultAccepted(r) ==
  /\ IsLegalSetScore(r.games, r.tiebreak # None)
  /\ r.tiebreak # None =>
       /\ r.tiebreak.firstServer = r.firstServer
       /\ r.tiebreak.target = TargetOf(r.setNumber)
       /\ IsMinimalTerminal(r.tiebreak.points, r.tiebreak.target)
       /\ TerminalFor(r.tiebreak.points, SetWinner(r), r.tiebreak.target)

SetScoresLegal ==
  /\ ActiveSetAccepted
  /\ \A i \in DOMAIN completedSets : ResultAccepted(completedSets[i])

\* The service order MatchState checks: set numbers are consecutive and each
\* set starts with the player due after the one before it.
FirstServerDue(n) ==
  IF n = 1 THEN initialServer ELSE NextSetServer(completedSets[n - 1])

ServiceOrderContinuous ==
  /\ \A n \in DOMAIN completedSets :
       /\ completedSets[n].setNumber = n
       /\ completedSets[n].firstServer = FirstServerDue(n)
  /\ activeSet # None =>
       /\ activeSet.setNumber = Len(completedSets) + 1
       /\ activeSet.firstServer = FirstServerDue(activeSet.setNumber)

\* The match stops at the set that clinches it and not before: there is an
\* active set exactly until a player has SetsToWin sets, only the last
\* completed set can give a player that many, and the format is not exceeded.
MatchStopsAtClinch ==
  /\ (activeSet = None) <=> IsComplete
  /\ \A p \in Players : \A n \in DOMAIN completedSets :
       WonAmong(completedSets, n, p) >= SetsToWin =>
         n = Len(completedSets) /\ p = SetWinner(completedSets[n])
  /\ Len(completedSets) <= BestOf
  /\ activeSet # None => activeSet.setNumber <= BestOf

\* The flag award_point counts as an opportunity is raised exactly when the
\* receiver is one point from winning the game.
BreakPointIsOnePointAway ==
  activeSet # None /\ ~InTiebreak =>
    (BreakPoint <=> GameWon(Receiver) /\ BreakOfServe(Receiver))

\* Service alternates from game to game through the whole match, across set
\* ends and through tiebreaks, where a tiebreak is the game of the player who
\* serves its first point.
GameServer == IF InTiebreak THEN activeSet.tiebreak.firstServer ELSE RegularServer
ServiceAlternates ==
  [][\A w \in Players :
       AwardPoint(w) /\ activeSet' # None =>
         GameServer' = IF GameWon(w) \/ TiebreakWon(w) THEN Other(GameServer)
                       ELSE GameServer]_scoringVars

\* The abstract view of a match: a race to SetsToWin sets.
Race == INSTANCE SetsRace WITH Target <- SetsToWin,
                               won <- [p \in Players |-> SetsWon(p)]
RaceSpec == Race!Spec
=============================================================================
