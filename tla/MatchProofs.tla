---------------------------- MODULE MatchProofs ----------------------------
(***************************************************************************)
(* Theorems about the scoring engine and about the paths simulated on it.  *)
(* The engine's invariant IInv is kept by every point, and by the sweep    *)
(* that ends an accelerated tiebreak; StatsInv relates both players'       *)
(* statistics to the engine's counts, and PathInv the games, the break     *)
(* events and the retirement boundary to its sets.  A settlement is final  *)
(* because nothing in PlayedInv is ever taken back, and that of a record   *)
(* is that of its path because, by GamesInv, it has fewer games at most.   *)
(***************************************************************************)
EXTENDS OfficialOutcomes, FiniteNumbers, FiniteSetTheorems, TLAPS

\* Arithmetic of scores ------------------------------------------------------

LEMMA PlayersFacts ==
  /\ \A p \in Players : Other(p) \in Players /\ Other(p) # p /\ Other(Other(p)) = p
  /\ Level \in Score
  /\ \A s \in Score : \A p \in Players : s[p] \in Nat /\ Increment(s, p) \in Score
BY DEF Players, Other, Level, Score, Increment

LEMMA IncrementValues ==
  ASSUME NEW s \in Score, NEW p \in Players
  PROVE  /\ Increment(s, p)[p] = s[p] + 1
         /\ Increment(s, p)[Other(p)] = s[Other(p)]
BY DEF Players, Other, Score, Increment

\* At most one player can be the winner of a score.
LEMMA WinnerUnique ==
  ASSUME NEW s \in Score, NEW target \in Nat, NEW p \in Players,
         TerminalFor(s, p, target)
  PROVE  TerminalWinner(s, target) = p
<1>1. \A q \in Players : TerminalFor(s, q, target) => q = p
  BY DEF TerminalFor, Players, Other, Score
<1>2. QED
  BY <1>1 DEF TerminalWinner

\* The point that decides a game, set or tiebreak is won by its winner.
LEMMA DecidingPoint ==
  ASSUME NEW s \in Score, NEW w \in Players, NEW target \in Nat,
         ~IsTerminal(s, target), IsTerminal(Increment(s, w), target)
  PROVE  /\ TerminalFor(Increment(s, w), w, target)
         /\ TerminalWinner(Increment(s, w), target) = w
         /\ IsMinimalTerminal(Increment(s, w), target)
<1>1. Increment(s, w) \in Score
  BY PlayersFacts
<1>2. TerminalFor(Increment(s, w), w, target)
  BY DEF IsTerminal, TerminalFor, Increment, Players, Other, Score
<1>3. TerminalWinner(Increment(s, w), target) = w
  BY <1>1, <1>2, WinnerUnique
<1>4. IsMinimalTerminal(Increment(s, w), target)
  <2>1. ~TerminalFor(s, w, target)
    BY DEF IsTerminal
  <2>2. Increment(s, w)[w] = IF Increment(s, w)[Other(w)] <= target - 2
                             THEN target ELSE Increment(s, w)[Other(w)] + 2
    BY <2>1, <1>2 DEF TerminalFor, Increment, Players, Other, Score
  <2>3. QED
    BY <1>2, <2>2 DEF IsMinimalTerminal
<1>5. QED
  BY <1>2, <1>3, <1>4

LEMMA TerminalWinnerType ==
  ASSUME NEW s, NEW target, IsTerminal(s, target)
  PROVE  /\ TerminalWinner(s, target) \in Players
         /\ TerminalFor(s, TerminalWinner(s, target), target)
BY DEF IsTerminal, TerminalWinner

-----------------------------------------------------------------------------
\* Type correctness ----------------------------------------------------------

LEMMA ServerTypes ==
  ASSUME TypeOK, activeSet # None
  PROVE  /\ activeSet \in SetState
         /\ RegularServer \in Players
         /\ Server \in Players
         /\ Receiver \in Players
<1>1. activeSet \in SetState
  BY DEF TypeOK
<1>2. RegularServer \in Players
  BY <1>1, PlayersFacts DEF RegularServer, SetState
<1>3. CASE InTiebreak
  <2>1. activeSet.tiebreak \in Tiebreak
    BY <1>1, <1>3 DEF SetState, InTiebreak
  <2>2. activeSet.tiebreak.firstServer \in Players
    BY <2>1 DEF Tiebreak
  <2>3. QED
    BY <1>1, <1>2, <1>3, <2>2, PlayersFacts DEF Server, Receiver, TiebreakServer
<1>4. CASE ~InTiebreak
  BY <1>1, <1>2, <1>4, PlayersFacts DEF Server, Receiver
<1>5. QED
  BY <1>3, <1>4

LEMMA NewSetType ==
  ASSUME NEW n \in Nat \ {0}, NEW first \in Players
  PROVE  NewSet(n, first) \in SetState
BY PlayersFacts DEF NewSet, SetState

LEMMA NextSetServerType ==
  ASSUME NEW r \in SetResult
  PROVE  NextSetServer(r) \in Players
<1>1. CASE r.tiebreak = None
  BY <1>1, PlayersFacts DEF NextSetServer, SetResult
<1>2. CASE r.tiebreak # None
  <2>1. r.tiebreak \in Tiebreak
    BY <1>2 DEF SetResult
  <2>2. r.tiebreak.firstServer \in Players
    BY <2>1 DEF Tiebreak
  <2>3. QED
    BY <1>2, <2>2, PlayersFacts DEF NextSetServer
<1>3. QED
  BY <1>1, <1>2

LEMMA FinishSetType ==
  ASSUME TypeOK, NEW r \in SetResult, FinishSet(r)
  PROVE  completedSets' \in Seq(SetResult) /\ activeSet' \in SetState \union {None}
<1>1. completedSets \in Seq(SetResult)
  BY DEF TypeOK
<1>2. completedSets' = Append(completedSets, r)
  BY DEF FinishSet
<1>3. r.setNumber + 1 \in Nat \ {0}
  BY DEF SetResult
<1>4. NewSet(r.setNumber + 1, NextSetServer(r)) \in SetState
  BY <1>3, NewSetType, NextSetServerType
<1>5. activeSet' = None \/ activeSet' = NewSet(r.setNumber + 1, NextSetServer(r))
  BY DEF FinishSet
<1>6. QED
  BY <1>1, <1>2, <1>4, <1>5

LEMMA PointTypes ==
  ASSUME TypeOK, activeSet # None, NEW w \in Players
  PROVE  /\ activeSet \in SetState /\ Server \in Players /\ Receiver \in Players
         /\ activeSet.games \in Score
         /\ activeSet.gamePoints \in Score
         /\ activeSet.setNumber \in Nat \ {0}
         /\ activeSet.firstServer \in Players
         /\ InTiebreak => /\ activeSet.tiebreak \in Tiebreak
                          /\ activeSet.tiebreak.points \in Score
                          /\ NextTiebreakPoints(w) \in Score
         /\ NextGamePoints(w) \in Score
         /\ GameWon(w) =>
              /\ TerminalWinner(NextGamePoints(w), GamePoints) \in Players
              /\ GamesAfter(w) \in Score
<1>1. activeSet \in SetState /\ Server \in Players /\ Receiver \in Players
  BY ServerTypes
<1>2. /\ activeSet.games \in Score
      /\ activeSet.gamePoints \in Score
      /\ activeSet.setNumber \in Nat \ {0}
      /\ activeSet.firstServer \in Players
  BY <1>1 DEF SetState
<1>3. InTiebreak => /\ activeSet.tiebreak \in Tiebreak
                    /\ activeSet.tiebreak.points \in Score
                    /\ NextTiebreakPoints(w) \in Score
  BY <1>1, PlayersFacts DEF SetState, InTiebreak, Tiebreak, NextTiebreakPoints
<1>4. NextGamePoints(w) \in Score
  BY <1>2, PlayersFacts DEF NextGamePoints
<1>5. GameWon(w) =>
        /\ TerminalWinner(NextGamePoints(w), GamePoints) \in Players
        /\ GamesAfter(w) \in Score
  BY <1>2, TerminalWinnerType, PlayersFacts DEF GameWon, GamesAfter
<1>6. QED
  BY <1>1, <1>2, <1>3, <1>4, <1>5

\* A point that does not decide the set leaves the same set in play.
LEMMA SetGoesOn ==
  ASSUME TypeOK, activeSet # None, NEW w \in Players,
         ScoreTiebreakPoint(w) \/ ScoreGamePoint(w) \/ WinGame(w)
  PROVE  /\ activeSet' \in SetState
         /\ activeSet'.setNumber = activeSet.setNumber
         /\ activeSet'.firstServer = activeSet.firstServer
         /\ UNCHANGED completedSets
         /\ ~SetWon(w)
<1>1. CASE ScoreTiebreakPoint(w)
  <2>1. [activeSet.tiebreak EXCEPT !.points = NextTiebreakPoints(w)] \in Tiebreak
    BY <1>1, PointTypes DEF ScoreTiebreakPoint, Tiebreak
  <2>2. activeSet' = [activeSet EXCEPT !.tiebreak =
                        [activeSet.tiebreak EXCEPT !.points = NextTiebreakPoints(w)]]
    BY <1>1 DEF ScoreTiebreakPoint
  <2>3. activeSet' \in SetState
    BY PointTypes, <2>1, <2>2 DEF SetState
  <2>4. QED
    BY <1>1, <2>2, <2>3, PointTypes DEF ScoreTiebreakPoint, SetState, SetWon, GameWon
<1>2. CASE ScoreGamePoint(w)
  BY <1>2, PointTypes DEF ScoreGamePoint, SetState, SetWon, TiebreakWon
<1>3. CASE WinGame(w)
  <2> DEFINE tb == IF GamesAfter(w) = [p \in Players |-> SetGames]
                   THEN [firstServer |-> Other(Server),
                         target |-> TargetOf(activeSet.setNumber), points |-> Level]
                   ELSE None
  <2>1. tb \in Tiebreak \union {None}
    BY PointTypes, PlayersFacts DEF Tiebreak, TargetOf
  <2>2. activeSet' = [activeSet EXCEPT !.games = GamesAfter(w),
                                       !.gamePoints = Level, !.tiebreak = tb]
    BY <1>3 DEF WinGame
  <2>3. GamesAfter(w) \in Score
    BY <1>3, PointTypes DEF WinGame
  <2> HIDE DEF tb
  <2>4. QED
    BY <1>3, <2>1, <2>2, <2>3, PointTypes, PlayersFacts DEF SetState, WinGame
<1>4. QED
  BY <1>1, <1>2, <1>3

LEMMA TypeStep ==
  ASSUME TypeOK, NEW w \in Players, AwardPoint(w)
  PROVE  TypeOK'
<1>1. activeSet # None
  BY DEF AwardPoint
<1>2. initialServer' \in Players /\ totalPoints' \in Nat
  BY DEF AwardPoint, CountPoint, TypeOK
<1>3. opportunities' \in Score
  BY <1>1, PointTypes, PlayersFacts DEF AwardPoint, CountPoint, TypeOK
<1>4. breaks' \in Score
  BY <1>1, PointTypes, PlayersFacts DEF AwardPoint, CountPoint, TypeOK, BreakOfServe
<1>5. completedSets' \in Seq(SetResult) /\ activeSet' \in SetState \union {None}
  <2>1. CASE ScoreTiebreakPoint(w) \/ ScoreGamePoint(w) \/ WinGame(w)
    BY <2>1, <1>1, SetGoesOn DEF TypeOK
  <2>2. CASE WinTiebreak(w)
    <3> DEFINE winner == TerminalWinner(NextTiebreakPoints(w), activeSet.tiebreak.target)
               r == [setNumber |-> activeSet.setNumber,
                     firstServer |-> activeSet.firstServer,
                     games |-> Increment(activeSet.games, winner),
                     tiebreak |-> [activeSet.tiebreak EXCEPT
                                     !.points = NextTiebreakPoints(w)]]
    <3>1. InTiebreak /\ winner \in Players
      BY <2>2, TerminalWinnerType DEF WinTiebreak, TiebreakWon
    <3>2. Increment(activeSet.games, winner) \in Score
      BY <3>1, <1>1, PointTypes, PlayersFacts
    <3>3. [activeSet.tiebreak EXCEPT !.points = NextTiebreakPoints(w)] \in Tiebreak
      BY <3>1, <1>1, PointTypes DEF Tiebreak
    <3>4. r \in SetResult
      BY <3>2, <3>3, <1>1, PointTypes DEF SetResult
    <3>5. FinishSet(r)
      BY <2>2 DEF WinTiebreak
    <3>6. QED
      BY <3>4, <3>5, FinishSetType
  <2>3. CASE WinSet(w)
    <3> DEFINE r == [setNumber |-> activeSet.setNumber,
                     firstServer |-> activeSet.firstServer,
                     games |-> GamesAfter(w), tiebreak |-> None]
    <3>1. r \in SetResult
      BY <2>3, <1>1, PointTypes DEF SetResult, WinSet
    <3>2. FinishSet(r)
      BY <2>3 DEF WinSet
    <3>3. QED
      BY <3>1, <3>2, FinishSetType
  <2>4. QED
    BY <2>1, <2>2, <2>3 DEF AwardPoint
<1>6. QED
  BY <1>2, <1>3, <1>4, <1>5 DEF TypeOK

\* Every state award_point can reach is made of values of the fields' types,
\* whatever the format and the targets.
THEOREM TypeCorrect == Spec => []TypeOK
<1>1. Init => TypeOK
  BY PlayersFacts, NewSetType DEF Init, TypeOK
<1>2. TypeOK /\ [Next]_scoringVars => TypeOK'
  BY TypeStep DEF Next, TypeOK, scoringVars
<1>3. QED
  BY <1>1, <1>2, PTL DEF Spec

-----------------------------------------------------------------------------
\* Counting sets -------------------------------------------------------------

LEMMA WonAmongFacts ==
  ASSUME NEW sets, NEW n \in Nat, NEW p \in Players
  PROVE  /\ WonAmong(sets, n, p) \in Nat
         /\ IsFiniteSet({i \in 1 .. n : SetWinner(sets[i]) = p})
         /\ n = 0 => WonAmong(sets, n, p) = 0
<1> DEFINE S == {i \in 1 .. n : SetWinner(sets[i]) = p}
<1>1. IsFiniteSet(1 .. n)
  BY FS_Interval
<1>2. IsFiniteSet(S)
  BY <1>1, FS_Subset
<1>3. n = 0 => S = {}
  OBVIOUS
<1>4. QED
  BY <1>2, <1>3, FS_CardinalityType, FS_EmptySet DEF WonAmong

\* Players win sets one at a time.
LEMMA WonAmongStep ==
  ASSUME NEW sets, NEW n \in Nat, NEW p \in Players
  PROVE  WonAmong(sets, n + 1, p) =
           WonAmong(sets, n, p) + IF SetWinner(sets[n + 1]) = p THEN 1 ELSE 0
<1> DEFINE S == {i \in 1 .. n : SetWinner(sets[i]) = p}
           T == {i \in 1 .. n + 1 : SetWinner(sets[i]) = p}
<1>1. IsFiniteSet(S) /\ Cardinality(S) \in Nat
  BY WonAmongFacts, FS_CardinalityType
<1>2. CASE SetWinner(sets[n + 1]) = p
  <2>1. T = S \union {n + 1} /\ n + 1 \notin S
    BY <1>2
  <2>2. Cardinality(T) = Cardinality(S) + 1
    BY <1>1, <2>1, FS_AddElement
  <2>3. QED
    BY <1>2, <2>2 DEF WonAmong
<1>3. CASE SetWinner(sets[n + 1]) # p
  <2>1. T = S
    BY <1>3
  <2>2. QED
    BY <1>1, <1>3, <2>1 DEF WonAmong
<1>4. QED
  BY <1>2, <1>3

LEMMA WonAmongMonotone ==
  ASSUME NEW sets, NEW m \in Nat, NEW n \in Nat, m <= n, NEW p \in Players
  PROVE  WonAmong(sets, m, p) <= WonAmong(sets, n, p)
<1> DEFINE S(k) == {i \in 1 .. k : SetWinner(sets[i]) = p}
<1>1. S(m) \subseteq S(n) /\ IsFiniteSet(S(n))
  BY WonAmongFacts
<1>2. QED
  BY <1>1, FS_Subset DEF WonAmong

\* Every set has exactly one winner.
LEMMA WonAmongTotal ==
  ASSUME NEW sets, NEW n \in Nat
  PROVE  WonAmong(sets, n, 0) + WonAmong(sets, n, 1) = n
<1> DEFINE S(p) == {i \in 1 .. n : SetWinner(sets[i]) = p}
<1>1. IsFiniteSet(S(0)) /\ IsFiniteSet(S(1))
  BY WonAmongFacts DEF Players
<1>2. S(0) \union S(1) = 1 .. n /\ S(0) \cap S(1) = {}
  BY DEF SetWinner
<1>3. Cardinality(1 .. n) = n
  BY FS_Interval
<1>4. Cardinality({}) = 0
  BY FS_EmptySet
<1>5. Cardinality(S(0) \union S(1)) =
        Cardinality(S(0)) + Cardinality(S(1)) - Cardinality(S(0) \cap S(1))
  BY <1>1, FS_Union
<1>6. WonAmong(sets, n, 0) = Cardinality(S(0)) /\ WonAmong(sets, n, 1) = Cardinality(S(1))
  BY DEF WonAmong
<1>7. WonAmong(sets, n, 0) \in Nat /\ WonAmong(sets, n, 1) \in Nat
  BY WonAmongFacts DEF Players
<1>8. Cardinality(S(0) \union S(1)) = n /\ Cardinality(S(0) \cap S(1)) = 0
  BY <1>2, <1>3, <1>4
<1> HIDE DEF S
<1>9. QED
  BY <1>5, <1>6, <1>7, <1>8

\* What the sets before the last say is not changed by one more set.
LEMMA WonAmongAppend ==
  ASSUME NEW sets \in Seq(SetResult), NEW r \in SetResult,
         NEW n \in 0 .. Len(sets), NEW p \in Players
  PROVE  WonAmong(Append(sets, r), n, p) = WonAmong(sets, n, p)
<1>1. \A i \in 1 .. n : Append(sets, r)[i] = sets[i]
  OBVIOUS
<1>2. {i \in 1 .. n : SetWinner(Append(sets, r)[i]) = p}
        = {i \in 1 .. n : SetWinner(sets[i]) = p}
  BY <1>1
<1>3. QED
  BY <1>2 DEF WonAmong

LEMMA WonAmongLast ==
  ASSUME NEW sets \in Seq(SetResult), NEW r \in SetResult, NEW p \in Players
  PROVE  WonAmong(Append(sets, r), Len(sets) + 1, p)
           = WonAmong(sets, Len(sets), p) + IF SetWinner(r) = p THEN 1 ELSE 0
<1>1. Append(sets, r)[Len(sets) + 1] = r /\ Len(sets) \in Nat
  OBVIOUS
<1>2. WonAmong(Append(sets, r), Len(sets), p) = WonAmong(sets, Len(sets), p)
  BY <1>1, WonAmongAppend
<1> DEFINE longer == Append(sets, r)
           n == Len(sets)
<1>3. longer[n + 1] = r /\ n \in Nat /\ WonAmong(longer, n, p) = WonAmong(sets, n, p)
  BY <1>1, <1>2
<1> HIDE DEF longer, n
<1>4. WonAmong(longer, n + 1, p)
        = WonAmong(longer, n, p) + IF SetWinner(longer[n + 1]) = p THEN 1 ELSE 0
  BY <1>3, WonAmongStep
<1>5. WonAmong(longer, n + 1, p)
        = WonAmong(sets, n, p) + IF SetWinner(r) = p THEN 1 ELSE 0
  BY <1>3, <1>4
<1>6. QED
  BY <1>5 DEF longer, n

-----------------------------------------------------------------------------
\* The inductive invariant ---------------------------------------------------

BreaksWereChances == \A p \in Players : breaks[p] <= opportunities[p]
NobodyPassesClinch == \A p \in Players : SetsWon(p) <= SetsToWin

IInv == /\ TypeOK
        /\ SetScoresLegal
        /\ ServiceOrderContinuous
        /\ NobodyPassesClinch
        /\ MatchStopsAtClinch
        /\ BreaksWereChances

\* The result a set-deciding point hands to _finish_set.
IsResult(r) ==
  /\ r \in SetResult
  /\ r.setNumber = activeSet.setNumber
  /\ r.firstServer = activeSet.firstServer
  /\ ResultAccepted(r)

LEMMA TiebreakDecidesSet ==
  ASSUME TypeOK, ActiveSetAccepted, NEW w \in Players, AwardPoint(w), WinTiebreak(w)
  PROVE  \E r : /\ IsResult(r) /\ FinishSet(r)
               /\ r.tiebreak # None /\ r.games = Increment(activeSet.games, w)
<1> DEFINE tb == activeSet.tiebreak
           points == NextTiebreakPoints(w)
           games == Increment(activeSet.games, w)
           r == [setNumber |-> activeSet.setNumber,
                 firstServer |-> activeSet.firstServer,
                 games |-> games,
                 tiebreak |-> [tb EXCEPT !.points = points]]
<1>1. activeSet \in SetState /\ activeSet # None /\ InTiebreak
  BY DEF AwardPoint, WinTiebreak, TiebreakWon, TypeOK
<1>2. /\ tb \in Tiebreak /\ tb.points \in Score /\ tb.target \in Nat
      /\ tb.firstServer \in Players
  BY <1>1, RulesAssumption DEF SetState, InTiebreak, Tiebreak
<1>3. /\ activeSet.games = [p \in Players |-> SetGames]
      /\ tb.firstServer = activeSet.firstServer
      /\ tb.target = TargetOf(activeSet.setNumber)
      /\ ~IsTerminal(tb.points, tb.target)
  BY <1>1 DEF ActiveSetAccepted
<1>4. points = Increment(tb.points, w) /\ IsTerminal(points, tb.target)
  BY DEF WinTiebreak, TiebreakWon, NextTiebreakPoints
<1>5. /\ TerminalWinner(points, tb.target) = w
      /\ TerminalFor(points, w, tb.target)
      /\ IsMinimalTerminal(points, tb.target)
  BY <1>2, <1>3, <1>4, DecidingPoint
<1>6. points \in Score /\ games \in Score
  BY <1>1, <1>2, <1>4, PlayersFacts DEF SetState
<1>7. [tb EXCEPT !.points = points] \in Tiebreak
  BY <1>2, <1>6 DEF Tiebreak
<1>8. games[w] = SetGames + 1 /\ games[Other(w)] = SetGames
  BY <1>3, RulesAssumption DEF Increment, Players, Other
<1>9. r \in SetResult
  BY <1>1, <1>6, <1>7 DEF SetResult, SetState
<1>10. r.tiebreak = [tb EXCEPT !.points = points] /\ r.tiebreak # None
  BY <1>7, NoneAssumption
<1>11. /\ r.tiebreak.firstServer = tb.firstServer
       /\ r.tiebreak.target = tb.target
       /\ r.tiebreak.points = points
  BY <1>2, <1>10 DEF Tiebreak
<1>12. SetWinner(r) = w
  BY <1>8, RulesAssumption DEF SetWinner, Players, Other
<1>13. IsLegalSetScore(r.games, TRUE)
  BY <1>8 DEF IsLegalSetScore
<1>14. ResultAccepted(r)
  BY <1>3, <1>5, <1>10, <1>11, <1>12, <1>13 DEF ResultAccepted
<1>15. FinishSet(r)
  BY <1>5 DEF WinTiebreak
<1>16. QED
  BY <1>9, <1>10, <1>14, <1>15 DEF IsResult

LEMMA GameDecidesSet ==
  ASSUME TypeOK, ActiveSetAccepted, NEW w \in Players, AwardPoint(w), WinSet(w)
  PROVE  \E r : /\ IsResult(r) /\ FinishSet(r)
               /\ r.tiebreak = None /\ r.games = Increment(activeSet.games, w)
<1> DEFINE r == [setNumber |-> activeSet.setNumber,
                 firstServer |-> activeSet.firstServer,
                 games |-> GamesAfter(w), tiebreak |-> None]
           before == activeSet.games
<1>1. activeSet \in SetState /\ activeSet # None /\ ~InTiebreak
  BY DEF AwardPoint, WinSet, GameWon, TypeOK
<1>2. before \in Score /\ activeSet.gamePoints \in Score
  BY <1>1 DEF SetState
<1>3. /\ \A p \in Players : before[p] <= SetGames
      /\ before # [p \in Players |-> SetGames]
      /\ ~IsTerminal(before, SetGames)
      /\ ~IsTerminal(activeSet.gamePoints, GamePoints)
  BY <1>1 DEF ActiveSetAccepted
<1>4. TerminalWinner(NextGamePoints(w), GamePoints) = w
  BY <1>2, <1>3, DecidingPoint, RulesAssumption DEF WinSet, GameWon, NextGamePoints
<1>5. GamesAfter(w) = Increment(before, w)
  BY <1>4 DEF GamesAfter
<1>6. IsTerminal(Increment(before, w), SetGames)
  BY <1>1, <1>5 DEF WinSet, SetWon, TiebreakWon
<1>7. TerminalFor(Increment(before, w), w, SetGames)
  BY <1>2, <1>3, <1>6, DecidingPoint, RulesAssumption
<1>8. r \in SetResult
  BY <1>1, <1>2, <1>5, PlayersFacts DEF SetResult, SetState
<1>9. ~TerminalFor(before, w, SetGames)
  BY <1>3 DEF IsTerminal
<1>10. IsLegalSetScore(Increment(before, w), FALSE)
  <2>1. /\ Increment(before, w)[w] = before[w] + 1
        /\ Increment(before, w)[Other(w)] = before[Other(w)]
        /\ before[w] \in Nat /\ before[Other(w)] \in Nat
    BY <1>2, IncrementValues, PlayersFacts
  <2>2. /\ before[w] + 1 >= SetGames /\ before[w] + 1 - before[Other(w)] >= 2
        /\ ~(before[w] >= SetGames /\ before[w] - before[Other(w)] >= 2)
        /\ before[w] <= SetGames
    BY <1>3, <1>7, <1>9, <2>1 DEF TerminalFor
  <2>3. \/ before[w] + 1 = SetGames /\ before[Other(w)] <= SetGames - 2
        \/ before[w] + 1 = SetGames + 1 /\ before[Other(w)] = SetGames - 1
    BY <2>1, <2>2, RulesAssumption
  <2>4. QED
    BY <2>1, <2>3 DEF IsLegalSetScore
<1>11. ResultAccepted(r)
  BY <1>5, <1>10 DEF ResultAccepted
<1>12. FinishSet(r)
  BY DEF WinSet
<1>13. QED
  BY <1>5, <1>8, <1>11, <1>12 DEF IsResult

\* A set that has just begun is accepted.
LEMMA NextSetAccepted ==
  ASSUME NEW r, FinishSet(r)
  PROVE  ActiveSetAccepted'
<1>1. \/ activeSet' = None
      \/ activeSet' = NewSet(r.setNumber + 1, NextSetServer(r))
  BY DEF FinishSet
<1>2. /\ ~IsTerminal(Level, GamePoints) /\ ~IsTerminal(Level, SetGames)
      /\ Level # [p \in Players |-> SetGames]
      /\ \A p \in Players : Level[p] <= SetGames
  BY RulesAssumption DEF IsTerminal, TerminalFor, Level, Players, Other
<1>3. QED
  BY <1>1, <1>2 DEF ActiveSetAccepted, InTiebreak, NewSet

\* A set still in play is never already decided.
LEMMA ActiveSetStep ==
  ASSUME TypeOK, ActiveSetAccepted, NEW w \in Players, AwardPoint(w)
  PROVE  ActiveSetAccepted'
<1>1. activeSet \in SetState /\ activeSet # None
  BY DEF AwardPoint, TypeOK
<1>2. activeSet.games \in Score /\ activeSet.gamePoints \in Score
  BY <1>1 DEF SetState
<1>3. CASE ScoreTiebreakPoint(w)
  <2>1. InTiebreak /\ activeSet.tiebreak \in Tiebreak
    BY <1>1, <1>3 DEF ScoreTiebreakPoint, InTiebreak, SetState
  <2> DEFINE tb == [activeSet.tiebreak EXCEPT !.points = NextTiebreakPoints(w)]
  <2>2. activeSet' = [activeSet EXCEPT !.tiebreak = tb]
    BY <1>3 DEF ScoreTiebreakPoint
  <2>3. /\ tb.firstServer = activeSet.tiebreak.firstServer
        /\ tb.target = activeSet.tiebreak.target
        /\ tb.points = NextTiebreakPoints(w)
        /\ tb \in Tiebreak
    BY <2>1, PlayersFacts DEF Tiebreak, NextTiebreakPoints
  <2>4. tb # None
    BY <2>3, NoneAssumption
  <2> HIDE DEF tb
  <2>5. /\ activeSet'.tiebreak = tb
        /\ activeSet'.games = activeSet.games
        /\ activeSet'.gamePoints = activeSet.gamePoints
        /\ activeSet'.firstServer = activeSet.firstServer
        /\ activeSet'.setNumber = activeSet.setNumber
    BY <1>1, <2>2 DEF SetState
  <2>6. ~IsTerminal(tb.points, tb.target)
    BY <1>3, <2>1, <2>3 DEF ScoreTiebreakPoint, TiebreakWon
  <2>7. QED
    BY <1>1, <2>1, <2>3, <2>4, <2>5, <2>6 DEF ActiveSetAccepted, InTiebreak
<1>4. CASE ScoreGamePoint(w)
  <2>1. /\ activeSet'.tiebreak = activeSet.tiebreak
        /\ activeSet'.games = activeSet.games
        /\ activeSet'.gamePoints = NextGamePoints(w)
    BY <1>1, <1>4 DEF ScoreGamePoint, SetState
  <2>2. ~InTiebreak /\ ~IsTerminal(NextGamePoints(w), GamePoints)
    BY <1>4 DEF ScoreGamePoint, GameWon
  <2>3. QED
    BY <1>1, <2>1, <2>2 DEF ActiveSetAccepted, InTiebreak
<1>5. CASE WinGame(w)
  <2> DEFINE tb == IF GamesAfter(w) = [p \in Players |-> SetGames]
                   THEN [firstServer |-> Other(Server),
                         target |-> TargetOf(activeSet.setNumber), points |-> Level]
                   ELSE None
  <2>1. activeSet' = [activeSet EXCEPT !.games = GamesAfter(w),
                                       !.gamePoints = Level, !.tiebreak = tb]
    BY <1>5 DEF WinGame
  <2>2. ~InTiebreak
    BY <1>5 DEF WinGame, GameWon
  <2>3. TerminalWinner(NextGamePoints(w), GamePoints) = w
    BY <1>1, <1>2, <1>5, <2>2, DecidingPoint, RulesAssumption
       DEF ActiveSetAccepted, WinGame, GameWon, NextGamePoints
  <2>4. GamesAfter(w) = Increment(activeSet.games, w)
    BY <2>3 DEF GamesAfter
  <2>5. ~IsTerminal(GamesAfter(w), SetGames)
    BY <1>5 DEF WinGame, SetWon
  <2>6. /\ \A p \in Players : activeSet.games[p] <= SetGames
        /\ activeSet.games # [p \in Players |-> SetGames]
    BY <1>1, <2>2 DEF ActiveSetAccepted
  <2>7. \A p \in Players : GamesAfter(w)[p] <= SetGames
    <3>1. GamesAfter(w)[w] = activeSet.games[w] + 1
          /\ GamesAfter(w)[Other(w)] = activeSet.games[Other(w)]
      BY <1>2, <2>4, IncrementValues
    <3>2. ~TerminalFor(GamesAfter(w), w, SetGames)
      BY <2>5 DEF IsTerminal
    <3>3. activeSet.games[w] = SetGames => activeSet.games[Other(w)] # SetGames
      BY <1>2, <2>6 DEF Score, Players, Other
    <3>4. GamesAfter(w)[w] <= SetGames
      <4>1. /\ activeSet.games[w] \in Nat /\ activeSet.games[Other(w)] \in Nat
            /\ activeSet.games[w] <= SetGames /\ activeSet.games[Other(w)] <= SetGames
        BY <1>2, <2>6, PlayersFacts
      <4>2. ~(/\ GamesAfter(w)[w] >= SetGames
              /\ GamesAfter(w)[w] - GamesAfter(w)[Other(w)] >= 2)
        BY <3>2 DEF TerminalFor
      <4>3. QED
        BY <3>1, <3>3, <4>1, <4>2, RulesAssumption
    <3>5. QED
      BY <2>6, <3>1, <3>4 DEF Players, Other
  <2>8. /\ activeSet'.games = GamesAfter(w)
        /\ activeSet'.gamePoints = Level
        /\ activeSet'.tiebreak = tb
        /\ activeSet'.firstServer = activeSet.firstServer
        /\ activeSet'.setNumber = activeSet.setNumber
    BY <1>1, <2>1 DEF SetState
  <2>9. ~IsTerminal(Level, GamePoints)
    BY RulesAssumption DEF IsTerminal, TerminalFor, Level, Players, Other
  <2>10. CASE GamesAfter(w) = [p \in Players |-> SetGames]
    <3>1. tb = [firstServer |-> Other(Server),
                target |-> TargetOf(activeSet.setNumber), points |-> Level]
      BY <2>10
    <3>2. tb \in Tiebreak
      <4>1. Other(Server) \in Players /\ Level \in Score
        BY ServerTypes, <1>1, PlayersFacts
      <4>2. TargetOf(activeSet.setNumber) \in {TiebreakTarget, DecidingTarget}
        BY DEF TargetOf
      <4> HIDE DEF tb
      <4>3. QED
        BY <3>1, <4>1, <4>2 DEF Tiebreak
    <3>3. tb # None
      BY <3>2, NoneAssumption
    <3>4. Server = Other(activeSet.firstServer)
      <4>1. Sum(GamesAfter(w)) = Sum(activeSet.games) + 1
        BY <1>2, <2>4 DEF Sum, Score, Increment, Players
      <4>2. Sum(GamesAfter(w)) = SetGames + SetGames
        BY <2>10 DEF Sum, Players
      <4>3. Sum(activeSet.games) % 2 # 0
        BY <1>2, <4>1, <4>2, RulesAssumption DEF Sum, Score, Players
      <4>4. QED
        BY <2>2, <4>3 DEF Server, RegularServer
    <3>5. tb.firstServer = activeSet.firstServer
      BY <1>1, <3>1, <3>4, PlayersFacts DEF SetState
    <3>6. /\ tb.target = TargetOf(activeSet.setNumber) /\ tb.points = Level
          /\ tb.target \in Nat /\ tb.target >= 2
      BY <3>1, RulesAssumption DEF TargetOf
    <3>7. ~IsTerminal(Level, tb.target)
      BY <3>6 DEF IsTerminal, TerminalFor, Level, Players, Other
    <3> HIDE DEF tb
    <3>8. QED
      BY <2>8, <2>10, <3>3, <3>5, <3>6, <3>7 DEF ActiveSetAccepted, InTiebreak
  <2>11. CASE GamesAfter(w) # [p \in Players |-> SetGames]
    BY <2>5, <2>7, <2>8, <2>9, <2>11 DEF ActiveSetAccepted, InTiebreak
  <2>12. QED
    BY <2>10, <2>11
<1>7. CASE WinTiebreak(w)
  BY <1>7, NextSetAccepted, TiebreakDecidesSet
<1>8. CASE WinSet(w)
  BY <1>8, NextSetAccepted, GameDecidesSet
<1>9. QED
  BY <1>3, <1>4, <1>5, <1>7, <1>8 DEF AwardPoint

\* A point either leaves the set in play or hands _finish_set a legal result.
LEMMA DecidedSet ==
  ASSUME TypeOK, ActiveSetAccepted, NEW w \in Players, AwardPoint(w)
  PROVE  IF SetWon(w) THEN \E r : IsResult(r) /\ FinishSet(r)
         ELSE /\ UNCHANGED completedSets
              /\ activeSet' \in SetState
              /\ activeSet'.setNumber = activeSet.setNumber
              /\ activeSet'.firstServer = activeSet.firstServer
<1>1. CASE WinTiebreak(w)
  BY <1>1, TiebreakDecidesSet DEF WinTiebreak, SetWon
<1>2. CASE WinSet(w)
  BY <1>2, GameDecidesSet DEF WinSet
<1>3. CASE WinGame(w) \/ ScoreGamePoint(w) \/ ScoreTiebreakPoint(w)
  BY <1>3, SetGoesOn DEF AwardPoint
<1>4. QED
  BY <1>1, <1>2, <1>3 DEF AwardPoint

\* All that the order of the sets and the end of the match depend on.
SetsMove ==
  \/ \E r : IsResult(r) /\ FinishSet(r)
  \/ /\ UNCHANGED completedSets /\ activeSet' \in SetState
     /\ activeSet'.setNumber = activeSet.setNumber
     /\ activeSet'.firstServer = activeSet.firstServer

LEMMA PointMovesSets ==
  ASSUME IInv, NEW w \in Players, AwardPoint(w)
  PROVE  SetsMove /\ ActiveSetAccepted' /\ UNCHANGED initialServer
  BY DecidedSet, ActiveSetStep DEF IInv, SetScoresLegal, SetsMove, AwardPoint, CountPoint

LEMMA ScoresStep ==
  ASSUME TypeOK, SetScoresLegal, SetsMove, ActiveSetAccepted'
  PROVE  SetScoresLegal'
<1>2. \A i \in DOMAIN completedSets' : ResultAccepted(completedSets'[i])
  <2>1. CASE UNCHANGED completedSets
    BY <2>1 DEF SetScoresLegal
  <2>2. CASE \E r : IsResult(r) /\ FinishSet(r)
    <3>1. PICK r : IsResult(r) /\ FinishSet(r)
      BY <2>2
    <3>2. completedSets' = Append(completedSets, r) /\ completedSets \in Seq(SetResult)
      BY <3>1 DEF FinishSet, TypeOK
    <3>3. r \in SetResult /\ ResultAccepted(r)
      BY <3>1 DEF IsResult
    <3>4. QED
      BY <3>2, <3>3 DEF SetScoresLegal
  <2>3. QED
    BY <2>1, <2>2 DEF SetsMove
<1>3. QED
  BY <1>2 DEF SetScoresLegal, ResultAccepted

LEMMA ServiceOrderStep ==
  ASSUME IInv, activeSet # None, SetsMove, UNCHANGED initialServer
  PROVE  ServiceOrderContinuous'
<1>1. /\ TypeOK /\ ActiveSetAccepted /\ ServiceOrderContinuous
      /\ completedSets \in Seq(SetResult)
  BY DEF IInv, SetScoresLegal, TypeOK
<1>2. CASE /\ UNCHANGED completedSets
           /\ activeSet'.setNumber = activeSet.setNumber
           /\ activeSet'.firstServer = activeSet.firstServer
  BY <1>1, <1>2 DEF ServiceOrderContinuous, FirstServerDue
<1>3. CASE \E r : IsResult(r) /\ FinishSet(r)
  <2>1. PICK r : IsResult(r) /\ FinishSet(r)
    BY <1>3
  <2>2. /\ r \in SetResult
        /\ r.setNumber = Len(completedSets) + 1
        /\ r.firstServer = FirstServerDue(Len(completedSets) + 1)
    BY <1>1, <2>1 DEF IsResult, ServiceOrderContinuous
  <2>3. completedSets' = Append(completedSets, r)
    BY <2>1 DEF FinishSet
  <2>4. /\ Len(completedSets') = Len(completedSets) + 1
        /\ DOMAIN completedSets' = 1 .. Len(completedSets) + 1
        /\ completedSets'[Len(completedSets) + 1] = r
        /\ \A i \in 1 .. Len(completedSets) : completedSets'[i] = completedSets[i]
    BY <1>1, <2>2, <2>3
  <2>5. ASSUME NEW n \in 1 .. Len(completedSets) + 1
        PROVE  FirstServerDue(n)' = FirstServerDue(n)
    <3>1. n # 1 => n - 1 \in 1 .. Len(completedSets)
      BY <1>1
    <3>2. n # 1 => completedSets'[n - 1] = completedSets[n - 1]
      BY <2>4, <3>1
    <3>3. QED
      BY <1>1, <3>2 DEF FirstServerDue, NextSetServer
  <2>6. FirstServerDue(Len(completedSets) + 1)' = NextSetServer(r)
    <3>1. Len(completedSets') + 1 # 1 /\ Len(completedSets') + 1 - 1 = Len(completedSets) + 1
      BY <1>1, <2>4
    <3>2. QED
      BY <2>4, <3>1 DEF FirstServerDue, NextSetServer
  <2>7. \A n \in DOMAIN completedSets' :
          /\ completedSets'[n].setNumber = n
          /\ completedSets'[n].firstServer = FirstServerDue(n)'
    BY <1>1, <2>2, <2>4, <2>5 DEF ServiceOrderContinuous
  <2>8. activeSet' # None =>
          /\ activeSet'.setNumber = Len(completedSets) + 2
          /\ activeSet'.firstServer = NextSetServer(r)
    BY <1>1, <2>1, <2>2 DEF FinishSet, NewSet
  <2>9. Len(completedSets') + 1 = Len(completedSets) + 2
    BY <1>1, <2>4
  <2>10. activeSet' # None =>
           /\ activeSet'.setNumber = Len(completedSets') + 1
           /\ activeSet'.firstServer = FirstServerDue(activeSet.setNumber)'
    BY <2>6, <2>8, <2>9 DEF FirstServerDue
  <2>11. QED
    BY <2>7, <2>10 DEF ServiceOrderContinuous
<1>4. QED
  BY <1>2, <1>3 DEF SetsMove

LEMMA FormatFacts ==
  /\ SetsToWin \in Nat /\ SetsToWin >= 1
  /\ BestOf = SetsToWin + SetsToWin - 1
BY RulesAssumption DEF SetsToWin

LEMMA SetsWonFacts ==
  ASSUME TypeOK
  PROVE  /\ \A p \in Players : SetsWon(p) \in Nat
         /\ SetsWon(0) + SetsWon(1) = Len(completedSets)
<1>1. Len(completedSets) \in Nat
  BY DEF TypeOK
<1>2. QED
  BY <1>1, WonAmongFacts, WonAmongTotal DEF SetsWon

\* A completed set adds one to its winner's sets; no other point changes them.
LEMMA SetsWonStep ==
  ASSUME TypeOK, SetsMove
  PROVE  \/ UNCHANGED completedSets /\ activeSet' # None
         \/ \E r \in SetResult :
              /\ completedSets' = Append(completedSets, r)
              /\ r.setNumber = activeSet.setNumber
              /\ \A p \in Players :
                   SetsWon(p)' = SetsWon(p) + IF SetWinner(r) = p THEN 1 ELSE 0
              /\ activeSet' = IF SetsWon(SetWinner(r))' = SetsToWin THEN None
                              ELSE NewSet(r.setNumber + 1, NextSetServer(r))
<1>1. completedSets \in Seq(SetResult)
  BY DEF TypeOK
<1>2. CASE UNCHANGED completedSets /\ activeSet' \in SetState
  BY <1>2, NoneAssumption
<1>3. CASE \E r : IsResult(r) /\ FinishSet(r)
  <2>1. PICK r : IsResult(r) /\ FinishSet(r)
    BY <1>3
  <2>2. r \in SetResult /\ r.setNumber = activeSet.setNumber
    BY <2>1 DEF IsResult
  <2>3. completedSets' = Append(completedSets, r)
    BY <2>1 DEF FinishSet
  <2>4. Len(completedSets') = Len(completedSets) + 1
    BY <1>1, <2>2, <2>3
  <2>5. ASSUME NEW p \in Players
        PROVE  SetsWon(p)' = SetsWon(p) + IF SetWinner(r) = p THEN 1 ELSE 0
    <3>1. SetsWon(p)' = WonAmong(Append(completedSets, r), Len(completedSets) + 1, p)
      BY <2>3, <2>4 DEF SetsWon, WonAmong
    <3>2. QED
      BY <1>1, <2>2, <3>1, WonAmongLast DEF SetsWon
  <2>6. activeSet' = IF SetsWon(SetWinner(r))' = SetsToWin THEN None
                     ELSE NewSet(r.setNumber + 1, NextSetServer(r))
    BY <2>1, <2>3 DEF FinishSet, SetsWon, WonAmong
  <2>7. QED
    BY <2>2, <2>3, <2>5, <2>6
<1>4. QED
  BY <1>2, <1>3 DEF SetsMove

LEMMA ClinchStep ==
  ASSUME IInv, activeSet # None, SetsMove
  PROVE  NobodyPassesClinch' /\ MatchStopsAtClinch'
<1>1. /\ TypeOK /\ completedSets \in Seq(SetResult)
      /\ activeSet \in SetState
      /\ activeSet.setNumber = Len(completedSets) + 1
      /\ Len(completedSets) \in Nat
  BY DEF IInv, TypeOK, ServiceOrderContinuous
<1>2. \A p \in Players : SetsWon(p) \in Nat /\ SetsWon(p) < SetsToWin
  <2>1. ~IsComplete
    BY DEF IInv, MatchStopsAtClinch
  <2>2. QED
    BY <1>1, <2>1, SetsWonFacts, FormatFacts DEF IInv, NobodyPassesClinch, IsComplete
<1>3. CASE UNCHANGED completedSets /\ activeSet' # None
  <2>1. UNCHANGED IsComplete /\ \A p \in Players : UNCHANGED SetsWon(p)
    BY <1>3 DEF IsComplete, SetsWon, WonAmong
  <2>2. activeSet'.setNumber = activeSet.setNumber
    <3>1. CASE \E r : IsResult(r) /\ FinishSet(r)
      <4>1. PICK r : IsResult(r) /\ FinishSet(r)
        BY <3>1
      <4>2. completedSets' = Append(completedSets, r) /\ r \in SetResult
        BY <4>1 DEF FinishSet, IsResult
      <4>3. Len(completedSets') = Len(completedSets) + 1
        BY <1>1, <4>2
      <4>4. QED
        BY <1>1, <1>3, <4>3
    <3>2. QED
      BY <3>1 DEF SetsMove
  <2>3. NobodyPassesClinch'
    BY <2>1 DEF IInv, NobodyPassesClinch
  <2>4. QED
    BY <1>1, <1>3, <2>1, <2>2, <2>3 DEF IInv, MatchStopsAtClinch, WonAmong
<1>4. ASSUME NEW r \in SetResult,
             completedSets' = Append(completedSets, r),
             r.setNumber = activeSet.setNumber,
             \A p \in Players :
               SetsWon(p)' = SetsWon(p) + IF SetWinner(r) = p THEN 1 ELSE 0,
             activeSet' = IF SetsWon(SetWinner(r))' = SetsToWin THEN None
                          ELSE NewSet(r.setNumber + 1, NextSetServer(r))
      PROVE  NobodyPassesClinch' /\ MatchStopsAtClinch'
  <2>1. SetWinner(r) \in Players
    BY DEF SetWinner, Players
  <2>2. \A p \in Players : /\ SetsWon(p)' \in Nat /\ SetsWon(p)' <= SetsToWin
                           /\ SetsWon(p)' = SetsToWin => p = SetWinner(r)
    BY <1>2, <1>4, FormatFacts
  <2>3. Len(completedSets') = Len(completedSets) + 1
    BY <1>1, <1>4
  <2>4. NewSet(r.setNumber + 1, NextSetServer(r)) \in SetState
    BY NewSetType, NextSetServerType DEF SetResult
  <2>5. (activeSet' = None) <=> IsComplete'
    BY <1>4, <2>1, <2>2, <2>4, NoneAssumption DEF IsComplete
  <2>6. ASSUME NEW p \in Players, NEW n \in DOMAIN completedSets',
               WonAmong(completedSets', n, p) >= SetsToWin
        PROVE  n = Len(completedSets') /\ p = SetWinner(completedSets'[n])
    <3>1. CASE n = Len(completedSets) + 1
      <4>1. WonAmong(completedSets', n, p) = SetsWon(p)'
        BY <2>3, <3>1 DEF SetsWon
      <4>2. p = SetWinner(r)
        BY <2>2, <2>6, <4>1, FormatFacts
      <4>3. completedSets'[n] = r
        BY <1>1, <1>4, <3>1
      <4>4. QED
        BY <2>3, <3>1, <4>2, <4>3
    <3>2. CASE n # Len(completedSets) + 1
      <4>1. n \in 0 .. Len(completedSets) /\ n \in Nat
        BY <1>1, <1>4, <3>2
      <4>2. WonAmong(completedSets', n, p) = WonAmong(completedSets, n, p)
        BY <1>1, <1>4, <4>1, WonAmongAppend
      <4>3. WonAmong(completedSets, n, p) <= SetsWon(p)
        BY <1>1, <4>1, WonAmongMonotone DEF SetsWon
      <4>4. WonAmong(completedSets, n, p) \in Nat
        BY <4>1, WonAmongFacts
      <4>5. FALSE
        BY <1>2, <2>6, <4>2, <4>3, <4>4, FormatFacts
      <4>6. QED
        BY <4>5
    <3>3. QED
      BY <3>1, <3>2
  <2>7. SetsWon(0) + SetsWon(1) = Len(completedSets)
    BY <1>1, SetsWonFacts
  <2>8. Len(completedSets) + 1 <= BestOf
    BY <1>2, <2>7, FormatFacts DEF Players
  <2>9. activeSet' # None => activeSet'.setNumber <= BestOf
    <3>1. SUFFICES ASSUME activeSet' # None
                   PROVE  activeSet'.setNumber <= BestOf
      OBVIOUS
    <3>2. SetsWon(0)' < SetsToWin /\ SetsWon(1)' < SetsToWin
      BY <2>2, <2>5, <3>1, FormatFacts DEF IsComplete, Players
    <3>3. SetsWon(0)' + SetsWon(1)' = Len(completedSets) + 1
      BY <1>2, <1>4, <2>1, <2>7 DEF Players
    <3>4. activeSet'.setNumber = Len(completedSets) + 2
      BY <1>1, <1>4, <3>1 DEF NewSet
    <3>5. QED
      BY <1>1, <2>2, <3>2, <3>3, <3>4, FormatFacts DEF Players
  <2>10. NobodyPassesClinch'
    BY <2>2 DEF NobodyPassesClinch
  <2>11. QED
    BY <2>3, <2>5, <2>6, <2>8, <2>9, <2>10 DEF MatchStopsAtClinch
<1>5. QED
  BY <1>1, <1>3, <1>4, SetsWonStep

\* The receiver can win a game only from a break point.
LEMMA BreakNeedsChance ==
  ASSUME TypeOK, ActiveSetAccepted, activeSet # None, NEW w \in Players, BreakOfServe(w)
  PROVE  BreakPoint /\ w = Receiver
         /\ TerminalWinner(NextGamePoints(w), GamePoints) = w
<1> DEFINE points == activeSet.gamePoints
<1>1. GameWon(w) /\ ~InTiebreak /\ points \in Score /\ Server \in Players
  BY PointTypes DEF BreakOfServe, GameWon
<1>2. ~IsTerminal(points, GamePoints)
  BY <1>1 DEF ActiveSetAccepted
<1>3. /\ TerminalFor(Increment(points, w), w, GamePoints)
      /\ TerminalWinner(Increment(points, w), GamePoints) = w
  BY <1>1, <1>2, DecidingPoint, RulesAssumption DEF GameWon, NextGamePoints
<1>4. w # Server
  BY <1>3 DEF BreakOfServe, NextGamePoints
<1>5. w = Other(Server) /\ Other(w) = Server
  BY <1>1, <1>4 DEF Players, Other
<1>6. /\ Increment(points, w)[w] = points[w] + 1
      /\ Increment(points, w)[Server] = points[Server]
      /\ points[w] \in Nat /\ points[Server] \in Nat
  BY <1>1, <1>5, IncrementValues, PlayersFacts
<1>7. points[w] + 1 >= GamePoints /\ points[w] + 1 - points[Server] >= 2
  BY <1>3, <1>5, <1>6 DEF TerminalFor
<1>8. points[w] >= GamePoints - 1 /\ points[w] > points[Server]
  BY <1>6, <1>7, RulesAssumption
<1>9. QED
  BY <1>1, <1>3, <1>5, <1>8 DEF BreakPoint, IsBreakPoint, Receiver, NextGamePoints

LEMMA BreaksStep ==
  ASSUME IInv, NEW w \in Players, AwardPoint(w)
  PROVE  BreaksWereChances'
<1>1. /\ TypeOK /\ ActiveSetAccepted /\ activeSet # None /\ BreaksWereChances
      /\ opportunities \in Score /\ breaks \in Score /\ CountPoint(w)
  BY DEF IInv, SetScoresLegal, AwardPoint, TypeOK
<1>2. Receiver \in Players
  BY <1>1, PointTypes
<1>3. CASE BreakOfServe(w)
  <2>1. BreakPoint /\ w = Receiver
        /\ TerminalWinner(NextGamePoints(w), GamePoints) = w
    BY <1>1, <1>3, BreakNeedsChance
  <2>2. breaks' = Increment(breaks, w) /\ opportunities' = Increment(opportunities, w)
    BY <1>1, <1>3, <2>1 DEF CountPoint
  <2>3. QED
    BY <1>1, <2>2 DEF BreaksWereChances, Increment, Score
<1>4. CASE ~BreakOfServe(w)
  BY <1>1, <1>2, <1>4 DEF CountPoint, BreaksWereChances, Increment, Score
<1>5. QED
  BY <1>3, <1>4

-----------------------------------------------------------------------------
\* The theorems --------------------------------------------------------------

LEMMA InitIInv == Init => IInv
<1> SUFFICES ASSUME Init PROVE IInv
  OBVIOUS
<1>1. TypeOK
  BY PlayersFacts, NewSetType DEF Init, TypeOK
<1>2. NewSet(1, initialServer) \in SetState
  BY NewSetType DEF Init
<1>3. activeSet # None
  BY <1>2, NoneAssumption DEF Init
<1>4. SetScoresLegal
  <2>1. /\ ~IsTerminal(Level, GamePoints) /\ ~IsTerminal(Level, SetGames)
        /\ Level # [p \in Players |-> SetGames]
        /\ \A p \in Players : Level[p] <= SetGames
    BY RulesAssumption DEF IsTerminal, TerminalFor, Level, Players, Other
  <2>2. QED
    BY <2>1 DEF Init, SetScoresLegal, ActiveSetAccepted, InTiebreak, NewSet
<1>5. ServiceOrderContinuous
  BY DEF Init, ServiceOrderContinuous, NewSet, FirstServerDue
<1>6. \A p \in Players : SetsWon(p) = 0
  BY WonAmongFacts DEF Init, SetsWon
<1>7. NobodyPassesClinch /\ ~IsComplete
  BY <1>6, FormatFacts DEF NobodyPassesClinch, IsComplete
<1>8. MatchStopsAtClinch
  BY <1>3, <1>7, FormatFacts DEF Init, MatchStopsAtClinch, NewSet
<1>9. BreaksWereChances
  BY DEF Init, BreaksWereChances, Level
<1>10. QED
  BY <1>1, <1>4, <1>5, <1>7, <1>8, <1>9 DEF IInv

LEMMA StepIInv == IInv /\ [Next]_scoringVars => IInv'
<1>1. ASSUME IInv, NEW w \in Players, AwardPoint(w)
      PROVE  IInv'
  <2>1. SetsMove /\ ActiveSetAccepted' /\ UNCHANGED initialServer
    BY <1>1, PointMovesSets
  <2>2. activeSet # None
    BY <1>1 DEF AwardPoint
  <2>3. TypeOK' /\ BreaksWereChances'
    BY <1>1, TypeStep, BreaksStep DEF IInv
  <2>4. QED
    BY <1>1, <2>1, <2>2, <2>3, ScoresStep, ServiceOrderStep, ClinchStep DEF IInv
<1>2. ASSUME IInv, UNCHANGED scoringVars
      PROVE  IInv'
  BY <1>2 DEF IInv, scoringVars, TypeOK, SetScoresLegal, ActiveSetAccepted, InTiebreak,
              ServiceOrderContinuous, FirstServerDue, NobodyPassesClinch, SetsWon,
              MatchStopsAtClinch, IsComplete, BreaksWereChances
<1>3. QED
  BY <1>1, <1>2 DEF Next

THEOREM Inductive == Spec => []IInv
<1>1. QED
  BY InitIInv, StepIInv, PTL DEF Spec

\* The constructors of the scoring values never refuse what award_point
\* builds: every game, set and tiebreak stops at the point that decides it.
THEOREM ScoresAlwaysLegal == Spec => []SetScoresLegal
<1>1. IInv => SetScoresLegal
  BY DEF IInv
<1>2. QED
  BY <1>1, Inductive, PTL

\* The recorded sets always follow each other in the continuous service order
\* MatchState checks.
THEOREM ServiceOrderAlwaysContinuous == Spec => []ServiceOrderContinuous
<1>1. IInv => ServiceOrderContinuous
  BY DEF IInv
<1>2. QED
  BY <1>1, Inductive, PTL

\* A match stops exactly at the set that clinches it, within the format.
THEOREM MatchAlwaysStopsAtClinch == Spec => []MatchStopsAtClinch
<1>1. IInv => MatchStopsAtClinch
  BY DEF IInv
<1>2. QED
  BY <1>1, Inductive, PTL

\* No player is ever credited with more breaks of serve than break points.
THEOREM BreaksAlwaysChances == Spec => []BreaksWereChances
<1>1. IInv => BreaksWereChances
  BY DEF IInv
<1>2. QED
  BY <1>1, Inductive, PTL

\* A point is counted as a break point exactly when the receiver is one point
\* from winning the game.
THEOREM BreakPointsAreOnePointAway == Spec => []BreakPointIsOnePointAway
<1>1. IInv => BreakPointIsOnePointAway
  <2>1. SUFFICES ASSUME IInv, activeSet # None, ~InTiebreak
                 PROVE  BreakPoint <=> GameWon(Receiver) /\ BreakOfServe(Receiver)
    BY DEF BreakPointIsOnePointAway
  <2> DEFINE points == activeSet.gamePoints
             rec == Receiver
  <2>2. TypeOK /\ ActiveSetAccepted
    BY <2>1 DEF IInv, SetScoresLegal
  <2>3. /\ Server \in Players /\ rec \in Players /\ points \in Score
        /\ Other(Server) = rec /\ Other(rec) = Server /\ rec # Server
    BY <2>1, <2>2, PointTypes, ServerTypes, PlayersFacts DEF Receiver
  <2>4. ASSUME BreakPoint
        PROVE  GameWon(rec) /\ BreakOfServe(rec)
    <3>1. points[rec] >= GamePoints - 1 /\ points[rec] > points[Server]
      BY <2>3, <2>4 DEF BreakPoint, IsBreakPoint
    <3>2. /\ Increment(points, rec)[rec] = points[rec] + 1
          /\ Increment(points, rec)[Server] = points[Server]
          /\ points[rec] \in Nat /\ points[Server] \in Nat
          /\ Increment(points, rec) \in Score
      BY <2>3, IncrementValues, PlayersFacts
    <3>3. points[rec] + 1 >= GamePoints /\ points[rec] + 1 - points[Server] >= 2
      BY <3>1, <3>2, RulesAssumption
    <3>4. TerminalFor(Increment(points, rec), rec, GamePoints)
      BY <2>3, <3>2, <3>3 DEF TerminalFor
    <3>5. TerminalWinner(Increment(points, rec), GamePoints) = rec
      BY <2>3, <3>2, <3>4, WinnerUnique, RulesAssumption
    <3>6. QED
      BY <2>1, <2>3, <3>4, <3>5 DEF GameWon, BreakOfServe, NextGamePoints, IsTerminal
  <2>5. ASSUME BreakOfServe(rec)
        PROVE  BreakPoint
    BY <2>1, <2>2, <2>3, <2>5, BreakNeedsChance
  <2>6. QED
    BY <2>4, <2>5
<1>2. QED
  BY <1>1, Inductive, PTL

LEMMA SumIncrement ==
  ASSUME NEW s \in Score, NEW p \in Players
  PROVE  Sum(Increment(s, p)) = Sum(s) + 1 /\ Sum(s) \in Nat
BY DEF Sum, Increment, Score, Players

LEMMA Parity == \A n \in Nat : (n + 1) % 2 = 0 <=> n % 2 # 0
OBVIOUS

\* The server of the next game is the receiver of the game just completed.
LEMMA NextGameServer ==
  ASSUME IInv, NEW w \in Players, AwardPoint(w), activeSet' # None
  PROVE  GameServer' = IF GameWon(w) \/ TiebreakWon(w) THEN Other(GameServer)
                       ELSE GameServer
<1>1. /\ TypeOK /\ ActiveSetAccepted /\ activeSet # None /\ activeSet \in SetState
      /\ activeSet.games \in Score /\ activeSet.firstServer \in Players
  BY PointTypes DEF IInv, SetScoresLegal, AwardPoint
<1>2. CASE ScoreTiebreakPoint(w)
  <2>1. InTiebreak /\ ~GameWon(w) /\ ~TiebreakWon(w) /\ activeSet.tiebreak \in Tiebreak
    BY <1>1, <1>2, PointTypes DEF ScoreTiebreakPoint, GameWon
  <2> DEFINE tb == [activeSet.tiebreak EXCEPT !.points = NextTiebreakPoints(w)]
  <2>2. activeSet' = [activeSet EXCEPT !.tiebreak = tb]
    BY <1>2 DEF ScoreTiebreakPoint
  <2>3. tb \in Tiebreak /\ tb.firstServer = activeSet.tiebreak.firstServer
    BY <1>1, <2>1, PointTypes DEF Tiebreak
  <2> HIDE DEF tb
  <2>4. activeSet'.tiebreak = tb /\ tb # None
    BY <1>1, <2>2, <2>3, NoneAssumption DEF SetState
  <2>5. QED
    BY <2>1, <2>3, <2>4 DEF GameServer, InTiebreak
<1>3. CASE ScoreGamePoint(w)
  <2>1. /\ activeSet'.tiebreak = activeSet.tiebreak
        /\ activeSet'.games = activeSet.games
        /\ activeSet'.firstServer = activeSet.firstServer
    BY <1>1, <1>3 DEF ScoreGamePoint, SetState
  <2>2. QED
    BY <1>3, <2>1
       DEF ScoreGamePoint, TiebreakWon, GameServer, InTiebreak, RegularServer
<1>4. ASSUME GameWon(w)
      PROVE  /\ ~InTiebreak
             /\ GamesAfter(w) \in Score
             /\ Sum(GamesAfter(w)) = Sum(activeSet.games) + 1
             /\ Sum(activeSet.games) \in Nat
  <2>1. ~InTiebreak /\ TerminalWinner(NextGamePoints(w), GamePoints) \in Players
    BY <1>1, <1>4, PointTypes DEF GameWon
  <2>2. QED
    BY <1>1, <1>4, <2>1, SumIncrement, PlayersFacts DEF GamesAfter
<1>5. CASE WinGame(w)
  <2> DEFINE tb == IF GamesAfter(w) = [p \in Players |-> SetGames]
                   THEN [firstServer |-> Other(Server),
                         target |-> TargetOf(activeSet.setNumber), points |-> Level]
                   ELSE None
  <2>1. activeSet' = [activeSet EXCEPT !.games = GamesAfter(w),
                                       !.gamePoints = Level, !.tiebreak = tb]
    BY <1>5 DEF WinGame
  <2>2. /\ activeSet'.games = GamesAfter(w)
        /\ activeSet'.tiebreak = tb
        /\ activeSet'.firstServer = activeSet.firstServer
    BY <1>1, <2>1 DEF SetState
  <2>3. GameWon(w) /\ GameServer = RegularServer /\ Server = RegularServer
    BY <1>4, <1>5 DEF WinGame, GameServer, Server
  <2>4. CASE tb = None
    <3>1. Sum(activeSet'.games) % 2 = 0 <=> Sum(activeSet.games) % 2 # 0
      BY <1>4, <2>2, <2>3, Parity
    <3>2. GameServer' = IF Sum(activeSet'.games) % 2 = 0 THEN activeSet.firstServer
                        ELSE Other(activeSet.firstServer)
      BY <2>2, <2>4 DEF GameServer, InTiebreak, RegularServer
    <3>3. QED
      BY <1>1, <2>3, <3>1, <3>2, PlayersFacts DEF RegularServer
  <2>5. CASE tb # None
    <3>1. tb = [firstServer |-> Other(Server),
                target |-> TargetOf(activeSet.setNumber), points |-> Level]
      BY <2>5
    <3>2. tb.firstServer = Other(Server)
      BY <3>1
    <3> HIDE DEF tb
    <3>3. QED
      BY <2>2, <2>3, <2>5, <3>2 DEF GameServer, InTiebreak
  <2>6. QED
    BY <2>4, <2>5
<1>6. ASSUME NEW r, FinishSet(r)
      PROVE  GameServer' = NextSetServer(r)
  <2>1. activeSet' = NewSet(r.setNumber + 1, NextSetServer(r))
    BY <1>6 DEF FinishSet
  <2>2. QED
    BY <2>1 DEF GameServer, InTiebreak, RegularServer, NewSet, Sum, Level, Players
<1>7. CASE WinTiebreak(w)
  <2> DEFINE winner == TerminalWinner(NextTiebreakPoints(w), activeSet.tiebreak.target)
             tb == [activeSet.tiebreak EXCEPT !.points = NextTiebreakPoints(w)]
             r == [setNumber |-> activeSet.setNumber,
                   firstServer |-> activeSet.firstServer,
                   games |-> Increment(activeSet.games, winner),
                   tiebreak |-> tb]
  <2>1. FinishSet(r) /\ TiebreakWon(w) /\ InTiebreak
    BY <1>7 DEF WinTiebreak, TiebreakWon
  <2>2. tb \in Tiebreak /\ tb.firstServer = activeSet.tiebreak.firstServer
    BY <1>1, <2>1, PointTypes DEF Tiebreak
  <2> HIDE DEF tb
  <2>3. NextSetServer(r) = Other(activeSet.tiebreak.firstServer)
    BY <2>2, NoneAssumption DEF NextSetServer
  <2>4. QED
    BY <1>6, <2>1, <2>3 DEF GameServer
<1>8. CASE WinSet(w)
  <2> DEFINE r == [setNumber |-> activeSet.setNumber,
                   firstServer |-> activeSet.firstServer,
                   games |-> GamesAfter(w), tiebreak |-> None]
  <2>1. FinishSet(r) /\ GameWon(w)
    BY <1>8 DEF WinSet
  <2>2. NextSetServer(r) = Other(RegularServer)
    <3>1. Sum(GamesAfter(w)) % 2 = 0 <=> Sum(activeSet.games) % 2 # 0
      BY <1>4, <2>1, Parity
    <3>2. NextSetServer(r) = IF Sum(GamesAfter(w)) % 2 = 0 THEN activeSet.firstServer
                             ELSE Other(activeSet.firstServer)
      BY DEF NextSetServer
    <3>3. QED
      BY <1>1, <3>1, <3>2, PlayersFacts DEF RegularServer
  <2>3. QED
    BY <1>4, <1>6, <2>1, <2>2 DEF GameServer
<1>9. QED
  BY <1>2, <1>3, <1>5, <1>7, <1>8 DEF AwardPoint

\* Service alternates from game to game through the whole match.
THEOREM ServiceAlwaysAlternates == Spec => ServiceAlternates
<1>1. IInv /\ [Next]_scoringVars =>
        [\A w \in Players :
           AwardPoint(w) /\ activeSet' # None =>
             GameServer' = IF GameWon(w) \/ TiebreakWon(w) THEN Other(GameServer)
                           ELSE GameServer]_scoringVars
  BY NextGameServer
<1>2. QED
  BY <1>1, Inductive, PTL DEF Spec, ServiceAlternates

\* Point-by-point scoring implements the race to SetsToWin sets.
THEOREM ScoringIsARace == Spec => RaceSpec
<1>1. Init => Race!Init
  BY WonAmongFacts DEF Init, Race!Init, Race!Racers, SetsWon, Players
<1>2. IInv /\ IInv' /\ [Next]_scoringVars => [Race!Next]_[p \in Players |-> SetsWon(p)]
  <2>1. ASSUME IInv, NEW w \in Players, AwardPoint(w)
        PROVE  Race!Next \/ UNCHANGED [p \in Players |-> SetsWon(p)]
    <3>1. TypeOK /\ ActiveSetAccepted
      BY <2>1 DEF IInv, SetScoresLegal
    <3>2. CASE UNCHANGED completedSets
      BY <3>2 DEF SetsWon, WonAmong
    <3>3. ASSUME NEW r \in SetResult,
                 \A p \in Players :
                   SetsWon(p)' = SetsWon(p) + IF SetWinner(r) = p THEN 1 ELSE 0
          PROVE  Race!Next
      <4> DEFINE won == [p \in Players |-> SetsWon(p)]
                 later == [p \in Players |-> SetsWon(p)']
      <4>1. SetWinner(r) \in Players
        BY DEF SetWinner, Players
      <4>2. ~Race!Over
        BY <2>1 DEF Race!Over, Race!Racers, AwardPoint, IsComplete, Players
      <4>3. later = [won EXCEPT ![SetWinner(r)] = @ + 1]
        <5>1. \A p \in Players :
                later[p] = IF SetWinner(r) = p THEN won[p] + 1 ELSE won[p]
          BY <3>1, <3>3, SetsWonFacts
        <5>2. won \in [Players -> Nat] /\ DOMAIN later = Players
              /\ later = [p \in Players |-> later[p]]
          BY <3>1, SetsWonFacts
        <5> HIDE DEF won, later
        <5>3. QED
          BY <4>1, <5>1, <5>2
      <4>4. Race!WinSet(SetWinner(r))
        BY <4>2, <4>3 DEF Race!WinSet
      <4>5. QED
        BY <4>1, <4>4 DEF Race!Next, Race!Racers, Players
    <3>4. QED
      BY <2>1, <3>1, <3>2, <3>3, SetsWonStep, PointMovesSets
  <2>2. ASSUME UNCHANGED scoringVars
        PROVE  UNCHANGED [p \in Players |-> SetsWon(p)]
    BY <2>2 DEF scoringVars, SetsWon
  <2>3. QED
    BY <2>1, <2>2 DEF Next
<1>3. QED
  BY <1>1, <1>2, Inductive, PTL DEF Spec, RaceSpec, Race!Spec
-----------------------------------------------------------------------------
\* The statistics of one path -------------------------------------------------

\* The service points of one player split into the branches of the tree.
ServeSplit(k) ==
  /\ k["service_points"] = k["first_serves_in"] + k["second_serve_opportunities"]
  /\ k["first_serve_opportunities"] = k["service_points"]
  /\ k["first_serves_in"] = k["aces"] + k["returnable_first_serve_trials"]
  /\ k["first_serve_points_won"] = k["aces"] + k["returnable_first_serve_wins"]
  /\ k["second_serve_opportunities"] = k["double_faults"] + k["playable_second_serve_trials"]
  /\ k["second_serve_points_won"] = k["playable_second_serve_wins"]
  /\ k["returnable_first_serve_wins"] <= k["returnable_first_serve_trials"]
  /\ k["playable_second_serve_wins"] <= k["playable_second_serve_trials"]

LEMMA BumpValues ==
  ASSUME NEW k \in [Counters -> Nat], NEW names
  PROVE  /\ Bump(k, names) \in [Counters -> Nat]
         /\ \A c \in Counters : Bump(k, names)[c] = IF c \in names THEN k[c] + 1 ELSE k[c]
BY DEF Bump

LEMMA ResultCases ==
  ASSUME NEW r \in PointResults
  PROVE  /\ r.branch \in {"ace", "doubleFault", "first", "second"}
         /\ r.branch = "ace" => r.serverWon
         /\ r.branch = "doubleFault" => ~r.serverWon
<1>1. CASE r = Result("ace", TRUE)
  BY <1>1 DEF Result
<1>2. CASE r = Result("doubleFault", FALSE)
  BY <1>2 DEF Result
<1>3. CASE r \in [branch : {"first", "second"}, serverWon : BOOLEAN]
  BY <1>3
<1>4. QED
  BY <1>1, <1>2, <1>3 DEF PointResults

\* Each point is counted once in every row of the tree.
LEMMA ServeCountersOfPoint ==
  ASSUME NEW k \in [Counters -> Nat], NEW r \in PointResults, NEW names,
         \A c \in ServeCounters : c \in names <=> Counts(c, r),
         ServeSplit(k)
  PROVE  /\ ServeSplit(Bump(k, names))
         /\ Bump(k, names)["service_points"] = k["service_points"] + 1
<1>1. PICK n : n = Bump(k, names)
  OBVIOUS
<1>2. n \in [Counters -> Nat]
      /\ \A c \in ServeCounters : n[c] = IF Counts(c, r) THEN k[c] + 1 ELSE k[c]
  BY <1>1, BumpValues DEF Counters
<1>3. /\ n["service_points"] = k["service_points"] + 1
      /\ n["first_serve_opportunities"] = k["first_serve_opportunities"] + 1
  BY <1>2 DEF Counts, ServeCounters
<1>4. /\ n["first_serves_in"] = IF FirstServeIn(r) THEN k["first_serves_in"] + 1
                                                   ELSE k["first_serves_in"]
      /\ n["second_serve_opportunities"] = IF ~FirstServeIn(r)
           THEN k["second_serve_opportunities"] + 1 ELSE k["second_serve_opportunities"]
  BY <1>2 DEF Counts, ServeCounters
<1>5. /\ n["aces"] = IF r.branch = "ace" THEN k["aces"] + 1 ELSE k["aces"]
      /\ n["double_faults"] = IF r.branch = "doubleFault" THEN k["double_faults"] + 1
                                                         ELSE k["double_faults"]
      /\ n["returnable_first_serve_trials"] = IF r.branch = "first"
           THEN k["returnable_first_serve_trials"] + 1
           ELSE k["returnable_first_serve_trials"]
      /\ n["playable_second_serve_trials"] = IF r.branch = "second"
           THEN k["playable_second_serve_trials"] + 1
           ELSE k["playable_second_serve_trials"]
  BY <1>2 DEF Counts, ServeCounters
<1>6. /\ n["first_serve_points_won"] = IF FirstServeIn(r) /\ r.serverWon
           THEN k["first_serve_points_won"] + 1 ELSE k["first_serve_points_won"]
      /\ n["second_serve_points_won"] = IF ~FirstServeIn(r) /\ r.serverWon
           THEN k["second_serve_points_won"] + 1 ELSE k["second_serve_points_won"]
  BY <1>2 DEF Counts, ServeCounters
<1>7. /\ n["returnable_first_serve_wins"] = IF r.branch = "first" /\ r.serverWon
           THEN k["returnable_first_serve_wins"] + 1 ELSE k["returnable_first_serve_wins"]
      /\ n["playable_second_serve_wins"] = IF r.branch = "second" /\ r.serverWon
           THEN k["playable_second_serve_wins"] + 1 ELSE k["playable_second_serve_wins"]
  BY <1>2 DEF Counts, ServeCounters
<1>8. \A c \in ServeCounters : k[c] \in Nat
  BY DEF Counters
<1>9. FirstServeIn(r) <=> r.branch = "ace" \/ r.branch = "first"
  BY DEF FirstServeIn
<1>10. ServeSplit(n)
  <2> USE DEF ServeCounters
  <2>1. CASE r.branch = "ace"
    BY <1>3, <1>4, <1>5, <1>6, <1>7, <1>8, <1>9, <2>1, ResultCases DEF ServeSplit
  <2>2. CASE r.branch = "doubleFault"
    BY <1>3, <1>4, <1>5, <1>6, <1>7, <1>8, <1>9, <2>2, ResultCases DEF ServeSplit
  <2>3. CASE r.branch = "first"
    BY <1>3, <1>4, <1>5, <1>6, <1>7, <1>8, <1>9, <2>3 DEF ServeSplit
  <2>4. CASE r.branch = "second"
    BY <1>3, <1>4, <1>5, <1>6, <1>7, <1>8, <1>9, <2>4 DEF ServeSplit
  <2>5. QED
    BY <2>1, <2>2, <2>3, <2>4, ResultCases
<1>11. QED
  BY <1>1, <1>3, <1>10

\* What a point changes of the server's counters ...
LEMMA ServerBumps ==
  ASSUME NEW k \in [Counters -> Nat], ServeSplit(k), NEW r \in PointResults, NEW w,
         NEW n, n = Bump(k, ServerCounters(r, w))
  PROVE  /\ n \in [Counters -> Nat] /\ ServeSplit(n)
         /\ n["service_points"] = k["service_points"] + 1
         /\ n["service_games_played"] = IF GameWon(w) THEN k["service_games_played"] + 1
                                                      ELSE k["service_games_played"]
         /\ n["breaks_conceded"] = IF BreakOfServe(w) THEN k["breaks_conceded"] + 1
                                                      ELSE k["breaks_conceded"]
         /\ n["service_games_held"] = IF GameWon(w) /\ ~BreakOfServe(w)
              THEN k["service_games_held"] + 1 ELSE k["service_games_held"]
         /\ \A c \in {"return_games_played", "breaks_achieved", "break_point_opportunities"} :
              n[c] = k[c]
<1>1. PICK names : names = ServerCounters(r, w)
  OBVIOUS
<1>2. \A c \in ServeCounters : c \in names <=> Counts(c, r)
  BY <1>1 DEF ServerCounters, ServeCounters
<1>3. /\ "service_games_played" \in names <=> GameWon(w)
      /\ "breaks_conceded" \in names <=> BreakOfServe(w)
      /\ "service_games_held" \in names <=> GameWon(w) /\ ~BreakOfServe(w)
      /\ "return_games_played" \notin names /\ "breaks_achieved" \notin names
      /\ "break_point_opportunities" \notin names
  BY <1>1 DEF ServerCounters, ServeCounters
<1>4. n \in [Counters -> Nat]
      /\ \A c \in Counters : n[c] = IF c \in names THEN k[c] + 1 ELSE k[c]
  BY <1>1, BumpValues
<1>5. ServeSplit(n) /\ n["service_points"] = k["service_points"] + 1
  BY <1>1, <1>2, ServeCountersOfPoint
<1>6. QED
  BY <1>3, <1>4, <1>5 DEF Counters, GameCounters

\* ... and of the receiver's.
LEMMA ReceiverBumps ==
  ASSUME NEW k \in [Counters -> Nat], ServeSplit(k), NEW w,
         NEW n, n = Bump(k, ReceiverCounters(w))
  PROVE  /\ n \in [Counters -> Nat] /\ ServeSplit(n)
         /\ n["return_games_played"] = IF GameWon(w) THEN k["return_games_played"] + 1
                                                     ELSE k["return_games_played"]
         /\ n["breaks_achieved"] = IF BreakOfServe(w) THEN k["breaks_achieved"] + 1
                                                      ELSE k["breaks_achieved"]
         /\ n["break_point_opportunities"] = IF BreakPoint
              THEN k["break_point_opportunities"] + 1 ELSE k["break_point_opportunities"]
         /\ \A c \in {"service_points", "service_games_played", "breaks_conceded",
                      "service_games_held"} : n[c] = k[c]
<1>1. PICK names : names = ReceiverCounters(w)
  OBVIOUS
<1>2. \A c \in ServeCounters \cup {"service_games_played", "breaks_conceded",
                                   "service_games_held"} : c \notin names
  BY <1>1 DEF ReceiverCounters, ServeCounters
<1>3. /\ "return_games_played" \in names <=> GameWon(w)
      /\ "breaks_achieved" \in names <=> BreakOfServe(w)
      /\ "break_point_opportunities" \in names <=> BreakPoint
  BY <1>1 DEF ReceiverCounters
<1>4. n \in [Counters -> Nat]
      /\ \A c \in Counters : n[c] = IF c \in names THEN k[c] + 1 ELSE k[c]
  BY <1>1, BumpValues
<1>5. \A c \in ServeCounters : n[c] = k[c]
  BY <1>2, <1>4 DEF Counters
<1>6. ServeSplit(n) /\ n["service_points"] = k["service_points"]
  BY <1>5 DEF ServeSplit, ServeCounters
<1>7. QED
  BY <1>2, <1>3, <1>4, <1>6 DEF Counters, GameCounters

\* Splits of service points ---------------------------------------------------

LEMMA SplitSums ==
  ASSUME NEW won \in Nat, NEW lost \in Nat, NEW n \in Splits(won, lost)
  PROVE  /\ \A r \in PointResults : Drawn(n, r) \in Nat
         /\ won = Drawn(n, Result("ace", TRUE)) + Drawn(n, Result("first", TRUE))
                    + Drawn(n, Result("second", TRUE))
         /\ lost = Drawn(n, Result("doubleFault", FALSE)) + Drawn(n, Result("first", FALSE))
                     + Drawn(n, Result("second", FALSE))
<1>1. PossibleResults \subseteq PointResults
  BY SimulationAssumption
<1>2. n \in [PossibleResults -> 0 .. won + lost]
  BY DEF Splits
<1>3. PICK W : W = {r \in PossibleResults : r.serverWon}
  OBVIOUS
<1>4. PICK L : L = {r \in PossibleResults : ~r.serverWon}
  OBVIOUS
<1>5. SumOf(n, W) = won /\ SumOf(n, L) = lost
  BY <1>3, <1>4 DEF Splits, SumOf
<1>6. (\A x \in W : n[x] \in Nat) /\ \A x \in L : n[x] \in Nat
  BY <1>2, <1>3, <1>4
<1>7. W \subseteq {Result("ace", TRUE), Result("first", TRUE), Result("second", TRUE)}
  BY <1>1, <1>3 DEF PointResults, Result
<1>8. L \subseteq {Result("doubleFault", FALSE), Result("first", FALSE), Result("second", FALSE)}
  BY <1>1, <1>4 DEF PointResults, Result
<1>9. /\ \A p \in {"ace", "first", "second"} : Result(p, TRUE).serverWon
      /\ \A p \in {"doubleFault", "first", "second"} : ~Result(p, FALSE).serverWon
  BY DEF Result
<1>10. /\ \A p \in {"ace", "first", "second"} :
            Drawn(n, Result(p, TRUE)) = IF Result(p, TRUE) \in W THEN n[Result(p, TRUE)] ELSE 0
       /\ \A p \in {"doubleFault", "first", "second"} :
            Drawn(n, Result(p, FALSE)) = IF Result(p, FALSE) \in L THEN n[Result(p, FALSE)] ELSE 0
  BY <1>3, <1>4, <1>9 DEF Drawn
<1>11. \A won1, won2 \in BOOLEAN : \A p, q \in {"ace", "doubleFault", "first", "second"} :
         p # q => Result(p, won1) # Result(q, won2)
  <2>1. \A s \in BOOLEAN, p \in {"ace", "doubleFault", "first", "second"} :
          Result(p, s).branch = p
    BY DEF Result
  <2> QED
    BY <2>1
<1>12. SumOf(n, W) = (IF Result("ace", TRUE) \in W THEN n[Result("ace", TRUE)] ELSE 0)
                     + (IF Result("first", TRUE) \in W THEN n[Result("first", TRUE)] ELSE 0)
                     + (IF Result("second", TRUE) \in W THEN n[Result("second", TRUE)] ELSE 0)
  <2>1. PICK a : a = Result("ace", TRUE)
    OBVIOUS
  <2>2. PICK b : b = Result("first", TRUE)
    OBVIOUS
  <2>3. PICK c : c = Result("second", TRUE)
    OBVIOUS
  <2>4. a # b /\ a # c /\ b # c
    BY <1>11, <2>1, <2>2, <2>3
  <2>5. W \subseteq {a, b, c}
    BY <1>7, <2>1, <2>2, <2>3
  <2>6. SumOf(n, W) = (IF a \in W THEN n[a] ELSE 0) + (IF b \in W THEN n[b] ELSE 0)
                        + (IF c \in W THEN n[c] ELSE 0)
    BY <1>6, <2>4, <2>5, SumOfThree
  <2> QED
    BY <2>1, <2>2, <2>3, <2>6
<1>13. SumOf(n, L) =
         (IF Result("doubleFault", FALSE) \in L THEN n[Result("doubleFault", FALSE)] ELSE 0)
         + (IF Result("first", FALSE) \in L THEN n[Result("first", FALSE)] ELSE 0)
         + (IF Result("second", FALSE) \in L THEN n[Result("second", FALSE)] ELSE 0)
  <2>1. PICK a : a = Result("doubleFault", FALSE)
    OBVIOUS
  <2>2. PICK b : b = Result("first", FALSE)
    OBVIOUS
  <2>3. PICK c : c = Result("second", FALSE)
    OBVIOUS
  <2>4. a # b /\ a # c /\ b # c
    BY <1>11, <2>1, <2>2, <2>3
  <2>5. L \subseteq {a, b, c}
    BY <1>8, <2>1, <2>2, <2>3
  <2>6. SumOf(n, L) = (IF a \in L THEN n[a] ELSE 0) + (IF b \in L THEN n[b] ELSE 0)
                        + (IF c \in L THEN n[c] ELSE 0)
    BY <1>6, <2>4, <2>5, SumOfThree
  <2> QED
    BY <2>1, <2>2, <2>3, <2>6
<1>14. \A r \in PointResults : Drawn(n, r) \in Nat
  BY <1>2 DEF Drawn
<1> QED
  BY <1>5, <1>10, <1>12, <1>13, <1>14

\* The points of a split are counted once in every row of the tree.
LEMMA AggregateAdds ==
  ASSUME NEW won \in Nat, NEW lost \in Nat, NEW n \in Splits(won, lost),
         NEW k \in [Counters -> Nat], ServeSplit(k), NEW m, m = AddAggregate(k, n)
  PROVE  /\ m \in [Counters -> Nat] /\ ServeSplit(m)
         /\ m["service_points"] = k["service_points"] + won + lost
         /\ \A c \in GameCounters : m[c] = k[c]
         /\ \A c \in Counters : k[c] <= m[c]
<1>1. PICK aces : aces = Drawn(n, Result("ace", TRUE))
  OBVIOUS
<1>2. PICK firstWins : firstWins = Drawn(n, Result("first", TRUE))
  OBVIOUS
<1>3. PICK firstLosses : firstLosses = Drawn(n, Result("first", FALSE))
  OBVIOUS
<1>4. PICK doubleFaults : doubleFaults = Drawn(n, Result("doubleFault", FALSE))
  OBVIOUS
<1>5. PICK secondWins : secondWins = Drawn(n, Result("second", TRUE))
  OBVIOUS
<1>6. PICK secondLosses : secondLosses = Drawn(n, Result("second", FALSE))
  OBVIOUS
<1>7. /\ aces \in Nat /\ firstWins \in Nat /\ firstLosses \in Nat
      /\ doubleFaults \in Nat /\ secondWins \in Nat /\ secondLosses \in Nat
  <2>1. /\ Result("ace", TRUE) \in PointResults /\ Result("doubleFault", FALSE) \in PointResults
        /\ Result("first", TRUE) \in PointResults /\ Result("first", FALSE) \in PointResults
        /\ Result("second", TRUE) \in PointResults /\ Result("second", FALSE) \in PointResults
    BY DEF PointResults, Result
  <2> QED
    BY <1>1, <1>2, <1>3, <1>4, <1>5, <1>6, <2>1, SplitSums
<1>8. won = aces + firstWins + secondWins /\ lost = doubleFaults + firstLosses + secondLosses
  BY <1>1, <1>2, <1>3, <1>4, <1>5, <1>6, SplitSums
<1>9. PICK points : points = aces + firstWins + firstLosses + doubleFaults + secondWins
                               + secondLosses
  OBVIOUS
<1>10. PICK ins : ins = aces + firstWins + firstLosses
  OBVIOUS
<1>11. Aggregate(n) =
         [service_points |-> points, first_serve_opportunities |-> points,
          first_serves_in |-> ins, first_serve_points_won |-> aces + firstWins,
          returnable_first_serve_trials |-> firstWins + firstLosses,
          returnable_first_serve_wins |-> firstWins,
          second_serve_opportunities |-> points - ins, double_faults |-> doubleFaults,
          playable_second_serve_trials |-> secondWins + secondLosses,
          playable_second_serve_wins |-> secondWins,
          second_serve_points_won |-> secondWins, aces |-> aces]
  BY <1>1, <1>2, <1>3, <1>4, <1>5, <1>6, <1>9, <1>10 DEF Aggregate, FirstServesIn
<1>12. PICK a : a = Aggregate(n)
  OBVIOUS
<1>13. /\ a["service_points"] = points /\ a["first_serve_opportunities"] = points
       /\ a["first_serves_in"] = ins /\ a["first_serve_points_won"] = aces + firstWins
       /\ a["returnable_first_serve_trials"] = firstWins + firstLosses
       /\ a["returnable_first_serve_wins"] = firstWins
       /\ a["second_serve_opportunities"] = points - ins
       /\ a["double_faults"] = doubleFaults
       /\ a["playable_second_serve_trials"] = secondWins + secondLosses
       /\ a["playable_second_serve_wins"] = secondWins
       /\ a["second_serve_points_won"] = secondWins /\ a["aces"] = aces
  BY <1>11, <1>12
<1>14. m = [c \in Counters |-> k[c] + IF c \in ServeCounters THEN a[c] ELSE 0]
  BY <1>12 DEF AddAggregate
<1>15. \A c \in GameCounters : c \notin ServeCounters /\ c \in Counters
  BY DEF GameCounters, ServeCounters, Counters
<1>16. \A c \in ServeCounters : m[c] = k[c] + a[c] /\ k[c] \in Nat
  BY <1>14 DEF Counters
<1>17. \A c \in GameCounters : m[c] = k[c]
  BY <1>14, <1>15
<1>18. \A c \in ServeCounters : a[c] \in Nat
  BY <1>7, <1>9, <1>10, <1>13 DEF ServeCounters
<1>19. m \in [Counters -> Nat]
  BY <1>14, <1>18
<1>20. ServeSplit(m)
  BY <1>7, <1>9, <1>10, <1>13, <1>16 DEF ServeSplit, ServeCounters
<1>21. m["service_points"] = k["service_points"] + won + lost
  BY <1>7, <1>8, <1>9, <1>13, <1>16 DEF ServeCounters
<1>22. \A c \in Counters : k[c] <= m[c]
  BY <1>16, <1>17, <1>18 DEF Counters
<1> QED
  BY <1>17, <1>19, <1>20, <1>21, <1>22
-----------------------------------------------------------------------------
\* The scoring engine under the simulation -----------------------------------

\* What an accelerated tiebreak ends with is a legal set, at the point that
\* decides it.
LEMMA SweepResult ==
  ASSUME IInv, NEW w \in Players, activeSet # None, AccelerationDue, NEW cycles \in Nat,
         NEW r, r = [setNumber |-> activeSet.setNumber,
                     firstServer |-> activeSet.firstServer,
                     games |-> Increment(activeSet.games, w),
                     tiebreak |-> [activeSet.tiebreak EXCEPT !.points = SweptPoints(w, cycles)]]
  PROVE  /\ IsResult(r) /\ r.tiebreak # None /\ SetWinner(r) = w
         /\ r.games = Increment(activeSet.games, w)
<1> DEFINE tb == activeSet.tiebreak
           games == Increment(activeSet.games, w)
<1>1. TypeOK /\ ActiveSetAccepted /\ InTiebreak
  BY DEF IInv, SetScoresLegal, AccelerationDue
<1>2. activeSet \in SetState
  BY <1>1 DEF TypeOK
<1>3. /\ tb \in Tiebreak /\ tb.points \in Score /\ tb.target \in Nat
      /\ tb.firstServer \in Players
  BY <1>1, <1>2, RulesAssumption DEF SetState, InTiebreak, Tiebreak
<1>4. /\ activeSet.games = [p \in Players |-> SetGames]
      /\ tb.firstServer = activeSet.firstServer
      /\ tb.target = TargetOf(activeSet.setNumber)
  BY <1>1 DEF ActiveSetAccepted
<1>5. PICK points : points = SweptPoints(w, cycles)
  OBVIOUS
<1>6. PICK level \in Nat : tb.points[0] = level /\ tb.points[1] = level /\ level >= tb.target - 1
  BY <1>3 DEF AccelerationDue, Score, Players
<1>7. /\ points[w] = level + cycles + 2 /\ points[Other(w)] = level + cycles
      /\ points \in Score
  BY <1>5, <1>6 DEF SweptPoints, Score, Players, Other
<1>8. TerminalFor(points, w, tb.target)
  BY <1>3, <1>6, <1>7 DEF TerminalFor
<1>9. IsMinimalTerminal(points, tb.target)
  BY <1>3, <1>6, <1>7, <1>8 DEF IsMinimalTerminal
<1>10. [tb EXCEPT !.points = points] \in Tiebreak
  BY <1>3, <1>7 DEF Tiebreak
<1>11. games[w] = SetGames + 1 /\ games[Other(w)] = SetGames /\ games \in Score
  BY <1>4, RulesAssumption DEF Increment, Players, Other, Score
<1>12. r = [setNumber |-> activeSet.setNumber, firstServer |-> activeSet.firstServer,
            games |-> games, tiebreak |-> [tb EXCEPT !.points = points]]
  BY <1>5
<1>13. r \in SetResult
  BY <1>2, <1>10, <1>11, <1>12 DEF SetResult, SetState
<1>14. r.tiebreak = [tb EXCEPT !.points = points] /\ r.tiebreak # None /\ r.games = games
  BY <1>10, <1>12, NoneAssumption
<1>15. /\ r.tiebreak.firstServer = tb.firstServer
       /\ r.tiebreak.target = tb.target
       /\ r.tiebreak.points = points
  BY <1>3, <1>14 DEF Tiebreak
<1>16. SetWinner(r) = w
  BY <1>11, <1>14, RulesAssumption DEF SetWinner, Players, Other
<1>17. IsLegalSetScore(r.games, TRUE)
  BY <1>11, <1>14 DEF IsLegalSetScore
<1>18. r.setNumber = activeSet.setNumber /\ r.firstServer = activeSet.firstServer
  BY <1>12
<1>19. ResultAccepted(r)
  BY <1>4, <1>8, <1>9, <1>14, <1>15, <1>16, <1>17, <1>18 DEF ResultAccepted
<1>20. QED
  BY <1>13, <1>14, <1>16, <1>18, <1>19 DEF IsResult

\* An accelerated tiebreak finishes the set.
LEMMA SweepFinishes ==
  ASSUME IInv, NEW w \in Players, Accelerate(w)
  PROVE  \E r : /\ IsResult(r) /\ FinishSet(r) /\ r.tiebreak # None /\ SetWinner(r) = w
                /\ r.games = Increment(activeSet.games, w)
<1>1. activeSet # None /\ AccelerationDue
  BY DEF Accelerate
<1>2. PICK cycles \in 0 .. MaxCycles :
        FinishSet([setNumber |-> activeSet.setNumber,
                   firstServer |-> activeSet.firstServer,
                   games |-> Increment(activeSet.games, w),
                   tiebreak |-> [activeSet.tiebreak EXCEPT !.points = SweptPoints(w, cycles)]])
  BY DEF Accelerate
<1>3. PICK r : r = [setNumber |-> activeSet.setNumber,
                    firstServer |-> activeSet.firstServer,
                    games |-> Increment(activeSet.games, w),
                    tiebreak |-> [activeSet.tiebreak EXCEPT !.points = SweptPoints(w, cycles)]]
  OBVIOUS
<1>4. FinishSet(r)
  BY <1>2, <1>3
<1>5. cycles \in Nat
  BY SimulationAssumption
<1>6. /\ IsResult(r) /\ r.tiebreak # None /\ SetWinner(r) = w
      /\ r.games = Increment(activeSet.games, w)
  BY <1>1, <1>3, <1>5, SweepResult
<1>7. QED
  BY <1>4, <1>6

LEMMA SweepKeepsScore ==
  ASSUME IInv, NEW w \in Players, Accelerate(w)
  PROVE  IInv'
<1>1. PICK r : IsResult(r) /\ FinishSet(r)
  BY SweepFinishes
<1>2. /\ activeSet # None /\ TypeOK /\ SetScoresLegal
      /\ UNCHANGED <<initialServer, opportunities, breaks>>
  BY DEF Accelerate, IInv
<1>3. SetsMove /\ ActiveSetAccepted'
  BY <1>1, NextSetAccepted DEF SetsMove
<1>4. totalPoints' \in Nat
  <2>1. PICK cycles \in 0 .. MaxCycles : totalPoints' = totalPoints + AcceleratedPoints(cycles)
    BY DEF Accelerate
  <2>2. QED
    BY <1>2, <2>1, SimulationAssumption DEF TypeOK, AcceleratedPoints
<1>5. TypeOK'
  BY <1>1, <1>2, <1>4, FinishSetType DEF TypeOK, IsResult
<1>6. BreaksWereChances'
  BY <1>2 DEF IInv, BreaksWereChances
<1>7. QED
  BY <1>2, <1>3, <1>5, <1>6, ScoresStep, ServiceOrderStep, ClinchStep DEF IInv

LEMMA PointOfSimulation ==
  ASSUME IInv, activeSet # None, NEW r \in PossibleResults
  PROVE  r \in PointResults /\ PointWinner(r) \in Players
  BY ServerTypes, SimulationAssumption DEF IInv, PointWinner

LEMMA SimulationKeepsScore == IInv /\ [SimulationNext]_simulationVars => IInv'
<1>1. ASSUME IInv, PlayPoint PROVE IInv'
  <2>1. PICK r \in PossibleResults : AwardPoint(PointWinner(r)) /\ activeSet # None
    BY <1>1 DEF PlayPoint
  <2>2. QED
    BY <1>1, <2>1, PointOfSimulation, StepIInv DEF Next
<1>2. ASSUME IInv, UNCHANGED simulationVars PROVE IInv'
  BY <1>2, StepIInv DEF simulationVars
<1>3. QED
  BY <1>1, <1>2, SweepKeepsScore DEF SimulationNext
-----------------------------------------------------------------------------
\* The statistics follow the score -------------------------------------------

GamesSplit(k) == k["service_games_held"] + k["breaks_conceded"] = k["service_games_played"]

\* What one player's statistics say of the other's, and of the engine's counts.
Mirrored(k, other) ==
  /\ k["breaks_achieved"] = other["breaks_conceded"]
  /\ k["return_games_played"] = other["service_games_played"]
Engine(k, broken, chances) ==
  /\ k["breaks_achieved"] = broken
  /\ k["break_point_opportunities"] = chances

StatsInv ==
  /\ totals \in [Players -> [Counters -> Nat]]
  /\ \A p \in Players :
       /\ ServeSplit(totals[p]) /\ GamesSplit(totals[p])
       /\ Mirrored(totals[p], totals[Other(p)])
       /\ Engine(totals[p], breaks[p], opportunities[p])
  /\ totalPoints = totals[0]["service_points"] + totals[1]["service_points"]

LEMMA InitStats == SimulationInit => StatsInv
<1>1. SUFFICES ASSUME SimulationInit PROVE StatsInv
  OBVIOUS
<1>2. /\ totals = [p \in Players |-> [c \in Counters |-> 0]]
      /\ opportunities = Level /\ breaks = Level /\ totalPoints = 0
  BY <1>1 DEF SimulationInit, Init
<1>3. \A p \in Players : totals[p] = [c \in Counters |-> 0] /\ breaks[p] = 0 /\ opportunities[p] = 0
  BY <1>2 DEF Level
<1>4. \A p \in Players : \A c \in Counters : totals[p][c] = 0
  BY <1>3
<1>5. totals \in [Players -> [Counters -> Nat]]
  BY <1>2
<1>6. \A p \in Players : ServeSplit(totals[p]) /\ GamesSplit(totals[p])
  BY <1>4 DEF ServeSplit, GamesSplit, Counters, GameCounters, ServeCounters
<1>7. \A p \in Players : /\ Mirrored(totals[p], totals[Other(p)])
                         /\ Engine(totals[p], breaks[p], opportunities[p])
  BY <1>3, <1>4, PlayersFacts DEF Mirrored, Engine, Counters, GameCounters
<1>8. totals[0]["service_points"] = 0 /\ totals[1]["service_points"] = 0
  BY <1>4 DEF Players, Counters, ServeCounters
<1>9. QED
  BY <1>2, <1>5, <1>6, <1>7, <1>8 DEF StatsInv

\* What a point does to the counts of the engine.
LEMMA PointCounts ==
  ASSUME IInv, NEW w \in Players, AwardPoint(w)
  PROVE  /\ Server \in Players /\ Receiver \in Players /\ Receiver # Server
         /\ Other(Server) = Receiver /\ Other(Receiver) = Server
         /\ totalPoints' = totalPoints + 1
         /\ breaks' \in Score /\ breaks'[Server] = breaks[Server]
         /\ breaks'[Receiver] = IF BreakOfServe(w) THEN breaks[Receiver] + 1 ELSE breaks[Receiver]
         /\ opportunities' \in Score /\ opportunities'[Server] = opportunities[Server]
         /\ opportunities'[Receiver] = IF BreakPoint THEN opportunities[Receiver] + 1
                                                     ELSE opportunities[Receiver]
         /\ BreakOfServe(w) => GameWon(w)
<1>1. /\ TypeOK /\ ActiveSetAccepted /\ activeSet # None /\ CountPoint(w)
      /\ breaks \in Score /\ opportunities \in Score
  BY DEF IInv, SetScoresLegal, AwardPoint, TypeOK
<1>2. /\ Server \in Players /\ Receiver \in Players /\ Receiver # Server
      /\ Other(Server) = Receiver /\ Other(Receiver) = Server
  BY <1>1, ServerTypes, PlayersFacts DEF Receiver
<1>3. BreakOfServe(w) => TerminalWinner(NextGamePoints(w), GamePoints) = Receiver
  BY <1>1, BreakNeedsChance
<1>4. breaks' = IF BreakOfServe(w) THEN Increment(breaks, Receiver) ELSE breaks
  BY <1>1, <1>3 DEF CountPoint
<1>5. opportunities' = IF BreakPoint THEN Increment(opportunities, Receiver) ELSE opportunities
  BY <1>1 DEF CountPoint
<1>6. breaks' \in Score /\ opportunities' \in Score
  BY <1>1, <1>2, <1>4, <1>5, PlayersFacts
<1>7. /\ Increment(breaks, Receiver)[Receiver] = breaks[Receiver] + 1
      /\ Increment(breaks, Receiver)[Server] = breaks[Server]
      /\ Increment(opportunities, Receiver)[Receiver] = opportunities[Receiver] + 1
      /\ Increment(opportunities, Receiver)[Server] = opportunities[Server]
  BY <1>1, <1>2, IncrementValues
<1>8. totalPoints' = totalPoints + 1 /\ (BreakOfServe(w) => GameWon(w))
  BY <1>1 DEF CountPoint, BreakOfServe
<1>9. QED
  BY <1>2, <1>4, <1>5, <1>6, <1>7, <1>8

LEMMA PointStats ==
  ASSUME IInv, StatsInv, PlayPoint
  PROVE  StatsInv'
<1>1. PICK r \in PossibleResults :
        /\ AwardPoint(PointWinner(r)) /\ activeSet # None
        /\ totals' = [totals EXCEPT
                        ![Server] = Bump(@, ServerCounters(r, PointWinner(r))),
                        ![Receiver] = Bump(@, ReceiverCounters(PointWinner(r)))]
  BY DEF PlayPoint
<1>2. PICK w \in Players : w = PointWinner(r)
  BY <1>1, PointOfSimulation
<1>3. r \in PointResults /\ AwardPoint(w)
  BY <1>1, <1>2, PointOfSimulation
<1>4. PICK s \in Players : s = Server
  BY <1>3, PointCounts
<1>5. PICK v \in Players : v = Receiver
  BY <1>3, PointCounts
<1>6. /\ v # s /\ Other(s) = v /\ Other(v) = s
      /\ totalPoints' = totalPoints + 1
      /\ breaks'[s] = breaks[s] /\ opportunities'[s] = opportunities[s]
      /\ breaks'[v] = IF BreakOfServe(w) THEN breaks[v] + 1 ELSE breaks[v]
      /\ opportunities'[v] = IF BreakPoint THEN opportunities[v] + 1 ELSE opportunities[v]
      /\ BreakOfServe(w) => GameWon(w)
  BY <1>3, <1>4, <1>5, PointCounts
<1>7. PICK k \in [Counters -> Nat] : k = totals[s]
  BY DEF StatsInv
<1>8. PICK l \in [Counters -> Nat] : l = totals[v]
  BY DEF StatsInv
<1>9. PICK m : m = Bump(k, ServerCounters(r, w))
  OBVIOUS
<1>10. PICK n : n = Bump(l, ReceiverCounters(w))
  OBVIOUS
<1>11. totals \in [Players -> [Counters -> Nat]]
  BY DEF StatsInv
<1>12. totals' = [totals EXCEPT ![s] = m, ![v] = n]
  BY <1>1, <1>2, <1>4, <1>5, <1>6, <1>7, <1>8, <1>9, <1>10
<1>13. totals'[s] = m /\ totals'[v] = n
  BY <1>6, <1>11, <1>12
<1>14. /\ ServeSplit(k) /\ GamesSplit(k) /\ Mirrored(k, l) /\ Engine(k, breaks[s], opportunities[s])
       /\ ServeSplit(l) /\ GamesSplit(l) /\ Mirrored(l, k) /\ Engine(l, breaks[v], opportunities[v])
  BY <1>6, <1>7, <1>8 DEF StatsInv
<1>15. /\ m \in [Counters -> Nat] /\ ServeSplit(m)
       /\ m["service_points"] = k["service_points"] + 1
       /\ m["service_games_played"] = IF GameWon(w) THEN k["service_games_played"] + 1
                                                      ELSE k["service_games_played"]
       /\ m["breaks_conceded"] = IF BreakOfServe(w) THEN k["breaks_conceded"] + 1
                                                      ELSE k["breaks_conceded"]
       /\ m["service_games_held"] = IF GameWon(w) /\ ~BreakOfServe(w)
              THEN k["service_games_held"] + 1 ELSE k["service_games_held"]
       /\ m["return_games_played"] = k["return_games_played"]
       /\ m["breaks_achieved"] = k["breaks_achieved"]
       /\ m["break_point_opportunities"] = k["break_point_opportunities"]
  BY <1>3, <1>9, <1>14, ServerBumps
<1>16. /\ n \in [Counters -> Nat] /\ ServeSplit(n)
       /\ n["return_games_played"] = IF GameWon(w) THEN l["return_games_played"] + 1
                                                     ELSE l["return_games_played"]
       /\ n["breaks_achieved"] = IF BreakOfServe(w) THEN l["breaks_achieved"] + 1
                                                      ELSE l["breaks_achieved"]
       /\ n["break_point_opportunities"] = IF BreakPoint
              THEN l["break_point_opportunities"] + 1 ELSE l["break_point_opportunities"]
       /\ n["service_points"] = l["service_points"]
       /\ n["service_games_played"] = l["service_games_played"]
       /\ n["breaks_conceded"] = l["breaks_conceded"]
       /\ n["service_games_held"] = l["service_games_held"]
  BY <1>10, <1>14, ReceiverBumps
<1>17. \A c \in Counters : k[c] \in Nat /\ l[c] \in Nat
  OBVIOUS
<1>18. GamesSplit(m) /\ GamesSplit(n)
  BY <1>6, <1>14, <1>15, <1>16, <1>17 DEF GamesSplit, Counters, GameCounters
<1>19. Mirrored(m, n) /\ Mirrored(n, m)
  BY <1>14, <1>15, <1>16 DEF Mirrored
<1>20. /\ Engine(m, breaks'[s], opportunities'[s])
       /\ Engine(n, breaks'[v], opportunities'[v])
  BY <1>6, <1>14, <1>15, <1>16 DEF Engine
<1>21. Players = {s, v}
  BY <1>6 DEF Players, Other
<1>22. totals' \in [Players -> [Counters -> Nat]]
  BY <1>11, <1>12, <1>15, <1>16
<1>23. \A p \in Players :
         /\ ServeSplit(totals'[p]) /\ GamesSplit(totals'[p])
         /\ Mirrored(totals'[p], totals'[Other(p)])
         /\ Engine(totals'[p], breaks'[p], opportunities'[p])
  BY <1>6, <1>13, <1>15, <1>16, <1>18, <1>19, <1>20, <1>21
<1>24. totalPoints' = totals'[0]["service_points"] + totals'[1]["service_points"]
  <2>1. totalPoints = k["service_points"] + l["service_points"]
    <3>1. totalPoints = totals[0]["service_points"] + totals[1]["service_points"]
      BY DEF StatsInv
    <3>2. totals[0]["service_points"] \in Nat /\ totals[1]["service_points"] \in Nat
      BY <1>11 DEF Players, Counters, ServeCounters
    <3>3. CASE s = 0 /\ v = 1
      BY <1>7, <1>8, <3>1, <3>3
    <3>4. CASE s = 1 /\ v = 0
      BY <1>7, <1>8, <3>1, <3>2, <3>4
    <3>5. QED
      BY <1>6, <3>3, <3>4 DEF Players
  <2>2. k["service_points"] \in Nat /\ l["service_points"] \in Nat
    BY DEF Counters, ServeCounters
  <2>3. CASE s = 0 /\ v = 1
    BY <1>6, <1>13, <1>15, <1>16, <2>1, <2>2, <2>3
  <2>4. CASE s = 1 /\ v = 0
    BY <1>6, <1>13, <1>15, <1>16, <2>1, <2>2, <2>4
  <2>5. QED
    BY <1>6, <2>3, <2>4 DEF Players
<1>25. QED
  BY <1>22, <1>23, <1>24 DEF StatsInv, ServeSplit, GamesSplit, Mirrored, Engine

\* The points of a tiebreak that is skipped are counted as if they were played.
LEMMA SweepStats ==
  ASSUME IInv, StatsInv, NEW w \in Players, Accelerate(w)
  PROVE  StatsInv'
<1>1. PICK cycles \in 0 .. MaxCycles : \E bothWin \in 0 .. cycles :
        /\ totalPoints' = totalPoints + AcceleratedPoints(cycles)
        /\ \E n0 \in SweepSplits(0, w, cycles, bothWin),
              n1 \in SweepSplits(1, w, cycles, bothWin) :
             totals' = [totals EXCEPT ![0] = AddAggregate(@, n0),
                                      ![1] = AddAggregate(@, n1)]
  BY DEF Accelerate
<1>2. PICK bothWin \in 0 .. cycles :
        /\ totalPoints' = totalPoints + AcceleratedPoints(cycles)
        /\ \E n0 \in SweepSplits(0, w, cycles, bothWin),
              n1 \in SweepSplits(1, w, cycles, bothWin) :
             totals' = [totals EXCEPT ![0] = AddAggregate(@, n0),
                                      ![1] = AddAggregate(@, n1)]
  BY <1>1
<1>3. PICK n0 \in SweepSplits(0, w, cycles, bothWin),
           n1 \in SweepSplits(1, w, cycles, bothWin) :
        totals' = [totals EXCEPT ![0] = AddAggregate(@, n0), ![1] = AddAggregate(@, n1)]
  BY <1>2
<1>4. cycles \in Nat /\ bothWin \in Nat /\ bothWin <= cycles
  BY SimulationAssumption
<1>5. PICK won0 \in Nat : won0 = bothWin + IF 0 = w THEN 1 ELSE 0
  BY <1>4
<1>6. PICK lost0 \in Nat : lost0 = cycles - bothWin + IF 0 = w THEN 0 ELSE 1
  BY <1>4
<1>7. PICK won1 \in Nat : won1 = bothWin + IF 1 = w THEN 1 ELSE 0
  BY <1>4
<1>8. PICK lost1 \in Nat : lost1 = cycles - bothWin + IF 1 = w THEN 0 ELSE 1
  BY <1>4
<1>9. n0 \in Splits(won0, lost0) /\ n1 \in Splits(won1, lost1)
  BY <1>5, <1>6, <1>7, <1>8 DEF SweepSplits
<1>10. won0 + lost0 = cycles + 1 /\ won1 + lost1 = cycles + 1
  BY <1>4, <1>5, <1>6, <1>7, <1>8
<1>11. totals \in [Players -> [Counters -> Nat]] /\ 0 \in Players /\ 1 \in Players
  BY DEF StatsInv, Players
<1>12. PICK k \in [Counters -> Nat] : k = totals[0]
  BY <1>11
<1>13. PICK l \in [Counters -> Nat] : l = totals[1]
  BY <1>11
<1>14. PICK m : m = AddAggregate(k, n0)
  OBVIOUS
<1>15. PICK n : n = AddAggregate(l, n1)
  OBVIOUS
<1>16. Other(0) = 1 /\ Other(1) = 0
  BY DEF Other
<1>17. totals' = [totals EXCEPT ![0] = m, ![1] = n]
  BY <1>3, <1>12, <1>13, <1>14, <1>15
<1>18. totals'[0] = m /\ totals'[1] = n
  BY <1>11, <1>17
<1>19. /\ ServeSplit(k) /\ GamesSplit(k) /\ Mirrored(k, l) /\ Engine(k, breaks[0], opportunities[0])
       /\ ServeSplit(l) /\ GamesSplit(l) /\ Mirrored(l, k) /\ Engine(l, breaks[1], opportunities[1])
       /\ totalPoints = k["service_points"] + l["service_points"]
  BY <1>11, <1>12, <1>13, <1>16 DEF StatsInv
<1>20. /\ m \in [Counters -> Nat] /\ ServeSplit(m)
       /\ m["service_points"] = k["service_points"] + won0 + lost0
       /\ \A c \in GameCounters : m[c] = k[c]
  BY <1>9, <1>14, <1>19, AggregateAdds
<1>21. /\ n \in [Counters -> Nat] /\ ServeSplit(n)
       /\ n["service_points"] = l["service_points"] + won1 + lost1
       /\ \A c \in GameCounters : n[c] = l[c]
  BY <1>9, <1>15, <1>19, AggregateAdds
<1>22. GamesSplit(m) /\ GamesSplit(n) /\ Mirrored(m, n) /\ Mirrored(n, m)
  BY <1>19, <1>20, <1>21 DEF GamesSplit, Mirrored, GameCounters
<1>23. UNCHANGED <<breaks, opportunities>>
  BY DEF Accelerate
<1>24. /\ Engine(m, breaks'[0], opportunities'[0])
       /\ Engine(n, breaks'[1], opportunities'[1])
  BY <1>19, <1>20, <1>21, <1>23 DEF Engine, GameCounters
<1>25. totals' \in [Players -> [Counters -> Nat]]
  BY <1>11, <1>17, <1>20, <1>21
<1>26. \A p \in Players :
         /\ ServeSplit(totals'[p]) /\ GamesSplit(totals'[p])
         /\ Mirrored(totals'[p], totals'[Other(p)])
         /\ Engine(totals'[p], breaks'[p], opportunities'[p])
  BY <1>16, <1>18, <1>20, <1>21, <1>22, <1>24 DEF Players
<1>27. totalPoints' = totals'[0]["service_points"] + totals'[1]["service_points"]
  <2>1. k["service_points"] \in Nat /\ l["service_points"] \in Nat
    BY DEF Counters, ServeCounters
  <2>2. totalPoints' = totalPoints + 2 * cycles + 2
    BY <1>2, <1>4, <1>19, <2>1 DEF AcceleratedPoints
  <2>3. QED
    BY <1>4, <1>10, <1>18, <1>19, <1>20, <1>21, <2>1, <2>2
<1>28. QED
  BY <1>25, <1>26, <1>27 DEF StatsInv, ServeSplit, GamesSplit, Mirrored, Engine

LEMMA StatsStep == IInv /\ StatsInv /\ [SimulationNext]_simulationVars => StatsInv'
<1>1. ASSUME StatsInv, UNCHANGED simulationVars PROVE StatsInv'
  BY <1>1 DEF simulationVars, scoringVars, StatsInv
<1>2. QED
  BY <1>1, PointStats, SweepStats DEF SimulationNext

LEMMA StatsOfSimulation == SimulationSpec => [](IInv /\ StatsInv)
<1>1. SimulationInit => IInv /\ StatsInv
  BY InitIInv, InitStats DEF SimulationInit
<1>2. QED
  BY <1>1, SimulationKeepsScore, StatsStep, PTL DEF SimulationSpec

\* In every path the statistics of both players count the match the scoring
\* engine plays and split as PlayerMatchStats asks, however many cycles of a
\* tiebreak were skipped.
THEOREM StatsAlwaysFollow == SimulationSpec => []StatsFollowScore
<1>1. ASSUME IInv, StatsInv PROVE StatsFollowScore
  <2>1. totals \in [Players -> [Counters -> Nat]]
    BY <1>1 DEF StatsInv
  <2>2. ASSUME NEW p \in Players, NEW t, t = totals[p]
        PROVE  /\ ServeSplit(t) /\ GamesSplit(t)
               /\ t["first_serve_points_won"] <= t["first_serves_in"]
               /\ t["second_serve_points_won"] <= t["second_serve_opportunities"]
               /\ t["breaks_achieved"] <= t["return_games_played"]
               /\ t["breaks_achieved"] <= t["break_point_opportunities"]
    <3>1. PICK q \in Players : q = Other(p)
      BY PlayersFacts
    <3>2. PICK u : u = totals[q]
      OBVIOUS
    <3>3. /\ ServeSplit(t) /\ GamesSplit(t) /\ Mirrored(t, u)
          /\ Engine(t, breaks[p], opportunities[p]) /\ GamesSplit(u)
      BY <1>1, <2>2, <3>1, <3>2 DEF StatsInv
    <3>4. \A c \in Counters : t[c] \in Nat /\ u[c] \in Nat
      BY <2>1, <2>2, <3>2
    <3>5. t["first_serve_points_won"] <= t["first_serves_in"]
      BY <3>3, <3>4 DEF ServeSplit, Counters, ServeCounters
    <3>6. t["second_serve_points_won"] <= t["second_serve_opportunities"]
      BY <3>3, <3>4 DEF ServeSplit, Counters, ServeCounters
    <3>7. t["breaks_achieved"] <= t["return_games_played"]
      BY <3>3, <3>4 DEF Mirrored, GamesSplit, Counters, GameCounters
    <3>8. breaks[p] <= opportunities[p]
      BY <1>1 DEF IInv, BreaksWereChances
    <3>9. QED
      BY <3>3, <3>5, <3>6, <3>7, <3>8 DEF Engine
  <2>3. StatsAccepted
    BY <2>2 DEF StatsAccepted, ServeSplit, GamesSplit
  <2>4. QED
    BY <1>1, <2>3 DEF StatsInv, Engine, StatsFollowScore
<1>2. QED
  BY <1>1, StatsOfSimulation, PTL
-----------------------------------------------------------------------------
\* Games and tiebreaks of the completed sets ---------------------------------

GamesOf(sets) == MapThenSumSet(LAMBDA i : Sum(sets[i].games), DOMAIN sets)

LEMMA GamesOfSums ==
  ASSUME NEW sets, IsFiniteSet(DOMAIN sets),
         NEW g, g = [i \in DOMAIN sets |-> Sum(sets[i].games)]
  PROVE  GamesOf(sets) = SumOf(g, DOMAIN sets)
<1>1. PICK S : S = DOMAIN sets
  OBVIOUS
<1>2. PICK jt : SumsOver(jt, g, S) /\ SumOf(g, S) = jt[S]
  BY <1>1, SumOfSums
<1>3. ASSUME NEW s \in SUBSET S, s # {}
      PROVE  g[OneOf(s)] = Sum(sets[OneOf(s)].games)
  <2>1. OneOf(s) \in S
    BY <1>3 DEF OneOf
  <2>2. QED
    BY <1>1, <2>1
<1> DEFINE Follows(f) == f = [s \in SUBSET S |->
                                IF s = {} THEN 0
                                ELSE Sum(sets[OneOf(s)].games) + f[s \ {OneOf(s)}]]
<1>4. ASSUME NEW f PROVE Follows(f) <=> SumsOver(f, g, S)
  <2>1. [s \in SUBSET S |-> IF s = {} THEN 0
                            ELSE Sum(sets[OneOf(s)].games) + f[s \ {OneOf(s)}]]
        = [s \in SUBSET S |-> IF s = {} THEN 0 ELSE g[OneOf(s)] + f[s \ {OneOf(s)}]]
    BY <1>3
  <2>2. QED
    BY <2>1 DEF SumsOver
<1>5. PICK it : it = CHOOSE f : Follows(f)
  OBVIOUS
<1>6. Follows(it)
  BY <1>2, <1>4, <1>5
<1>7. GamesOf(sets) = it[S]
  BY <1>1, <1>5 DEF GamesOf, MapThenSumSet, MapThenFoldSet, OneOf
<1>8. SumsOver(it, g, S)
  BY <1>4, <1>6
<1> HIDE DEF Follows
<1>9. it = jt
  BY <1>1, <1>2, <1>8, SumsAgree
<1>10. QED
  BY <1>1, <1>2, <1>7, <1>9

LEMMA GamesOfAppend ==
  ASSUME NEW sets \in Seq(SetResult), NEW r \in SetResult
  PROVE  /\ GamesOf(sets) \in Int
         /\ GamesOf(Append(sets, r)) = GamesOf(sets) + Sum(r.games)
<1>1. PICK n \in Nat : n = Len(sets)
  OBVIOUS
<1>2. PICK longer : longer = Append(sets, r)
  OBVIOUS
<1>3. /\ DOMAIN sets = 1 .. n /\ DOMAIN longer = 1 .. n + 1
      /\ longer[n + 1] = r /\ \A i \in 1 .. n : longer[i] = sets[i] /\ sets[i] \in SetResult
  BY <1>1, <1>2
<1>4. IsFiniteSet(DOMAIN sets) /\ IsFiniteSet(DOMAIN longer)
  BY <1>3, FS_Interval
<1>5. PICK g : g = [i \in DOMAIN sets |-> Sum(sets[i].games)]
  OBVIOUS
<1>6. PICK h : h = [i \in DOMAIN longer |-> Sum(longer[i].games)]
  OBVIOUS
<1>7. /\ \A i \in 1 .. n : sets[i].games \in Score
      /\ \A i \in 1 .. n + 1 : longer[i].games \in Score
  BY <1>3 DEF SetResult
<1>8. /\ \A i \in 1 .. n : g[i] \in Int /\ h[i] = g[i]
      /\ \A i \in 1 .. n + 1 : h[i] \in Int
  BY <1>3, <1>5, <1>6, <1>7 DEF Sum, Score, Players
<1>9. GamesOf(sets) = SumOf(g, 1 .. n) /\ GamesOf(longer) = SumOf(h, 1 .. n + 1)
  BY <1>3, <1>4, <1>5, <1>6, GamesOfSums
<1>10. SumOf(g, 1 .. n) \in Int /\ SumOf(h, 1 .. n + 1) = SumOf(g, 1 .. n) + h[n + 1]
  BY <1>8, SumOfAppend
<1>11. h[n + 1] = Sum(r.games)
  BY <1>3, <1>6
<1>12. QED
  BY <1>2, <1>9, <1>10, <1>11

TiebreaksOf(sets) == {i \in DOMAIN sets : sets[i].tiebreak # None}

LEMMA TiebreaksOfAppend ==
  ASSUME NEW sets \in Seq(SetResult), NEW r \in SetResult
  PROVE  /\ IsFiniteSet(TiebreaksOf(sets)) /\ Cardinality(TiebreaksOf(sets)) \in Nat
         /\ Cardinality(TiebreaksOf(Append(sets, r))) =
              IF r.tiebreak # None THEN Cardinality(TiebreaksOf(sets)) + 1
              ELSE Cardinality(TiebreaksOf(sets))
<1>1. PICK n \in Nat : n = Len(sets)
  OBVIOUS
<1>2. PICK longer : longer = Append(sets, r)
  OBVIOUS
<1>3. /\ DOMAIN sets = 1 .. n /\ DOMAIN longer = 1 .. n + 1
      /\ longer[n + 1] = r /\ \A i \in 1 .. n : longer[i] = sets[i]
  BY <1>1, <1>2
<1>4. PICK S : S = TiebreaksOf(sets)
  OBVIOUS
<1>5. PICK T : T = TiebreaksOf(longer)
  OBVIOUS
<1>6. IsFiniteSet(S) /\ Cardinality(S) \in Nat
  <2>1. S \in SUBSET (1 .. n)
    BY <1>3, <1>4 DEF TiebreaksOf
  <2>2. IsFiniteSet(1 .. n)
    BY FS_Interval
  <2>3. IsFiniteSet(S)
    BY <2>1, <2>2, FS_Subset
  <2>4. QED
    BY <2>3, FS_CardinalityType
<1>7. n + 1 \notin S
  BY <1>3, <1>4 DEF TiebreaksOf
<1>8. CASE r.tiebreak # None
  <2>1. T = S \cup {n + 1}
    BY <1>3, <1>4, <1>5, <1>8 DEF TiebreaksOf
  <2>2. Cardinality(T) = Cardinality(S) + 1
    BY <1>6, <1>7, <2>1, FS_AddElement
  <2>3. QED
    BY <1>2, <1>4, <1>5, <1>6, <1>8, <2>2
<1>9. CASE r.tiebreak = None
  <2>1. T = S
    BY <1>3, <1>4, <1>5, <1>9 DEF TiebreaksOf
  <2>2. QED
    BY <1>2, <1>4, <1>5, <1>6, <1>9, <2>1
<1>10. QED
  BY <1>8, <1>9

\* Every tiebreak has one winner.
LEMMA TiebreaksSplit ==
  ASSUME NEW S, IsFiniteSet(S), NEW sets,
         NEW A, A = {i \in S : SetWinner(sets[i]) = 0},
         NEW B, B = {i \in S : SetWinner(sets[i]) = 1}
  PROVE  Cardinality(A) \in Nat /\ Cardinality(B) \in Nat
         /\ Cardinality(A) + Cardinality(B) = Cardinality(S)
<1>3. A \cup B = S /\ A \cap B = {}
  BY DEF SetWinner
<1>4. IsFiniteSet(A) /\ IsFiniteSet(B)
  BY FS_Subset
<1>5. Cardinality(A \cup B) = Cardinality(A) + Cardinality(B) - Cardinality(A \cap B)
  BY <1>4, FS_Union
<1>6. Cardinality({}) = 0 /\ Cardinality(A) \in Nat /\ Cardinality(B) \in Nat
  BY <1>4, FS_EmptySet, FS_CardinalityType
<1>7. Cardinality(A \cup B) = Cardinality(S) /\ Cardinality(A \cap B) = Cardinality({})
  BY <1>3, Zenon
<1>8. QED
  BY <1>5, <1>6, <1>7
-----------------------------------------------------------------------------
\* The path and its score ----------------------------------------------------

LEMMA TotalGamesAre ==
  /\ TotalGames = GamesOf(completedSets) + ActiveGames(0) + ActiveGames(1)
  /\ TotalGames' = GamesOf(completedSets') + ActiveGames(0)' + ActiveGames(1)'
  /\ OverSets(LAMBDA r : Sum(r.games)) = GamesOf(completedSets)
<1>1. OverSets(LAMBDA r : Sum(r.games)) = GamesOf(completedSets)
  BY DEF OverSets, GamesOf
<1>2. TotalGames = GamesOf(completedSets) + ActiveGames(0) + ActiveGames(1)
  BY <1>1 DEF TotalGames
<1>3. TotalGames' = GamesOf(completedSets') + ActiveGames(0)' + ActiveGames(1)'
  <2>1. (TotalGames = GamesOf(completedSets) + ActiveGames(0) + ActiveGames(1))'
    BY <1>2, PTL
  <2>2. QED
    BY <2>1
<1>4. QED
  BY <1>1, <1>2, <1>3

LEMMA ActiveGamesAre ==
  ASSUME TypeOK
  PROVE  /\ ActiveGames(0) \in Nat /\ ActiveGames(1) \in Nat
         /\ activeSet # None => ActiveGames(0) + ActiveGames(1) = Sum(activeSet.games)
         /\ activeSet = None => ActiveGames(0) = 0 /\ ActiveGames(1) = 0
BY DEF TypeOK, ActiveGames, SetState, Score, Sum, Players

LEMMA GamesAreInt ==
  ASSUME TypeOK
  PROVE  /\ GamesOf(completedSets) \in Int /\ TotalGames \in Int
         /\ IsFiniteSet(TiebreaksOf(completedSets))
         /\ Cardinality(TiebreaksOf(completedSets)) \in Nat
<1>1. PICK r \in SetResult : r = [setNumber |-> 1, firstServer |-> 0, games |-> Level,
                                  tiebreak |-> None]
  BY PlayersFacts DEF SetResult, Players
<1>2. completedSets \in Seq(SetResult)
  BY DEF TypeOK
<1>3. GamesOf(completedSets) \in Int
  BY <1>2, GamesOfAppend
<1>4. /\ IsFiniteSet(TiebreaksOf(completedSets))
      /\ Cardinality(TiebreaksOf(completedSets)) \in Nat
  BY <1>1, <1>2, TiebreaksOfAppend
<1>5. QED
  BY <1>3, <1>4, TotalGamesAre, ActiveGamesAre

LEMMA SameSetGames ==
  ASSUME TypeOK, TypeOK', activeSet # None, activeSet' # None, UNCHANGED completedSets,
         NEW d \in Nat, Sum(activeSet'.games) = Sum(activeSet.games) + d
  PROVE  /\ TotalGames' = TotalGames + d
         /\ TiebreaksOf(completedSets') = TiebreaksOf(completedSets)
<1>1. GamesOf(completedSets') = GamesOf(completedSets) /\ GamesOf(completedSets) \in Int
  BY GamesAreInt
<1>2. /\ ActiveGames(0) \in Nat /\ ActiveGames(1) \in Nat
      /\ ActiveGames(0) + ActiveGames(1) = Sum(activeSet.games)
  BY ActiveGamesAre
<1>3. /\ ActiveGames(0)' \in Nat /\ ActiveGames(1)' \in Nat
      /\ ActiveGames(0)' + ActiveGames(1)' = Sum(activeSet'.games)
  BY DEF TypeOK, ActiveGames, SetState, Score, Sum, Players
<1>4. /\ TotalGames = GamesOf(completedSets) + ActiveGames(0) + ActiveGames(1)
      /\ TotalGames' = GamesOf(completedSets') + ActiveGames(0)' + ActiveGames(1)'
  BY TotalGamesAre
<1>5. TotalGames' = TotalGames + d
  BY <1>1, <1>2, <1>3, <1>4
<1>6. QED
  BY <1>5

LEMMA FinishedSetGames ==
  ASSUME TypeOK, activeSet # None, NEW r \in SetResult, FinishSet(r), NEW w \in Players,
         r.games = Increment(activeSet.games, w)
  PROVE  /\ TotalGames' = TotalGames + 1
         /\ Cardinality(TiebreaksOf(completedSets')) =
              IF r.tiebreak # None THEN Cardinality(TiebreaksOf(completedSets)) + 1
              ELSE Cardinality(TiebreaksOf(completedSets))
<1>1. completedSets \in Seq(SetResult) /\ completedSets' = Append(completedSets, r)
  BY DEF TypeOK, FinishSet
<1>2. activeSet.games \in Score
  BY DEF TypeOK, SetState
<1>3. Sum(r.games) = Sum(activeSet.games) + 1 /\ Sum(activeSet.games) \in Nat
  BY <1>2 DEF Sum, Increment, Score, Players
<1>4. GamesOf(completedSets') = GamesOf(completedSets) + Sum(r.games)
  BY <1>1, GamesOfAppend
<1>5. ActiveGames(0)' = 0 /\ ActiveGames(1)' = 0
  BY DEF FinishSet, ActiveGames, NewSet, Level, Players
<1>6. TotalGames' = TotalGames + 1
  BY <1>3, <1>4, <1>5, TotalGamesAre, ActiveGamesAre, GamesAreInt
<1>7. QED
  BY <1>1, <1>6, TiebreaksOfAppend

GameOver(w) == GameWon(w) \/ TiebreakWon(w)

\* A point adds a game exactly when it ends a game or a tiebreak.
LEMMA PointGames ==
  ASSUME IInv, IInv', NEW w \in Players, AwardPoint(w)
  PROVE  /\ TotalGames' = IF GameOver(w) THEN TotalGames + 1 ELSE TotalGames
         /\ Cardinality(TiebreaksOf(completedSets')) =
              IF TiebreakWon(w) THEN Cardinality(TiebreaksOf(completedSets)) + 1
              ELSE Cardinality(TiebreaksOf(completedSets))
         /\ ~(GameWon(w) /\ TiebreakWon(w))
<1>1. /\ TypeOK /\ TypeOK' /\ ActiveSetAccepted /\ activeSet # None
      /\ activeSet \in SetState /\ activeSet.games \in Score /\ activeSet.gamePoints \in Score
      /\ Sum(activeSet.games) \in Nat
  BY PointTypes DEF IInv, SetScoresLegal, AwardPoint, Sum, Score, Players
<1>2. ~(GameWon(w) /\ TiebreakWon(w))
  BY DEF GameWon, TiebreakWon
<1>3. CASE WinTiebreak(w)
  <2>1. PICK r : /\ IsResult(r) /\ FinishSet(r)
                 /\ r.tiebreak # None /\ r.games = Increment(activeSet.games, w)
    BY <1>1, <1>3, TiebreakDecidesSet
  <2>2. r \in SetResult
    BY <2>1 DEF IsResult
  <2>3. TiebreakWon(w) /\ GameOver(w)
    BY <1>3 DEF WinTiebreak, GameOver
  <2>4. QED
    BY <1>1, <1>2, <2>1, <2>2, <2>3, FinishedSetGames
<1>4. CASE WinSet(w)
  <2>1. PICK r : /\ IsResult(r) /\ FinishSet(r)
                 /\ r.tiebreak = None /\ r.games = Increment(activeSet.games, w)
    BY <1>1, <1>4, GameDecidesSet
  <2>2. r \in SetResult
    BY <2>1 DEF IsResult
  <2>3. GameWon(w) /\ GameOver(w)
    BY <1>4 DEF WinSet, GameOver
  <2>4. QED
    BY <1>1, <1>2, <2>1, <2>2, <2>3, FinishedSetGames
<1>5. CASE ScoreTiebreakPoint(w) \/ ScoreGamePoint(w)
  <2>1. /\ UNCHANGED completedSets /\ activeSet' # None
        /\ ~GameWon(w) /\ ~TiebreakWon(w)
    BY <1>1, <1>5, SetGoesOn, NoneAssumption
       DEF ScoreTiebreakPoint, ScoreGamePoint, GameWon, TiebreakWon
  <2>2. activeSet'.games = activeSet.games
    <3>1. CASE ScoreTiebreakPoint(w)
      <4>1. PICK tb : activeSet' = [activeSet EXCEPT !.tiebreak = tb]
        <5>1. activeSet' = [activeSet EXCEPT !.tiebreak =
                              [activeSet.tiebreak EXCEPT !.points = NextTiebreakPoints(w)]]
          BY <3>1 DEF ScoreTiebreakPoint
        <5>2. QED
          BY <5>1
      <4>2. QED
        BY <1>1, <4>1 DEF SetState
    <3>2. CASE ScoreGamePoint(w)
      BY <1>1, <3>2 DEF ScoreGamePoint, SetState
    <3>3. QED
      BY <1>5, <3>1, <3>2
  <2>3. Sum(activeSet'.games) = Sum(activeSet.games) + 0
    BY <1>1, <2>2
  <2>4. TotalGames' = TotalGames + 0 /\ TiebreaksOf(completedSets') = TiebreaksOf(completedSets)
    BY <1>1, <2>1, <2>3, SameSetGames
  <2>5. QED
    BY <1>1, <2>1, <2>4, GamesAreInt DEF GameOver
<1>6. CASE WinGame(w)
  <2>1. /\ UNCHANGED completedSets /\ activeSet' # None
        /\ GameWon(w) /\ ~TiebreakWon(w)
    BY <1>1, <1>2, <1>6, SetGoesOn, NoneAssumption DEF WinGame
  <2>2. activeSet'.games = GamesAfter(w)
    <3>1. PICK tb : activeSet' = [activeSet EXCEPT !.games = GamesAfter(w),
                                                   !.gamePoints = Level, !.tiebreak = tb]
      BY <1>6 DEF WinGame
    <3>2. QED
      BY <1>1, <3>1 DEF SetState
  <2>3. TerminalWinner(NextGamePoints(w), GamePoints) \in Players
    BY <1>1, <2>1, PointTypes
  <2>4. Sum(activeSet'.games) = Sum(activeSet.games) + 1
    BY <1>1, <2>2, <2>3, SumIncrement DEF GamesAfter
  <2>5. TotalGames' = TotalGames + 1 /\ TiebreaksOf(completedSets') = TiebreaksOf(completedSets)
    BY <1>1, <2>1, <2>4, SameSetGames
  <2>6. QED
    BY <2>1, <2>5 DEF GameOver
<1>7. QED
  BY <1>3, <1>4, <1>5, <1>6 DEF AwardPoint
-----------------------------------------------------------------------------
\* What the loop keeps of a path ---------------------------------------------

BreakEvent == [setNumber : Int, gameNumber : Int, matchGameNumber : Int,
               server : Players, receiver : Players]

\* The break events, in the order of their games, none of them to come.
EventsOrdered(events, games) ==
  /\ events \in Seq(BreakEvent)
  /\ \A i \in 1 .. Len(events) : events[i].matchGameNumber <= games
  /\ \A i \in 2 .. Len(events) : events[i - 1].matchGameNumber < events[i].matchGameNumber

PathInv ==
  /\ TotalGames = totals[0]["service_games_played"] + totals[1]["service_games_played"]
                    + Cardinality(TiebreaksOf(completedSets))
  /\ retired \in Players \cup {None}
  /\ retired # None => retirementGame = TotalGames /\ TotalGames >= 1
  /\ EventsOrdered(breakEvents, TotalGames)
  /\ Len(breakEvents) = breaks[0] + breaks[1]

LEMMA GamesOfNone == \A sets : sets = <<>> => GamesOf(sets) = 0
<1>1. SUFFICES ASSUME NEW sets, sets = <<>> PROVE GamesOf(sets) = 0
  OBVIOUS
<1>2. PICK S : S = DOMAIN sets
  OBVIOUS
<1>3. S = {} /\ IsFiniteSet(S)
  BY <1>1, <1>2, FS_EmptySet
<1>4. PICK g : g = [i \in S |-> Sum(sets[i].games)]
  OBVIOUS
<1>5. GamesOf(sets) = SumOf(g, S)
  BY <1>2, <1>3, <1>4, GamesOfSums
<1>6. QED
  BY <1>3, <1>5, SumOfTake

LEMMA InitPath == SimulationInit => PathInv
<1>1. SUFFICES ASSUME SimulationInit PROVE PathInv
  OBVIOUS
<1>2. /\ completedSets = <<>> /\ activeSet = NewSet(1, initialServer) /\ breaks = Level
      /\ totals = [p \in Players |-> [c \in Counters |-> 0]]
      /\ breakEvents = <<>> /\ retired = None /\ initialServer \in Players
  BY <1>1 DEF SimulationInit, Init
<1>3. totals[0]["service_games_played"] = 0 /\ totals[1]["service_games_played"] = 0
  BY <1>2 DEF Players, Counters, GameCounters
<1>4. TiebreaksOf(completedSets) = {} /\ Cardinality({}) = 0
  BY <1>2, FS_EmptySet DEF TiebreaksOf
<1>5. GamesOf(completedSets) = 0
  BY <1>2, GamesOfNone
<1>6. activeSet # None
  BY <1>2, NewSetType, NoneAssumption
<1>7. ActiveGames(0) = 0 /\ ActiveGames(1) = 0
  BY <1>2 DEF ActiveGames, NewSet, Level, Players
<1>8. TotalGames = 0
  BY <1>5, <1>7, TotalGamesAre
<1>9. Cardinality(TiebreaksOf(completedSets)) = 0
  BY <1>4
<1>10. EventsOrdered(breakEvents, TotalGames) /\ Len(breakEvents) = breaks[0] + breaks[1]
  BY <1>2, <1>8 DEF EventsOrdered, Level, Players
<1>11. QED
  BY <1>2, <1>3, <1>8, <1>9, <1>10 DEF PathInv

\* A retirement is at the end of the game that has just been counted.
LEMMA BoundaryStep ==
  ASSUME retired = None, NEW completed \in BOOLEAN, Boundary(completed)
  PROVE  /\ retired' \in Players \cup {None}
         /\ retired' # None => completed /\ retirementGame' = TotalGames'
BY SimulationAssumption DEF Boundary, RetireOrGoOn

LEMMA ServiceGamesOfPoint ==
  ASSUME IInv, StatsInv, NEW r \in PossibleResults, NEW w \in Players, w = PointWinner(r),
         AwardPoint(w),
         totals' = [totals EXCEPT ![Server] = Bump(@, ServerCounters(r, w)),
                                  ![Receiver] = Bump(@, ReceiverCounters(w))]
  PROVE  totals'[0]["service_games_played"] + totals'[1]["service_games_played"] =
           IF GameWon(w)
           THEN totals[0]["service_games_played"] + totals[1]["service_games_played"] + 1
           ELSE totals[0]["service_games_played"] + totals[1]["service_games_played"]
<1>1. r \in PointResults
  BY SimulationAssumption
<1>2. PICK s \in Players : s = Server
  BY PointCounts
<1>3. PICK v \in Players : v = Receiver
  BY PointCounts
<1>4. v # s
  BY <1>2, <1>3, PointCounts
<1>5. PICK k \in [Counters -> Nat] : k = totals[s]
  BY DEF StatsInv
<1>6. PICK l \in [Counters -> Nat] : l = totals[v]
  BY DEF StatsInv
<1>7. PICK m : m = Bump(k, ServerCounters(r, w))
  OBVIOUS
<1>8. PICK n : n = Bump(l, ReceiverCounters(w))
  OBVIOUS
<1>9. totals' = [totals EXCEPT ![s] = m, ![v] = n]
  BY <1>2, <1>3, <1>4, <1>5, <1>6, <1>7, <1>8
<1>10. totals'[s] = m /\ totals'[v] = n
  BY <1>4, <1>9 DEF StatsInv
<1>11. ServeSplit(k) /\ ServeSplit(l)
  BY <1>5, <1>6 DEF StatsInv
<1>12. m["service_games_played"] = IF GameWon(w) THEN k["service_games_played"] + 1
                                                 ELSE k["service_games_played"]
  BY <1>1, <1>7, <1>11, ServerBumps
<1>13. n["service_games_played"] = l["service_games_played"]
  BY <1>8, <1>11, ReceiverBumps
<1>14. k["service_games_played"] \in Nat /\ l["service_games_played"] \in Nat
  BY DEF Counters, GameCounters
<1>15. CASE s = 0 /\ v = 1
  BY <1>5, <1>6, <1>10, <1>12, <1>13, <1>14, <1>15
<1>16. CASE s = 1 /\ v = 0
  BY <1>5, <1>6, <1>10, <1>12, <1>13, <1>14, <1>16
<1>17. QED
  BY <1>4, <1>15, <1>16 DEF Players

LEMMA BreakOfPoint ==
  ASSUME IInv, activeSet # None
  PROVE  Break \in BreakEvent /\ Break.matchGameNumber = TotalGames + 1
<1>1. TypeOK /\ activeSet \in SetState
  BY DEF IInv, TypeOK
<1>2. Server \in Players /\ Receiver \in Players
  BY <1>1, ServerTypes
<1>3. activeSet.setNumber \in Int /\ Sum(activeSet.games) \in Int
  BY <1>1 DEF SetState, Sum, Score, Players
<1>4. PICK game \in Int : game = Sum(activeSet.games) + 1
  BY <1>3
<1>5. PICK before \in Int : before = GamesOf(completedSets)
  BY <1>1, GamesAreInt
<1>6. OverSets(LAMBDA i : Sum(i.games)) = before
  BY <1>5, TotalGamesAre
<1>7. Break = [setNumber |-> activeSet.setNumber, gameNumber |-> game,
               matchGameNumber |-> before + game, server |-> Server, receiver |-> Receiver]
  BY <1>4, <1>6 DEF Break
<1>8. Break \in BreakEvent
  BY <1>2, <1>3, <1>7 DEF BreakEvent
<1>9. before + game = TotalGames + 1
  BY <1>1, <1>3, <1>4, <1>5, TotalGamesAre, ActiveGamesAre
<1>10. QED
  BY <1>7, <1>8, <1>9

LEMMA EventNumbers ==
  ASSUME NEW events \in Seq(BreakEvent)
  PROVE  \A i \in 1 .. Len(events) : events[i].matchGameNumber \in Int
<1>1. \A i \in 1 .. Len(events) : events[i] \in BreakEvent
  OBVIOUS
<1>2. \A b \in BreakEvent : b.matchGameNumber \in Int
  BY DEF BreakEvent
<1>3. QED
  BY <1>1, <1>2

LEMMA EventsGrow ==
  ASSUME NEW games \in Int, NEW events, EventsOrdered(events, games),
         NEW b \in BreakEvent, b.matchGameNumber = games + 1
  PROVE  /\ EventsOrdered(Append(events, b), games + 1)
         /\ Len(Append(events, b)) = Len(events) + 1
<1>1. PICK n \in Nat : n = Len(events)
  BY DEF EventsOrdered
<1>2. PICK longer : longer = Append(events, b)
  OBVIOUS
<1>3. /\ longer \in Seq(BreakEvent) /\ Len(longer) = n + 1 /\ longer[n + 1] = b
      /\ \A i \in 1 .. n : longer[i] = events[i]
  BY <1>1, <1>2 DEF EventsOrdered
<1>4. \A i \in 1 .. n : events[i].matchGameNumber \in Int /\ events[i].matchGameNumber <= games
  BY <1>1, EventNumbers DEF EventsOrdered
<1>5. \A i \in 1 .. n + 1 : longer[i].matchGameNumber <= games + 1
  BY <1>3, <1>4
<1>6. ASSUME NEW i \in 2 .. n + 1
      PROVE  longer[i - 1].matchGameNumber < longer[i].matchGameNumber
  <2>1. i - 1 \in 1 .. n /\ longer[i - 1] = events[i - 1]
    BY <1>3
  <2>2. CASE i = n + 1
    BY <1>3, <1>4, <2>1, <2>2
  <2>3. CASE i # n + 1
    <3>1. i \in 2 .. Len(events) /\ longer[i] = events[i]
      BY <1>1, <1>3, <2>3
    <3>2. QED
      BY <2>1, <3>1 DEF EventsOrdered
  <2>4. QED
    BY <2>2, <2>3
<1>7. QED
  BY <1>1, <1>2, <1>3, <1>5, <1>6 DEF EventsOrdered

LEMMA EventsStay ==
  ASSUME NEW games \in Int, NEW events, EventsOrdered(events, games),
         NEW later \in Int, games <= later
  PROVE  EventsOrdered(events, later)
<1>1. \A i \in 1 .. Len(events) : events[i].matchGameNumber \in Int
  BY EventNumbers DEF EventsOrdered
<1>2. QED
  BY <1>1 DEF EventsOrdered

LEMMA PointPath ==
  ASSUME IInv, IInv', StatsInv, PathInv, PlayPoint
  PROVE  PathInv'
<1>1. PICK r \in PossibleResults :
        /\ AwardPoint(PointWinner(r)) /\ activeSet # None /\ retired = None
        /\ totals' = [totals EXCEPT
                        ![Server] = Bump(@, ServerCounters(r, PointWinner(r))),
                        ![Receiver] = Bump(@, ReceiverCounters(PointWinner(r)))]
        /\ breakEvents' = IF BreakOfServe(PointWinner(r)) THEN Append(breakEvents, Break)
                          ELSE breakEvents
        /\ Boundary(GameWon(PointWinner(r)) \/ TiebreakWon(PointWinner(r)))
  BY DEF PlayPoint
<1>2. PICK w \in Players : w = PointWinner(r)
  BY <1>1, PointOfSimulation
<1>3. AwardPoint(w) /\ Boundary(GameOver(w))
      /\ breakEvents' = (IF BreakOfServe(w) THEN Append(breakEvents, Break) ELSE breakEvents)
  BY <1>1, <1>2 DEF GameOver
<1>4. /\ TotalGames' = IF GameOver(w) THEN TotalGames + 1 ELSE TotalGames
      /\ Cardinality(TiebreaksOf(completedSets')) =
           IF TiebreakWon(w) THEN Cardinality(TiebreaksOf(completedSets)) + 1
           ELSE Cardinality(TiebreaksOf(completedSets))
      /\ ~(GameWon(w) /\ TiebreakWon(w))
  BY <1>3, PointGames
<1>5. TotalGames \in Int /\ Cardinality(TiebreaksOf(completedSets)) \in Nat
  BY GamesAreInt DEF IInv
<1>6. PICK played \in Nat :
        played = totals[0]["service_games_played"] + totals[1]["service_games_played"]
  BY DEF StatsInv, Players, Counters, GameCounters
<1>7. totals'[0]["service_games_played"] + totals'[1]["service_games_played"]
        = IF GameWon(w) THEN played + 1 ELSE played
  BY <1>1, <1>2, <1>3, <1>6, ServiceGamesOfPoint
<1>8. TotalGames = played + Cardinality(TiebreaksOf(completedSets))
  BY <1>6 DEF PathInv
<1>9. TotalGames' = totals'[0]["service_games_played"] + totals'[1]["service_games_played"]
                      + Cardinality(TiebreaksOf(completedSets'))
  BY <1>4, <1>5, <1>7, <1>8 DEF GameOver
<1>10. retired' \in Players \cup {None}
       /\ (retired' # None => GameOver(w) /\ retirementGame' = TotalGames')
  <2>1. GameOver(w) \in BOOLEAN
    BY DEF GameOver, GameWon, TiebreakWon
  <2>2. PICK completed \in BOOLEAN : completed = GameOver(w)
    BY <2>1
  <2>3. Boundary(completed)
    BY <1>3, <2>2
  <2>4. QED
    BY <1>1, <2>2, <2>3, BoundaryStep
<1>11. retired' # None => TotalGames' >= 1
  BY <1>4, <1>5, <1>8, <1>10
<1>12. breaks \in Score /\ breaks' \in Score
  BY DEF IInv, TypeOK
<1>13. /\ breaks'[0] + breaks'[1] = IF BreakOfServe(w) THEN breaks[0] + breaks[1] + 1
                                   ELSE breaks[0] + breaks[1]
       /\ BreakOfServe(w) => GameWon(w)
  <2>1. PICK s \in Players : s = Server
    BY <1>3, PointCounts
  <2>2. PICK v \in Players : v = Receiver
    BY <1>3, PointCounts
  <2>3. /\ v # s /\ breaks'[s] = breaks[s] /\ (BreakOfServe(w) => GameWon(w))
        /\ breaks'[v] = IF BreakOfServe(w) THEN breaks[v] + 1 ELSE breaks[v]
    BY <1>3, <2>1, <2>2, PointCounts
  <2>4. breaks[0] \in Nat /\ breaks[1] \in Nat
    BY <1>12 DEF Score, Players
  <2>5. CASE s = 0 /\ v = 1
    BY <2>3, <2>4, <2>5
  <2>6. CASE s = 1 /\ v = 0
    BY <2>3, <2>4, <2>6
  <2>7. QED
    BY <2>3, <2>5, <2>6 DEF Players
<1>14. EventsOrdered(breakEvents, TotalGames) /\ Len(breakEvents) = breaks[0] + breaks[1]
  BY DEF PathInv
<1>15. CASE BreakOfServe(w)
  <2>1. PICK b \in BreakEvent : b = Break /\ b.matchGameNumber = TotalGames + 1
    BY <1>1, BreakOfPoint
  <2>2. breakEvents' = Append(breakEvents, b) /\ TotalGames' = TotalGames + 1
    BY <1>3, <1>4, <1>13, <1>15, <2>1 DEF GameOver
  <2>3. EventsOrdered(breakEvents', TotalGames + 1) /\ Len(breakEvents') = Len(breakEvents) + 1
    <3>1. PICK games \in Int : games = TotalGames
      BY <1>5
    <3>2. PICK events : events = breakEvents
      OBVIOUS
    <3>3. EventsOrdered(events, games) /\ b.matchGameNumber = games + 1
      BY <1>14, <2>1, <3>1, <3>2
    <3>4. EventsOrdered(Append(events, b), games + 1) /\ Len(Append(events, b)) = Len(events) + 1
      BY <3>3, EventsGrow
    <3>5. QED
      BY <2>2, <3>1, <3>2, <3>4
  <2>4. Len(breakEvents') = breaks'[0] + breaks'[1]
    BY <1>13, <1>14, <1>15, <2>3
  <2>5. EventsOrdered(breakEvents', TotalGames')
    BY <2>2, <2>3
  <2>6. QED
    BY <1>9, <1>10, <1>11, <2>4, <2>5 DEF PathInv, EventsOrdered
<1>16. CASE ~BreakOfServe(w)
  <2>1. breakEvents' = breakEvents
    BY <1>3, <1>16
  <2>2. TotalGames' \in Int /\ TotalGames <= TotalGames'
    BY <1>4, <1>5
  <2>3. EventsOrdered(breakEvents, TotalGames')
    <3>1. PICK games \in Int : games = TotalGames
      BY <1>5
    <3>2. PICK later \in Int : later = TotalGames'
      BY <2>2
    <3>3. QED
      BY <1>14, <2>2, <3>1, <3>2, EventsStay
  <2>4. EventsOrdered(breakEvents', TotalGames')
    BY <2>1, <2>3
  <2>5. Len(breakEvents') = breaks'[0] + breaks'[1]
    BY <1>13, <1>14, <1>16, <2>1
  <2>6. QED
    BY <1>9, <1>10, <1>11, <2>4, <2>5 DEF PathInv, EventsOrdered
<1>17. QED
  BY <1>15, <1>16

LEMMA SweepPath ==
  ASSUME IInv, StatsInv, PathInv, NEW w \in Players, Accelerate(w)
  PROVE  PathInv'
<1>1. PICK r : /\ IsResult(r) /\ FinishSet(r) /\ r.tiebreak # None
               /\ r.games = Increment(activeSet.games, w)
  BY SweepFinishes
<1>2. /\ TypeOK /\ activeSet # None /\ retired = None /\ r \in SetResult /\ Boundary(TRUE)
      /\ UNCHANGED <<breaks, breakEvents>>
  BY <1>1 DEF IInv, Accelerate, IsResult
<1>3. /\ TotalGames' = TotalGames + 1
      /\ Cardinality(TiebreaksOf(completedSets')) = Cardinality(TiebreaksOf(completedSets)) + 1
  BY <1>1, <1>2, FinishedSetGames
<1>4. TotalGames \in Int /\ Cardinality(TiebreaksOf(completedSets)) \in Nat
  BY <1>2, GamesAreInt
<1>5. /\ totals'[0]["service_games_played"] = totals[0]["service_games_played"]
      /\ totals'[1]["service_games_played"] = totals[1]["service_games_played"]
  <2>1. PICK n0, n1 :
          totals' = [totals EXCEPT ![0] = AddAggregate(@, n0), ![1] = AddAggregate(@, n1)]
    <3>1. PICK cycles \in 0 .. MaxCycles : \E bothWin \in 0 .. cycles :
            \E n0 \in SweepSplits(0, w, cycles, bothWin),
               n1 \in SweepSplits(1, w, cycles, bothWin) :
              totals' = [totals EXCEPT ![0] = AddAggregate(@, n0), ![1] = AddAggregate(@, n1)]
      BY DEF Accelerate
    <3>2. QED
      BY <3>1
  <2>2. totals \in [Players -> [Counters -> Nat]] /\ 0 \in Players /\ 1 \in Players
    BY DEF StatsInv, Players
  <2>3. totals'[0] = AddAggregate(totals[0], n0) /\ totals'[1] = AddAggregate(totals[1], n1)
    BY <2>1, <2>2
  <2>4. /\ totals[0]["service_games_played"] \in Nat /\ totals[1]["service_games_played"] \in Nat
        /\ "service_games_played" \in Counters /\ "service_games_played" \notin ServeCounters
    BY <2>2 DEF Counters, GameCounters, ServeCounters
  <2>5. ASSUME NEW k, k["service_games_played"] \in Nat, NEW n
        PROVE  AddAggregate(k, n)["service_games_played"] = k["service_games_played"]
    BY <2>4, <2>5 DEF AddAggregate
  <2>6. QED
    BY <2>3, <2>4, <2>5
<1>6. totals[0]["service_games_played"] \in Nat /\ totals[1]["service_games_played"] \in Nat
  BY DEF StatsInv, Players, Counters, GameCounters
<1>7. TotalGames' = totals'[0]["service_games_played"] + totals'[1]["service_games_played"]
                      + Cardinality(TiebreaksOf(completedSets'))
  BY <1>3, <1>4, <1>5, <1>6 DEF PathInv
<1>8. retired' \in Players \cup {None} /\ (retired' # None => retirementGame' = TotalGames')
  BY <1>2, BoundaryStep
<1>9. TotalGames' >= 1
  BY <1>3, <1>4, <1>6 DEF PathInv
<1>10. EventsOrdered(breakEvents', TotalGames')
  <2>1. PICK games \in Int : games = TotalGames
    BY <1>4
  <2>2. PICK later \in Int : later = TotalGames'
    BY <1>3, <1>4
  <2>3. EventsOrdered(breakEvents, games) /\ games <= later
    BY <1>3, <2>1, <2>2 DEF PathInv
  <2>4. EventsOrdered(breakEvents, later)
    BY <2>3, EventsStay
  <2>5. QED
    BY <1>2, <2>2, <2>4
<1>11. Len(breakEvents') = breaks'[0] + breaks'[1]
  BY <1>2 DEF PathInv
<1>12. QED
  BY <1>7, <1>8, <1>9, <1>10, <1>11 DEF PathInv, EventsOrdered

LEMMA PathStep ==
  IInv /\ IInv' /\ StatsInv /\ PathInv /\ [SimulationNext]_simulationVars => PathInv'
<1>1. ASSUME PathInv, UNCHANGED simulationVars PROVE PathInv'
  <2>1. UNCHANGED <<completedSets, activeSet, totals, breakEvents, breaks, retired,
                    retirementGame>>
    BY <1>1 DEF simulationVars, scoringVars
  <2>2. TotalGames' = TotalGames
    BY <2>1, TotalGamesAre DEF ActiveGames
  <2>3. QED
    BY <1>1, <2>1, <2>2 DEF PathInv, EventsOrdered
<1>2. QED
  BY <1>1, PointPath, SweepPath DEF SimulationNext

LEMMA PathsOfSimulation == SimulationSpec => [](IInv /\ StatsInv /\ PathInv)
<1>1. SimulationInit => IInv /\ StatsInv /\ PathInv
  BY InitIInv, InitStats, InitPath DEF SimulationInit
<1>2. IInv /\ StatsInv /\ PathInv /\ [SimulationNext]_simulationVars
        => (IInv /\ StatsInv /\ PathInv)'
  BY SimulationKeepsScore, StatsStep, PathStep
<1>3. QED
  BY <1>1, <1>2, PTL DEF SimulationSpec

\* The games won as the statistics count them are the games of the score.
LEMMA GamesWonAre ==
  ASSUME IInv, StatsInv, PathInv
  PROVE  GamesWon(0) \in Nat /\ GamesWon(1) \in Nat /\ GamesWon(0) + GamesWon(1) = TotalGames
<1>1. TypeOK /\ 0 \in Players /\ 1 \in Players /\ Other(0) = 1 /\ Other(1) = 0
  BY DEF IInv, Players, Other
<1>2. PICK a : a = totals[0]
  OBVIOUS
<1>3. PICK b : b = totals[1]
  OBVIOUS
<1>4. /\ a \in [Counters -> Nat] /\ GamesSplit(a) /\ Mirrored(a, b)
      /\ b \in [Counters -> Nat] /\ GamesSplit(b) /\ Mirrored(b, a)
  BY <1>1, <1>2, <1>3 DEF StatsInv
<1>5. PICK T : T = TiebreaksOf(completedSets)
  OBVIOUS
<1>6. PICK A : A = {i \in T : SetWinner(completedSets[i]) = 0}
  OBVIOUS
<1>7. PICK B : B = {i \in T : SetWinner(completedSets[i]) = 1}
  OBVIOUS
<1>8. IsFiniteSet(T) /\ Cardinality(T) \in Nat
  BY <1>1, <1>5, GamesAreInt
<1>9. /\ Cardinality(A) \in Nat /\ Cardinality(B) \in Nat
      /\ Cardinality(A) + Cardinality(B) = Cardinality(T)
  BY <1>6, <1>7, <1>8, TiebreaksSplit
<1>10. GamesWon(0) = a["service_games_held"] + a["breaks_achieved"] + Cardinality(A)
  BY <1>2, <1>5, <1>6 DEF GamesWon, TiebreakSets, TiebreaksOf
<1>11. GamesWon(1) = b["service_games_held"] + b["breaks_achieved"] + Cardinality(B)
  BY <1>3, <1>5, <1>7 DEF GamesWon, TiebreakSets, TiebreaksOf
<1>12. TotalGames = a["service_games_played"] + b["service_games_played"] + Cardinality(T)
  BY <1>2, <1>3, <1>5 DEF PathInv
<1>13. \A c \in GameCounters : a[c] \in Nat /\ b[c] \in Nat
  BY <1>4 DEF Counters
<1>14. QED
  BY <1>4, <1>9, <1>10, <1>11, <1>12, <1>13 DEF GamesSplit, Mirrored, GameCounters

LEMMA BuiltPathAccepted ==
  ASSUME IInv, StatsInv, PathInv PROVE PathAccepted
<1>1. SUFFICES ASSUME PathBuilt
      PROVE  /\ WinnerId \in Players
             /\ Len(completedSets) <= SetsStarted /\ SetsStarted <= BestOf
             /\ retired # None =>
                  retirementGame >= 1 /\ retirementGame = GamesWon(0) + GamesWon(1)
             /\ retired = None =>
                  /\ SetsStarted = Len(completedSets)
                  /\ SetsWon(WinnerId) = SetsToWin
                  /\ SetsWon(Other(WinnerId)) < SetsToWin
                  /\ GamesWon(0) + GamesWon(1) = TotalGames
                  /\ \A i \in DOMAIN completedSets :
                       /\ completedSets[i].setNumber = i
                       /\ completedSets[i].firstServer = FirstServerDue(i)
             /\ \A i \in TiebreakSets : completedSets[i].setNumber \in 1 .. SetsStarted
             /\ \A i, j \in TiebreakSets :
                  completedSets[i].setNumber = completedSets[j].setNumber => i = j
             /\ \A p \in Players : Mirrored(totals[p], totals[Other(p)])
             /\ Len(breakEvents) = totals[0]["breaks_achieved"] + totals[1]["breaks_achieved"]
             /\ \A i \in 2 .. Len(breakEvents) :
                  breakEvents[i - 1].matchGameNumber < breakEvents[i].matchGameNumber
  BY DEF PathAccepted, Mirrored
<1>2. /\ TypeOK /\ completedSets \in Seq(SetResult) /\ Len(completedSets) \in Nat
      /\ 0 \in Players /\ 1 \in Players /\ Other(0) = 1 /\ Other(1) = 0
      /\ BestOf \in Nat
  BY RulesAssumption DEF IInv, TypeOK, Players, Other
<1>3. retired = None => MatchWinner \in Players /\ SetsWon(MatchWinner) = SetsToWin
  BY <1>1 DEF PathBuilt, IsComplete, MatchWinner
<1>4. WinnerId \in Players
  BY <1>3, PlayersFacts DEF PathInv, WinnerId
<1>5. Len(completedSets) <= BestOf /\ (activeSet # None => Len(completedSets) + 1 <= BestOf)
  BY DEF IInv, MatchStopsAtClinch, ServiceOrderContinuous
<1>6. Len(completedSets) <= SetsStarted /\ SetsStarted <= BestOf
  BY <1>2, <1>5 DEF SetsStarted, ActiveSetStarted
<1>7. GamesWon(0) + GamesWon(1) = TotalGames
  BY GamesWonAre
<1>8. retired # None =>
        retirementGame >= 1 /\ retirementGame = GamesWon(0) + GamesWon(1)
  BY <1>7 DEF PathInv
<1>9. ASSUME retired = None
      PROVE  /\ SetsStarted = Len(completedSets)
             /\ SetsWon(WinnerId) = SetsToWin
             /\ SetsWon(Other(WinnerId)) < SetsToWin
  <2>1. activeSet = None
    BY <1>1, <1>9 DEF PathBuilt, IInv, MatchStopsAtClinch
  <2>2. SetsStarted = Len(completedSets)
    BY <1>2, <2>1 DEF SetsStarted, ActiveSetStarted
  <2>3. PICK p \in Players : p = WinnerId /\ SetsWon(p) = SetsToWin
    BY <1>3, <1>9 DEF WinnerId
  <2>4. /\ SetsWon(0) \in Nat /\ SetsWon(1) \in Nat
        /\ SetsWon(0) + SetsWon(1) = Len(completedSets)
    BY <1>2, SetsWonFacts
  <2>5. SetsWon(Other(p)) < SetsToWin
    <3>1. CASE p = 0
      BY <1>2, <1>5, <2>3, <2>4, <3>1, FormatFacts
    <3>2. CASE p = 1
      BY <1>2, <1>5, <2>3, <2>4, <3>2, FormatFacts
    <3>3. QED
      BY <3>1, <3>2 DEF Players
  <2>6. QED
    BY <2>2, <2>3, <2>5
<1>10. \A p \in Players : Mirrored(totals[p], totals[Other(p)])
  BY DEF StatsInv
<1>11. Len(breakEvents) = totals[0]["breaks_achieved"] + totals[1]["breaks_achieved"]
  BY <1>2 DEF StatsInv, PathInv, Engine
<1>12. \A i \in 2 .. Len(breakEvents) :
         breakEvents[i - 1].matchGameNumber < breakEvents[i].matchGameNumber
  BY DEF PathInv, EventsOrdered
<1>13. \A i \in DOMAIN completedSets :
         /\ completedSets[i].setNumber = i
         /\ completedSets[i].firstServer = FirstServerDue(i)
  BY DEF IInv, ServiceOrderContinuous
<1>14. /\ \A i \in TiebreakSets : completedSets[i].setNumber \in 1 .. SetsStarted
       /\ \A i, j \in TiebreakSets :
            completedSets[i].setNumber = completedSets[j].setNumber => i = j
  <2>1. /\ TiebreakSets \subseteq 1 .. Len(completedSets) /\ DOMAIN completedSets = 1 .. Len(completedSets)
        /\ SetsStarted \in Nat
    BY <1>2 DEF TiebreakSets, SetsStarted
  <2>2. \A i \in TiebreakSets : completedSets[i].setNumber = i
    BY <1>13, <2>1
  <2>3. QED
    BY <1>2, <1>6, <2>1, <2>2
<1>15. QED
  BY <1>4, <1>6, <1>7, <1>8, <1>9, <1>10, <1>11, <1>12, <1>13, <1>14

\* The constructor of MatchPath refuses no path the loop ends with: score,
\* statistics, break events and retirement boundary, kept separately, agree.
THEOREM PathsAlwaysAccepted == SimulationSpec => []PathAccepted
BY BuiltPathAccepted, PathsOfSimulation, PTL
-----------------------------------------------------------------------------
\* A settlement is final -----------------------------------------------------

\* The events of a set that goes on are of games it has completed.
EventsPlaced ==
  \A i \in DOMAIN breakEvents :
    /\ breakEvents[i].setNumber <= Len(completedSets) + 1
    /\ breakEvents[i].setNumber = Len(completedSets) + 1 =>
         activeSet # None /\ breakEvents[i].gameNumber <= Sum(activeSet.games)

\* What a break adds to the events: one that is later than all of them.
NewEvent(b) ==
  /\ b \in BreakEvent
  /\ b.setNumber = Len(completedSets) + 1
  /\ b.gameNumber = Sum(activeSet.games) + 1
  /\ b.matchGameNumber = TotalGames + 1

\* How a match goes on: the sets that are over and the events stay, one set or
\* one event may follow, and nothing that is counted gets less.
SetsGrow ==
  \/ UNCHANGED completedSets /\ activeSet' # None
  \/ \E r \in SetResult : /\ completedSets' = Append(completedSets, r)
                          /\ activeSet' = None \/ activeSet'.games = Level
EventsGoOn ==
  breakEvents' = breakEvents \/ \E b : NewEvent(b) /\ breakEvents' = Append(breakEvents, b)
SetStarts == UNCHANGED completedSets => ActiveSetStarted'
CountsGrow == \A p \in Players : \A c \in Counters : totals[p][c] <= totals'[p][c]

LEMMA SetsMoveGrow ==
  ASSUME TypeOK, SetsMove
  PROVE  SetsGrow
<1>1. CASE UNCHANGED completedSets /\ activeSet' \in SetState
  BY <1>1, NoneAssumption DEF SetsGrow
<1>2. CASE \E r : IsResult(r) /\ FinishSet(r)
  BY <1>2 DEF FinishSet, IsResult, SetsGrow, NewSet
<1>3. QED
  BY <1>1, <1>2 DEF SetsMove

LEMMA NewEventOfBreak ==
  ASSUME IInv, activeSet # None
  PROVE  NewEvent(Break)
<1>1. Break \in BreakEvent /\ Break.matchGameNumber = TotalGames + 1
  BY BreakOfPoint
<1>2. activeSet.setNumber = Len(completedSets) + 1
  BY DEF IInv, ServiceOrderContinuous
<1>3. Break.setNumber = activeSet.setNumber /\ Break.gameNumber = Sum(activeSet.games) + 1
  BY DEF Break
<1>4. QED
  BY <1>1, <1>2, <1>3 DEF NewEvent

\* A point is of a set that has started with it.
LEMMA PointStarts ==
  ASSUME IInv, NEW w \in Players, AwardPoint(w), UNCHANGED completedSets
  PROVE  ActiveSetStarted'
<1>1. /\ TypeOK /\ ActiveSetAccepted /\ activeSet # None /\ activeSet \in SetState
      /\ completedSets \in Seq(SetResult)
      /\ activeSet.games \in Score /\ activeSet.gamePoints \in Score
  BY DEF IInv, SetScoresLegal, AwardPoint, TypeOK, SetState
<1>2. ASSUME WinTiebreak(w) \/ WinSet(w) PROVE FALSE
  <2>1. \E r : completedSets' = Append(completedSets, r)
    BY <1>2 DEF WinTiebreak, WinSet, FinishSet
  <2>2. QED
    BY <1>1, <2>1
<1>3. ASSUME ScoreTiebreakPoint(w) \/ ScoreGamePoint(w) \/ WinGame(w)
      PROVE  activeSet' \in SetState /\ activeSet' # None
  BY <1>1, <1>3, SetGoesOn, NoneAssumption
<1>4. \A s \in Score : Sum(Increment(s, w)) > 0
  BY DEF Sum, Increment, Score, Players
<1>5. CASE ScoreTiebreakPoint(w)
  <2>1. PICK tb : tb = [activeSet.tiebreak EXCEPT !.points = NextTiebreakPoints(w)]
    OBVIOUS
  <2>2. tb \in Tiebreak
    BY <1>1, <1>5, <2>1, PointTypes DEF ScoreTiebreakPoint, Tiebreak
  <2>3. activeSet' = [activeSet EXCEPT !.tiebreak = tb]
    BY <1>5, <2>1 DEF ScoreTiebreakPoint
  <2>4. activeSet'.tiebreak # None
    BY <1>1, <2>2, <2>3, NoneAssumption DEF SetState
  <2>5. QED
    BY <1>3, <1>5, <2>4 DEF ActiveSetStarted, InTiebreak
<1>6. CASE ScoreGamePoint(w)
  <2>1. activeSet'.gamePoints = Increment(activeSet.gamePoints, w)
    BY <1>1, <1>6 DEF ScoreGamePoint, NextGamePoints, SetState
  <2>2. Sum(activeSet'.gamePoints) > 0
    BY <1>1, <1>4, <2>1
  <2>3. QED
    BY <1>3, <1>6, <2>2 DEF ActiveSetStarted
<1>7. CASE WinGame(w)
  <2>1. PICK tb : activeSet' = [activeSet EXCEPT !.games = GamesAfter(w),
                                                 !.gamePoints = Level, !.tiebreak = tb]
    BY <1>7 DEF WinGame
  <2>2. TerminalWinner(NextGamePoints(w), GamePoints) \in Players
    BY <1>7, TerminalWinnerType DEF WinGame, GameWon
  <2>3. activeSet'.games = Increment(activeSet.games, TerminalWinner(NextGamePoints(w), GamePoints))
    BY <1>1, <2>1 DEF SetState, GamesAfter
  <2>4. Sum(activeSet'.games) > 0
    <3>1. \A s \in Score : \A p \in Players : Sum(Increment(s, p)) > 0
      BY DEF Sum, Increment, Score, Players
    <3>2. QED
      BY <1>1, <2>2, <2>3, <3>1
  <2>5. QED
    BY <1>3, <1>7, <2>4 DEF ActiveSetStarted
<1>8. QED
  BY <1>2, <1>5, <1>6, <1>7 DEF AwardPoint

LEMMA SumsBump ==
  ASSUME NEW k \in [Counters -> Nat], NEW names, NEW c \in Counters
  PROVE  k[c] <= Bump(k, names)[c]
BY DEF Bump

LEMMA PointGoesOn ==
  ASSUME IInv, StatsInv, PlayPoint
  PROVE  activeSet # None /\ SetsGrow /\ SetStarts /\ EventsGoOn /\ CountsGrow
<1>1. PICK r \in PossibleResults :
        /\ AwardPoint(PointWinner(r)) /\ activeSet # None
        /\ totals' = [totals EXCEPT
                        ![Server] = Bump(@, ServerCounters(r, PointWinner(r))),
                        ![Receiver] = Bump(@, ReceiverCounters(PointWinner(r)))]
        /\ breakEvents' = IF BreakOfServe(PointWinner(r)) THEN Append(breakEvents, Break)
                          ELSE breakEvents
  BY DEF PlayPoint
<1>2. PICK w \in Players : w = PointWinner(r)
  BY <1>1, PointOfSimulation
<1>3. SetsGrow
  BY <1>1, <1>2, PointMovesSets, SetsMoveGrow DEF IInv
<1>4. EventsGoOn /\ SetStarts
  BY <1>1, <1>2, NewEventOfBreak, PointStarts DEF EventsGoOn, SetStarts
<1>5. PICK s \in Players : s = Server
  BY <1>1, <1>2, PointCounts
<1>6. PICK v \in Players : v = Receiver /\ v # s
  BY <1>1, <1>2, <1>5, PointCounts
<1>7. PICK m : m = Bump(totals[s], ServerCounters(r, w))
  OBVIOUS
<1>8. PICK n : n = Bump(totals[v], ReceiverCounters(w))
  OBVIOUS
<1>9. totals' = [totals EXCEPT ![s] = m, ![v] = n]
  BY <1>1, <1>2, <1>5, <1>6, <1>7, <1>8
<1>10. totals \in [Players -> [Counters -> Nat]]
  BY DEF StatsInv
<1>11. totals'[s] = m /\ totals'[v] = n
  BY <1>6, <1>9, <1>10
<1>12. \A c \in Counters : totals[s][c] <= m[c] /\ totals[v][c] <= n[c]
  BY <1>7, <1>8, <1>10, SumsBump
<1>13. Players = {s, v}
  BY <1>6 DEF Players
<1>14. CountsGrow
  BY <1>11, <1>12, <1>13 DEF CountsGrow
<1>15. QED
  BY <1>1, <1>3, <1>4, <1>14

LEMMA SweepGoesOn ==
  ASSUME IInv, StatsInv, NEW w \in Players, Accelerate(w)
  PROVE  activeSet # None /\ SetsGrow /\ SetStarts /\ EventsGoOn /\ CountsGrow
<1>1. activeSet # None /\ SetsGrow /\ SetStarts /\ EventsGoOn
  <2>1. PICK r : IsResult(r) /\ FinishSet(r)
    BY SweepFinishes
  <2>2. SetsGrow
    BY <2>1, SetsMoveGrow DEF IInv, SetsMove
  <2>3. completedSets' # completedSets
    <3>1. completedSets \in Seq(SetResult) /\ completedSets' = Append(completedSets, r)
      BY <2>1 DEF IInv, TypeOK, FinishSet
    <3>2. Len(completedSets') = Len(completedSets) + 1 /\ Len(completedSets) \in Nat
      BY <2>1, <3>1 DEF IsResult
    <3>3. QED
      BY <3>2
  <2>4. QED
    BY <2>2, <2>3 DEF Accelerate, EventsGoOn, SetStarts
<1>2. totals \in [Players -> [Counters -> Nat]] /\ 0 \in Players /\ 1 \in Players
  BY DEF StatsInv, Players
<1>3. PICK cycles \in 0 .. MaxCycles : \E bothWin \in 0 .. cycles :
        \E n0 \in SweepSplits(0, w, cycles, bothWin),
           n1 \in SweepSplits(1, w, cycles, bothWin) :
          totals' = [totals EXCEPT ![0] = AddAggregate(@, n0), ![1] = AddAggregate(@, n1)]
  BY DEF Accelerate
<1>4. PICK bothWin \in 0 .. cycles :
        \E n0 \in SweepSplits(0, w, cycles, bothWin),
           n1 \in SweepSplits(1, w, cycles, bothWin) :
          totals' = [totals EXCEPT ![0] = AddAggregate(@, n0), ![1] = AddAggregate(@, n1)]
  BY <1>3
<1>5. PICK n0 \in SweepSplits(0, w, cycles, bothWin),
           n1 \in SweepSplits(1, w, cycles, bothWin) :
        totals' = [totals EXCEPT ![0] = AddAggregate(@, n0), ![1] = AddAggregate(@, n1)]
  BY <1>4
<1>6. totals'[0] = AddAggregate(totals[0], n0) /\ totals'[1] = AddAggregate(totals[1], n1)
  BY <1>2, <1>5
<1>7. cycles \in Nat /\ bothWin \in Nat /\ bothWin <= cycles
  BY SimulationAssumption
<1>8. ASSUME NEW p \in Players, NEW n \in SweepSplits(p, w, cycles, bothWin),
             NEW c \in Counters
      PROVE  totals[p][c] <= AddAggregate(totals[p], n)[c]
  <2>1. PICK won \in Nat : won = bothWin + IF p = w THEN 1 ELSE 0
    BY <1>7
  <2>2. PICK lost \in Nat : lost = cycles - bothWin + IF p = w THEN 0 ELSE 1
    BY <1>7
  <2>3. n \in Splits(won, lost)
    BY <2>1, <2>2 DEF SweepSplits
  <2>4. PICK k \in [Counters -> Nat] : k = totals[p] /\ ServeSplit(k)
    BY <1>2 DEF StatsInv
  <2>5. PICK m : m = AddAggregate(k, n)
    OBVIOUS
  <2>6. k[c] <= m[c]
    BY <2>3, <2>4, <2>5, AggregateAdds
  <2>7. QED
    BY <2>4, <2>5, <2>6
<1>9. \A p \in Players : \A c \in Counters : totals[p][c] <= totals'[p][c]
  BY <1>5, <1>6, <1>8 DEF Players
<1>10. QED
  BY <1>1, <1>9 DEF CountsGrow

LEMMA SetsStay ==
  ASSUME TypeOK, SetsGrow
  PROVE  /\ Len(completedSets) \in Nat /\ Len(completedSets') \in Nat
         /\ Len(completedSets) <= Len(completedSets')
         /\ DOMAIN completedSets = 1 .. Len(completedSets)
         /\ DOMAIN completedSets' = 1 .. Len(completedSets')
         /\ \A i \in DOMAIN completedSets : completedSets'[i] = completedSets[i]
BY DEF TypeOK, SetsGrow

LEMMA SetsWonGrow ==
  ASSUME TypeOK, SetsGrow, NEW p \in Players
  PROVE  SetsWon(p) \in Nat /\ SetsWon(p)' \in Nat /\ SetsWon(p) <= SetsWon(p)'
<1>1. PICK m \in Nat : m = Len(completedSets)
  BY SetsStay
<1>2. PICK n \in Nat : n = Len(completedSets')
  BY SetsStay
<1>3. PICK sets : sets = completedSets'
  OBVIOUS
<1>4. m <= n /\ \A i \in 1 .. m : sets[i] = completedSets[i]
  BY <1>1, <1>2, <1>3, SetsStay
<1>5. WonAmong(completedSets, m, p) = WonAmong(sets, m, p)
  <2>1. {i \in 1 .. m : SetWinner(completedSets[i]) = p} = {i \in 1 .. m : SetWinner(sets[i]) = p}
    BY <1>4
  <2>2. QED
    BY <2>1, Zenon DEF WonAmong
<1>6. WonAmong(sets, m, p) <= WonAmong(sets, n, p)
  BY <1>4, WonAmongMonotone
<1>7. WonAmong(sets, m, p) \in Nat /\ WonAmong(sets, n, p) \in Nat
  BY WonAmongFacts
<1>8. SetsWon(p) = WonAmong(completedSets, m, p) /\ SetsWon(p)' = WonAmong(sets, n, p)
  BY <1>1, <1>2, <1>3 DEF SetsWon, WonAmong
<1>9. QED
  BY <1>5, <1>6, <1>7, <1>8

TiebreaksBy(sets, p) == {i \in TiebreaksOf(sets) : SetWinner(sets[i]) = p}

LEMMA TiebreaksGrow ==
  ASSUME TypeOK, SetsGrow
  PROVE  /\ TiebreakSets \subseteq TiebreakSets'
         /\ \A i \in DOMAIN completedSets : i \in TiebreakSets' <=> i \in TiebreakSets
         /\ Cardinality(TiebreakSets) \in Nat /\ Cardinality(TiebreakSets') \in Nat
         /\ Cardinality(TiebreakSets) <= Cardinality(TiebreakSets')
         /\ \A p \in Players :
              /\ Cardinality(TiebreaksBy(completedSets, p)) \in Nat
              /\ Cardinality(TiebreaksBy(completedSets', p)) \in Nat
              /\ Cardinality(TiebreaksBy(completedSets, p))
                   <= Cardinality(TiebreaksBy(completedSets', p))
<1>1. PICK S : S = TiebreakSets
  OBVIOUS
<1>2. PICK T : T = TiebreakSets'
  OBVIOUS
<1>3. PICK n \in Nat : n = Len(completedSets')
  BY SetsStay
<1>4. S \subseteq T /\ T \subseteq 1 .. n
  BY <1>1, <1>2, <1>3, SetsStay DEF TiebreakSets
<1>5. \A i \in DOMAIN completedSets : i \in TiebreakSets' <=> i \in TiebreakSets
  BY SetsStay DEF TiebreakSets
<1>6. IsFiniteSet(T)
  <2>1. IsFiniteSet(1 .. n)
    BY FS_Interval
  <2>2. QED
    BY <1>4, <2>1, FS_Subset
<1>7. /\ Cardinality(S) \in Nat /\ Cardinality(T) \in Nat
      /\ Cardinality(S) <= Cardinality(T)
  BY <1>4, <1>6, FS_Subset, FS_CardinalityType
<1>8. ASSUME NEW p \in Players, NEW A, A = TiebreaksBy(completedSets, p),
             NEW B, B = TiebreaksBy(completedSets', p)
      PROVE  /\ Cardinality(A) \in Nat /\ Cardinality(B) \in Nat
             /\ Cardinality(A) <= Cardinality(B)
  <2>1. A \subseteq B
    BY <1>8, SetsStay DEF TiebreaksBy, TiebreaksOf
  <2>2. B \subseteq T
    BY <1>2, <1>8 DEF TiebreaksBy, TiebreaksOf, TiebreakSets
  <2>3. IsFiniteSet(B)
    BY <1>6, <2>2, FS_Subset
  <2>4. QED
    BY <2>1, <2>3, FS_Subset, FS_CardinalityType
<1>9. QED
  BY <1>1, <1>2, <1>4, <1>5, <1>7, <1>8

LEMMA GamesWonGrow ==
  ASSUME TypeOK, StatsInv, StatsInv', SetsGrow, CountsGrow, NEW p \in Players
  PROVE  GamesWon(p) \in Nat /\ GamesWon(p)' \in Nat /\ GamesWon(p) <= GamesWon(p)'
<1>1. PICK k \in [Counters -> Nat] : k = totals[p]
  BY DEF StatsInv
<1>2. PICK l \in [Counters -> Nat] : l = totals'[p]
  BY DEF StatsInv
<1>3. \A c \in Counters : k[c] \in Nat /\ l[c] \in Nat /\ k[c] <= l[c]
  BY <1>1, <1>2 DEF CountsGrow
<1>4. "service_games_held" \in Counters /\ "breaks_achieved" \in Counters
  BY DEF Counters, GameCounters
<1>5. PICK a : a = Cardinality(TiebreaksBy(completedSets, p))
  OBVIOUS
<1>6. PICK b : b = Cardinality(TiebreaksBy(completedSets', p))
  OBVIOUS
<1>7. a \in Nat /\ b \in Nat /\ a <= b
  BY <1>5, <1>6, TiebreaksGrow
<1>8. GamesWon(p) = k["service_games_held"] + k["breaks_achieved"] + a
  BY <1>1, <1>5 DEF GamesWon, TiebreakSets, TiebreaksBy, TiebreaksOf
<1>9. GamesWon(p)' = l["service_games_held"] + l["breaks_achieved"] + b
  BY <1>2, <1>6 DEF GamesWon, TiebreakSets, TiebreaksBy, TiebreaksOf
<1>10. QED
  BY <1>3, <1>4, <1>7, <1>8, <1>9

\* All that is known of a step that continues a match.
Onward ==
  /\ IInv /\ StatsInv /\ PathInv /\ EventsPlaced /\ activeSet # None
  /\ IInv' /\ StatsInv' /\ PathInv'
  /\ SetsGrow /\ SetStarts /\ EventsGoOn /\ CountsGrow

LEMMA GamesWonNext ==
  IInv' /\ StatsInv' /\ PathInv' => GamesWon(0)' + GamesWon(1)' = TotalGames'
<1>1. IInv /\ StatsInv /\ PathInv => GamesWon(0) + GamesWon(1) = TotalGames
  BY GamesWonAre
<1>2. (IInv /\ StatsInv /\ PathInv)' => (GamesWon(0) + GamesWon(1) = TotalGames)'
  BY <1>1, PTL
<1>3. QED
  BY <1>2

LEMMA GamesGrow ==
  ASSUME Onward
  PROVE  /\ PathGames \in Nat /\ PathGames' \in Nat /\ PathGames <= PathGames'
         /\ TotalGames = PathGames /\ TotalGames' = PathGames'
<1>1. TypeOK /\ 0 \in Players /\ 1 \in Players
  BY DEF Onward, IInv, Players
<1>2. /\ GamesWon(0) \in Nat /\ GamesWon(0)' \in Nat /\ GamesWon(0) <= GamesWon(0)'
      /\ GamesWon(1) \in Nat /\ GamesWon(1)' \in Nat /\ GamesWon(1) <= GamesWon(1)'
  BY <1>1, GamesWonGrow DEF Onward
<1>3. GamesWon(0) + GamesWon(1) = TotalGames
  BY GamesWonAre DEF Onward
<1>4. GamesWon(0)' + GamesWon(1)' = TotalGames'
  BY GamesWonNext DEF Onward
<1>5. QED
  BY <1>2, <1>3, <1>4 DEF PathGames

LEMMA PlacedStep ==
  ASSUME Onward
  PROVE  EventsPlaced'
<1>1. /\ TypeOK /\ TypeOK' /\ activeSet # None /\ activeSet \in SetState
      /\ completedSets \in Seq(SetResult) /\ breakEvents \in Seq(BreakEvent)
      /\ Sum(activeSet.games) \in Int /\ TotalGames \in Int /\ TotalGames' \in Int
      /\ TotalGames <= TotalGames' /\ EventsOrdered(breakEvents', TotalGames')
  <2>1. TypeOK /\ TypeOK' /\ activeSet # None /\ EventsOrdered(breakEvents, TotalGames)
    BY DEF Onward, IInv, PathInv
  <2>2. EventsOrdered(breakEvents', TotalGames')
    BY DEF Onward, PathInv, EventsOrdered
  <2>3. TotalGames \in Int /\ TotalGames' \in Int /\ TotalGames <= TotalGames'
    BY GamesGrow
  <2>4. breakEvents \in Seq(BreakEvent)
    BY <2>1 DEF EventsOrdered
  <2>5. activeSet \in SetState /\ completedSets \in Seq(SetResult)
    BY <2>1 DEF TypeOK
  <2>6. Sum(activeSet.games) \in Int
    BY <2>5 DEF SetState, Score, Sum, Players
  <2>7. QED
    BY <2>1, <2>2, <2>3, <2>4, <2>5, <2>6
<1>2. ASSUME NEW i \in DOMAIN breakEvents'
      PROVE  /\ breakEvents'[i].setNumber \in Int /\ breakEvents'[i].gameNumber \in Int
             /\ breakEvents'[i].setNumber <= Len(completedSets) + 1
             /\ breakEvents'[i].setNumber = Len(completedSets) + 1 =>
                  breakEvents'[i].gameNumber <= Sum(activeSet.games) + (TotalGames' - TotalGames)
  <2>1. CASE i \in DOMAIN breakEvents /\ breakEvents'[i] = breakEvents[i]
    <3>1. breakEvents[i] \in BreakEvent
      BY <1>1, <2>1
    <3>2. breakEvents[i].setNumber \in Int /\ breakEvents[i].gameNumber \in Int
      BY <3>1 DEF BreakEvent
    <3>3. QED
      BY <1>1, <2>1, <3>2 DEF Onward, EventsPlaced
  <2>2. CASE ~(i \in DOMAIN breakEvents /\ breakEvents'[i] = breakEvents[i])
    <3>1. PICK b \in BreakEvent : NewEvent(b) /\ breakEvents' = Append(breakEvents, b)
      BY <2>2 DEF Onward, EventsGoOn, NewEvent
    <3>2. breakEvents'[i] = b /\ i \in 1 .. Len(breakEvents')
      BY <1>1, <2>2, <3>1
    <3>3. b.matchGameNumber <= TotalGames'
      BY <1>1, <3>2 DEF EventsOrdered
    <3>4. b.setNumber \in Int /\ b.gameNumber \in Int
      BY DEF BreakEvent
    <3>5. QED
      BY <1>1, <3>1, <3>2, <3>3, <3>4 DEF NewEvent
  <2>3. QED
    BY <2>1, <2>2
<1>3. CASE UNCHANGED completedSets /\ activeSet' # None
  <2>1. PICK before \in Int : before = GamesOf(completedSets) /\ before = GamesOf(completedSets')
    BY <1>1, <1>3, GamesAreInt
  <2>2. TotalGames = before + Sum(activeSet.games)
    <3>1. TotalGames = before + ActiveGames(0) + ActiveGames(1)
      BY <2>1, TotalGamesAre
    <3>2. /\ ActiveGames(0) \in Nat /\ ActiveGames(1) \in Nat
          /\ ActiveGames(0) + ActiveGames(1) = Sum(activeSet.games)
      BY <1>1, ActiveGamesAre
    <3>3. QED
      BY <3>1, <3>2
  <2>3. activeSet' \in SetState
    BY <1>1, <1>3 DEF TypeOK
  <2>4. Sum(activeSet'.games) \in Int /\ activeSet'.games[0] \in Int /\ activeSet'.games[1] \in Int
    BY <2>3 DEF SetState, Score, Sum, Players
  <2>5. TotalGames' = before + activeSet'.games[0] + activeSet'.games[1]
    <3>1. TotalGames' = GamesOf(completedSets') + ActiveGames(0)' + ActiveGames(1)'
      BY TotalGamesAre
    <3>2. ActiveGames(0)' = activeSet'.games[0] /\ ActiveGames(1)' = activeSet'.games[1]
      BY <1>3 DEF ActiveGames
    <3>3. QED
      BY <2>1, <3>1, <3>2
  <2>6. Sum(activeSet'.games) = Sum(activeSet.games) + (TotalGames' - TotalGames)
    <3>1. Sum(activeSet'.games) = activeSet'.games[0] + activeSet'.games[1]
      BY DEF Sum
    <3>2. PICK a \in Int : a = activeSet'.games[0]
      BY <2>4
    <3>3. PICK b \in Int : b = activeSet'.games[1]
      BY <2>4
    <3>4. PICK x \in Int : x = Sum(activeSet.games)
      BY <1>1
    <3>5. TotalGames = before + x /\ TotalGames' = before + a + b
      BY <2>2, <2>5, <3>2, <3>3, <3>4
    <3>6. Sum(activeSet'.games) = a + b
      BY <3>1, <3>2, <3>3
    <3>7. QED
      BY <3>4, <3>5, <3>6
  <2>7. QED
    BY <1>2, <1>3, <2>6 DEF EventsPlaced
<1>4. CASE \E r \in SetResult : completedSets' = Append(completedSets, r)
  <2>1. Len(completedSets') = Len(completedSets) + 1 /\ Len(completedSets) \in Nat
    BY <1>1, <1>4
  <2>2. QED
    BY <1>2, <2>1 DEF EventsPlaced
<1>5. QED
  BY <1>3, <1>4 DEF Onward, SetsGrow

\* A set that has started goes on or is over.
LEMMA StartedGrow ==
  ASSUME Onward
  PROVE  /\ SetsStarted \in Nat /\ SetsStarted' \in Nat /\ SetsStarted <= SetsStarted'
         /\ Len(completedSets') = 0 => SetsStarted' <= 1
<1>1. /\ TypeOK /\ TypeOK' /\ SetsGrow /\ activeSet # None
      /\ Len(completedSets) \in Nat /\ Len(completedSets') \in Nat
      /\ Len(completedSets) <= Len(completedSets')
  BY SetsStay DEF Onward, IInv
<1>2. /\ SetsStarted = Len(completedSets) + IF ActiveSetStarted THEN 1 ELSE 0
      /\ SetsStarted' = Len(completedSets') + IF ActiveSetStarted' THEN 1 ELSE 0
  BY DEF SetsStarted
<1>3. CASE \E r \in SetResult : completedSets' = Append(completedSets, r)
  <2>1. Len(completedSets') = Len(completedSets) + 1
    BY <1>1, <1>3 DEF TypeOK
  <2>2. QED
    BY <1>1, <1>2, <2>1
<1>4. CASE UNCHANGED completedSets /\ activeSet' # None
  <2>1. ActiveSetStarted'
    BY <1>4 DEF Onward, SetStarts
  <2>2. QED
    BY <1>1, <1>2, <1>4, <2>1
<1>5. QED
  BY <1>1, <1>3, <1>4 DEF SetsGrow

\* The first set has the games of the whole path until it is over, and then its own.
LEMMA FirstSetGames ==
  ASSUME Onward, ~SetCompleted(1), SetsStarted = 1
  PROVE  IF SetCompleted(1)' THEN Sum(completedSets'[1].games) = PathGames'
         ELSE SetsStarted' = 1
<1>1. /\ TypeOK /\ TypeOK' /\ SetsGrow /\ completedSets \in Seq(SetResult)
      /\ Len(completedSets) \in Nat /\ Len(completedSets') \in Nat
      /\ DOMAIN completedSets = 1 .. Len(completedSets)
      /\ DOMAIN completedSets' = 1 .. Len(completedSets')
  BY SetsStay DEF Onward, IInv, TypeOK
<1>2. Len(completedSets) = 0 /\ completedSets = <<>>
  BY <1>1 DEF SetCompleted
<1>3. CASE ~SetCompleted(1)'
  <2>1. Len(completedSets') = 0
    BY <1>1, <1>3 DEF SetCompleted
  <2>2. QED
    BY <1>3, <2>1, StartedGrow
<1>4. CASE SetCompleted(1)'
  <2>1. completedSets' # completedSets
    BY <1>1, <1>2, <1>4 DEF SetCompleted
  <2>2. PICK r \in SetResult : /\ completedSets' = Append(completedSets, r)
                               /\ activeSet' = None \/ activeSet'.games = Level
    BY <1>1, <2>1 DEF SetsGrow
  <2>3. GamesOf(completedSets') = GamesOf(completedSets) + Sum(r.games)
    BY <1>1, <2>2, GamesOfAppend
  <2>4. GamesOf(completedSets) = 0
    BY <1>2, GamesOfNone
  <2>5. ActiveGames(0)' = 0 /\ ActiveGames(1)' = 0
    BY <2>2 DEF ActiveGames, Level, Players
  <2>6. TotalGames' = Sum(r.games)
    <3>1. Sum(r.games) \in Int
      BY DEF SetResult, Sum, Score, Players
    <3>2. QED
      BY <2>3, <2>4, <2>5, <3>1, TotalGamesAre
  <2>7. completedSets'[1] = r
    BY <1>1, <1>2, <2>2
  <2>8. QED
    BY <1>4, <2>6, <2>7, GamesGrow
<1>5. QED
  BY <1>3, <1>4

LEMMA MinStays ==
  ASSUME NEW S \in SUBSET Int, S # {}, NEW e \in Int, \A x \in S : x < e,
         NEW T, T = S \cup {e}
  PROVE  T # {} /\ Min(T) = Min(S)
<1>1. ASSUME NEW x \in S, \A y \in S : x <= y PROVE x \in T /\ \A y \in T : x <= y
  BY <1>1
<1>2. ASSUME NEW x \in T, \A y \in T : x <= y PROVE x \in S /\ \A y \in S : x <= y
  <2>1. PICK z \in S : z < e /\ z \in Int
    OBVIOUS
  <2>2. x <= z
    BY <1>2
  <2>3. x # e
    BY <2>1, <2>2
  <2>4. QED
    BY <1>2, <2>3
<1>3. (CHOOSE x \in S : \A y \in S : x <= y) = CHOOSE x \in T : \A y \in T : x <= y
  <2>1. \A x : (x \in S /\ \A y \in S : x <= y) <=> (x \in T /\ \A y \in T : x <= y)
    BY <1>1, <1>2, Zenon
  <2>2. QED
    BY <2>1, Zenon
<1>4. QED
  BY <1>3, Zenon DEF Min

\* The first break of the match, or of a set, stays the first.
LEMMA FirstBreakStays ==
  ASSUME Onward, NEW prop, BreakGames(prop) # {}
  PROVE  BreakGames(prop)' # {} /\ Min(BreakGames(prop))' = Min(BreakGames(prop))
<1>1. /\ TypeOK /\ breakEvents \in Seq(BreakEvent) /\ TotalGames \in Int
      /\ EventsOrdered(breakEvents, TotalGames) /\ EventsPlaced
      /\ activeSet \in SetState /\ Sum(activeSet.games) \in Int
  <2>1. TypeOK /\ EventsOrdered(breakEvents, TotalGames) /\ EventsPlaced /\ activeSet # None
    BY DEF Onward, IInv, PathInv
  <2>2. breakEvents \in Seq(BreakEvent) /\ activeSet \in SetState
    BY <2>1 DEF EventsOrdered, TypeOK
  <2>3. Sum(activeSet.games) \in Int
    BY <2>2 DEF SetState, Score, Sum, Players
  <2>4. QED
    BY <2>1, <2>2, <2>3, GamesAreInt
<1>2. PICK n \in Nat : n = Len(breakEvents)
  BY <1>1
<1>3. \A i \in 1 .. n : /\ breakEvents[i].matchGameNumber \in Int
                        /\ breakEvents[i].gameNumber \in Int
                        /\ breakEvents[i].setNumber \in Int
  <2>1. \A i \in 1 .. n : breakEvents[i] \in BreakEvent
    BY <1>1, <1>2
  <2>2. \A b \in BreakEvent : /\ b.matchGameNumber \in Int /\ b.gameNumber \in Int
                              /\ b.setNumber \in Int
    BY DEF BreakEvent
  <2>3. QED
    BY <2>1, <2>2
<1>4. PICK S : S = BreakGames(prop)
  OBVIOUS
<1>5. S # {} /\ S \in SUBSET Int
  <2>1. DOMAIN breakEvents = 1 .. n
    BY <1>1, <1>2
  <2>2. CASE prop.scope = "match"
    BY <1>3, <1>4, <2>1, <2>2 DEF BreakGames
  <2>3. CASE prop.scope # "match"
    BY <1>3, <1>4, <2>1, <2>3 DEF BreakGames
  <2>4. QED
    BY <2>2, <2>3
<1>6. CASE breakEvents' = breakEvents
  BY <1>6 DEF BreakGames
<1>7. CASE \E b : NewEvent(b) /\ breakEvents' = Append(breakEvents, b)
  <2>1. PICK b \in BreakEvent : NewEvent(b) /\ breakEvents' = Append(breakEvents, b)
    BY <1>7 DEF NewEvent
  <2>2. PICK events : events = breakEvents'
    OBVIOUS
  <2>3. /\ DOMAIN events = 1 .. n + 1 /\ DOMAIN breakEvents = 1 .. n
        /\ events[n + 1] = b /\ \A i \in 1 .. n : events[i] = breakEvents[i]
    BY <1>1, <1>2, <2>1, <2>2
  <2>4. b.matchGameNumber \in Int /\ b.gameNumber \in Int
    BY DEF BreakEvent
  <2>5. PICK T : T = BreakGames(prop)'
    OBVIOUS
  <2>6. CASE prop.scope = "match"
    <3>1. T = {events[i].matchGameNumber : i \in 1 .. n + 1}
      BY <2>2, <2>3, <2>5, <2>6 DEF BreakGames
    <3>2. S = {breakEvents[i].matchGameNumber : i \in 1 .. n}
      BY <1>4, <2>3, <2>6 DEF BreakGames
    <3>3. T = S \cup {b.matchGameNumber}
      BY <2>3, <3>1, <3>2
    <3>4. \A x \in S : x < b.matchGameNumber
      BY <1>1, <1>2, <1>3, <2>1, <3>2 DEF EventsOrdered, NewEvent
    <3>5. QED
      BY <1>4, <1>5, <2>4, <2>5, <3>3, <3>4, MinStays
  <2>7. CASE prop.scope # "match"
    <3>1. T = {events[i].gameNumber : i \in {j \in 1 .. n + 1 : events[j].setNumber = prop.setNo}}
      BY <2>2, <2>3, <2>5, <2>7 DEF BreakGames
    <3>2. S = {breakEvents[i].gameNumber :
                 i \in {j \in 1 .. n : breakEvents[j].setNumber = prop.setNo}}
      BY <1>4, <2>3, <2>7 DEF BreakGames
    <3>3. CASE b.setNumber # prop.setNo
      <4>1. T = S
        BY <2>3, <3>1, <3>2, <3>3
      <4>2. QED
        BY <1>4, <1>5, <2>5, <4>1
    <3>4. CASE b.setNumber = prop.setNo
      <4>1. T = S \cup {b.gameNumber}
        BY <2>3, <3>1, <3>2, <3>4
      <4>2. \A x \in S : x < b.gameNumber
        BY <1>1, <1>3, <2>1, <2>3, <3>2, <3>4 DEF EventsPlaced, NewEvent
      <4>3. QED
        BY <1>4, <1>5, <2>4, <2>5, <4>1, <4>2, MinStays
    <3>5. QED
      BY <3>3, <3>4
  <2>8. QED
    BY <2>6, <2>7
<1>8. QED
  BY <1>6, <1>7 DEF Onward, EventsGoOn

\* What is counted of one player, of both, and what is played.
LEMMA CountsOnward ==
  ASSUME Onward
  PROVE  /\ \A p \in Players : \A c \in Counters :
              totals[p][c] \in Nat /\ totals'[p][c] \in Nat /\ totals[p][c] <= totals'[p][c]
         /\ \A c \in Counters : Both(c) \in Nat /\ Both(c)' \in Nat /\ Both(c) <= Both(c)'
         /\ {"breaks_achieved", "aces", "double_faults"} \subseteq Counters
<1>1. /\ totals \in [Players -> [Counters -> Nat]] /\ totals' \in [Players -> [Counters -> Nat]]
      /\ CountsGrow
  BY DEF Onward, StatsInv
<1>2. \A p \in Players : \A c \in Counters :
        totals[p][c] \in Nat /\ totals'[p][c] \in Nat /\ totals[p][c] <= totals'[p][c]
  BY <1>1 DEF CountsGrow
<1>3. \A c \in Counters : Both(c) \in Nat /\ Both(c)' \in Nat /\ Both(c) <= Both(c)'
  BY <1>2 DEF Both, Players
<1>4. QED
  BY <1>2, <1>3 DEF Counters, GameCounters, ServeCounters

LEMMA StillExceeds ==
  ASSUME NEW x \in Int, NEW y \in Int, x <= y, NEW op \in {">=", ">"}, NEW k \in Int,
         Compare(x, op, k)
  PROVE  Compare(y, op, k)
<1>1. CASE op = ">="
  BY <1>1 DEF Compare
<1>2. CASE op = ">"
  BY <1>2 DEF Compare
<1>3. QED
  BY <1>1, <1>2

\* A count that has exceeded its threshold in a match that goes on.
LEMMA MeasureGrows ==
  ASSUME Onward, NEW prop, IsAtom(prop), prop.kind \in MonotoneCounts, ~ScopeCompleted(prop),
         Measure(prop) # None
  PROVE  /\ Measure(prop) \in Int /\ Measure(prop)' \in Int /\ Measure(prop) <= Measure(prop)'
         /\ Measure(prop)' # None
<1>1. \A x \in Int : x \in Nat => x # None
  BY SimulationAssumption
<1>2. TypeOK /\ SetsGrow /\ StatsInv /\ StatsInv' /\ CountsGrow
  BY DEF Onward, IInv
<1>3. prop.kind \in OfOnePlayer => prop.player \in Players
  BY DEF IsAtom
<1>4. CASE prop.kind = "TIEBREAK_COUNT"
  BY <1>1, <1>2, <1>4, TiebreaksGrow DEF Measure
<1>5. CASE prop.kind = "FIRST_SET_GAMES"
  <2>1. ~SetCompleted(1)
    BY <1>5 DEF ScopeCompleted
  <2>2. SetsStarted = 1 /\ Measure(prop) = PathGames
    BY <1>5, <2>1 DEF Measure
  <2>3. Measure(prop)' = PathGames'
    BY <1>5, <2>1, <2>2, FirstSetGames DEF Measure
  <2>4. QED
    BY <1>1, <2>2, <2>3, GamesGrow
<1>6. CASE prop.kind = "TOTAL_GAMES"
  BY <1>1, <1>6, GamesGrow DEF Measure
<1>7. CASE prop.kind = "PLAYER_GAMES"
  BY <1>1, <1>2, <1>3, <1>7, GamesWonGrow DEF Measure, OfOnePlayer
<1>8. CASE prop.kind = "BREAK_COUNT"
  BY <1>1, <1>3, <1>8, CountsOnward DEF Measure, OfOnePlayer
<1>9. CASE prop.kind = "TOTAL_BREAKS"
  BY <1>1, <1>9, CountsOnward DEF Measure
<1>10. CASE prop.kind = "PLAYER_ACES"
  BY <1>1, <1>3, <1>10, CountsOnward DEF Measure, OfOnePlayer
<1>11. CASE prop.kind = "TOTAL_ACES"
  BY <1>1, <1>11, CountsOnward DEF Measure
<1>12. CASE prop.kind = "PLAYER_DF"
  BY <1>1, <1>3, <1>12, CountsOnward DEF Measure, OfOnePlayer
<1>13. CASE prop.kind = "TOTAL_DF"
  BY <1>1, <1>13, CountsOnward DEF Measure
<1>14. QED
  BY <1>4, <1>5, <1>6, <1>7, <1>8, <1>9, <1>10, <1>11, <1>12, <1>13 DEF MonotoneCounts

\* What has been reached is never lost again.
LEMMA ReachedStays ==
  ASSUME Onward, NEW prop, IsAtom(prop), Reached(prop), ~ScopeCompleted(prop)
  PROVE  Holds(prop)' /\ Reached(prop)'
<1>1. TypeOK /\ SetsGrow /\ Holds(prop) /\ (prop.kind \in OfOnePlayer => prop.player \in Players)
  BY DEF Onward, IInv, Reached, IsAtom
<1>2. Holds(prop)'
  <2>1. CASE prop.kind = "PLAYER_WINS_SET"
    BY <1>1, <2>1, SetsWonGrow DEF Holds, Counted, MonotoneCounts, OfOnePlayer
  <2>2. CASE prop.kind = "DECIDING_SET"
    BY <1>1, <2>2, StartedGrow, RulesAssumption DEF Holds, Counted, MonotoneCounts
  <2>3. CASE prop.kind = "SET_TIEBREAK"
    BY <1>1, <2>3, TiebreaksGrow DEF Holds, Counted, MonotoneCounts
  <2>4. CASE prop.kind = "ANY_TIEBREAK"
    BY <1>1, <2>4, TiebreaksGrow DEF Holds, Counted, MonotoneCounts
  <2>5. CASE prop.kind = "ANY_LOPSIDED_SET"
    <3>1. PICK i \in DOMAIN completedSets : IsLopsided(completedSets[i])
      BY <1>1, <2>5 DEF Holds, Counted, MonotoneCounts
    <3>2. i \in DOMAIN completedSets' /\ completedSets'[i] = completedSets[i]
      BY <1>1, SetsStay
    <3>3. IsLopsided(completedSets'[i])
      BY <3>1, <3>2
    <3>4. \E j \in DOMAIN completedSets' : IsLopsided(completedSets'[j])
      BY <3>2, <3>3
    <3>5. QED
      BY <2>5, <3>4 DEF Holds, Counted, MonotoneCounts, IsLopsided
  <2>6. CASE prop.kind = "BOTH_BREAK"
    BY <1>1, <2>6, CountsOnward DEF Holds, Counted, MonotoneCounts
  <2>7. CASE prop.kind \in MonotoneCounts
    <3>1. prop.op \in {">=", ">"} /\ prop.k \in Int
      BY <2>7 DEF IsAtom, Counted, Reached, MonotoneBooleans, MonotoneCounts
    <3>2. Measure(prop) # None /\ Compare(Measure(prop), prop.op, prop.k)
      BY <1>1, <2>7 DEF Holds, Counted, MonotoneCounts
    <3>3. PICK x \in Int : x = Measure(prop)
      BY <2>7, <3>2, MeasureGrows
    <3>4. PICK y \in Int : y = Measure(prop)' /\ x <= y /\ y # None
      BY <2>7, <3>2, <3>3, MeasureGrows
    <3>5. Compare(y, prop.op, prop.k)
      BY <3>1, <3>2, <3>3, <3>4, StillExceeds
    <3>6. Measure(prop)' # None /\ Compare(Measure(prop)', prop.op, prop.k)
      BY <3>4, <3>5
    <3>7. QED
      BY <2>7, <3>6 DEF Holds, Counted, MonotoneCounts, Compare
  <2>8. QED
    BY <2>1, <2>2, <2>3, <2>4, <2>5, <2>6, <2>7 DEF Reached, MonotoneBooleans
<1>3. QED
  BY <1>2 DEF Reached

\* A part of the match that is over settles as it would have then.
LEMMA ScopeStays ==
  ASSUME Onward, NEW prop, ScopeCompleted(prop)
  PROVE  /\ ScopeCompleted(prop)' /\ (Holds(prop)' <=> Holds(prop))
         /\ ~Undetermined(prop) /\ ~Undetermined(prop)'
<1>1. /\ TypeOK /\ SetsGrow /\ DOMAIN completedSets \subseteq DOMAIN completedSets'
      /\ \A i \in DOMAIN completedSets : completedSets'[i] = completedSets[i]
  BY SetsStay DEF Onward, IInv
<1>2. CASE prop.kind = "FIRST_SET_WIN"
  <2>1. SetCompleted(1) /\ SetCompleted(1)' /\ completedSets'[1] = completedSets[1]
    BY <1>1, <1>2 DEF ScopeCompleted, SetCompleted
  <2>2. Holds(prop)' <=> Holds(prop)
    BY <1>2, <2>1 DEF Holds, Counted, MonotoneCounts, SetWinner
  <2>3. QED
    BY <1>2, <2>1, <2>2 DEF ScopeCompleted, Undetermined
<1>3. CASE prop.kind = "FIRST_SET_GAMES"
  <2>1. SetCompleted(1) /\ SetCompleted(1)' /\ completedSets'[1] = completedSets[1]
    BY <1>1, <1>3 DEF ScopeCompleted, SetCompleted
  <2>2. Measure(prop)' = Measure(prop)
    BY <1>3, <2>1 DEF Measure, Sum
  <2>3. Holds(prop)' <=> Holds(prop)
    BY <1>3, <2>2 DEF Holds, Counted, MonotoneCounts, Compare
  <2>4. QED
    BY <1>3, <2>1, <2>3 DEF ScopeCompleted, Undetermined
<1>4. CASE prop.kind = "SET_SCORE"
  <2>1. /\ SetCompleted(prop.setNo) /\ SetCompleted(prop.setNo)'
        /\ completedSets'[prop.setNo] = completedSets[prop.setNo]
    BY <1>1, <1>4 DEF ScopeCompleted, SetCompleted
  <2>2. Holds(prop)' <=> Holds(prop)
    BY <1>4, <2>1 DEF Holds, Counted, MonotoneCounts
  <2>3. QED
    BY <1>4, <2>1, <2>2 DEF ScopeCompleted, Undetermined
<1>5. CASE prop.kind = "SET_TIEBREAK"
  <2>1. SetCompleted(prop.setNo) /\ SetCompleted(prop.setNo)'
    BY <1>1, <1>5 DEF ScopeCompleted, SetCompleted
  <2>2. prop.setNo \in TiebreakSets' <=> prop.setNo \in TiebreakSets
    BY <1>1, <2>1, TiebreaksGrow DEF SetCompleted
  <2>3. Holds(prop)' <=> Holds(prop)
    BY <1>5, <2>2 DEF Holds, Counted, MonotoneCounts
  <2>4. QED
    BY <1>5, <2>1, <2>3 DEF ScopeCompleted, Undetermined
<1>6. CASE prop.kind = "FIRST_BREAK_TIMING"
  <2>1. Measure(prop) # None /\ BreakGames(prop) # {}
    BY <1>6 DEF ScopeCompleted, Measure
  <2>2. BreakGames(prop)' # {} /\ Min(BreakGames(prop))' = Min(BreakGames(prop))
    BY <2>1, FirstBreakStays
  <2>3. Measure(prop) = Min(BreakGames(prop)) /\ Measure(prop)' = Min(BreakGames(prop))'
    BY <1>6, <2>1, <2>2 DEF Measure
  <2>4. Measure(prop)' = Measure(prop)
    BY <2>2, <2>3
  <2>5. Holds(prop)' <=> Holds(prop)
    BY <1>6, <2>4 DEF Holds, Counted, MonotoneCounts, Compare
  <2>6. QED
    BY <1>6, <2>1, <2>4, <2>5 DEF ScopeCompleted, Undetermined
<1>7. QED
  BY <1>2, <1>3, <1>4, <1>5, <1>6 DEF ScopeCompleted

LEMMA AtomIsFinal ==
  ASSUME Onward, NEW prop, IsAtom(prop), prop.kind # "MATCH_WIN",
         SettleAtom(prop) \in Settlements
  PROVE  SettleAtom(prop)' = SettleAtom(prop)
<1>1. ~IsComplete
  BY DEF Onward, IInv, MatchStopsAtClinch
<1>2. CASE ScopeCompleted(prop)
  <2>1. /\ ScopeCompleted(prop)' /\ (Holds(prop)' <=> Holds(prop))
        /\ ~Undetermined(prop) /\ ~Undetermined(prop)'
    BY <1>2, ScopeStays
  <2>2. FromTruth(prop)' = FromTruth(prop)
    BY <2>1 DEF FromTruth
  <2>3. SettleAtom(prop) = FromTruth(prop) /\ SettleAtom(prop)' = FromTruth(prop)'
    BY <1>2, <2>1 DEF SettleAtom
  <2>4. QED
    BY <2>2, <2>3
<1>3. CASE ~ScopeCompleted(prop)
  <2>1. Reached(prop) /\ SettleAtom(prop) = "yes"
    BY <1>1, <1>3 DEF SettleAtom, Settlements
  <2>2. Holds(prop)' /\ Reached(prop)'
    BY <1>3, <2>1, ReachedStays
  <2>3. ~Undetermined(prop)'
    BY <2>1 DEF Reached, MonotoneBooleans, MonotoneCounts, Undetermined
  <2>4. FromTruth(prop)' = "yes"
    BY <2>2, <2>3 DEF FromTruth
  <2>5. QED
    BY <2>1, <2>2, <2>4 DEF SettleAtom
<1>4. QED
  BY <1>2, <1>3

\* A composite stays as it is settled when what settles it does.
LEMMA CompositeFollows ==
  ASSUME NEW S, NEW T, \A x \in S \cap Settlements : x \in T,
         S \subseteq Settlements => T \subseteq S
  PROVE  /\ Conjunction(S) \in Settlements => Conjunction(T) = Conjunction(S)
         /\ Disjunction(S) \in Settlements => Disjunction(T) = Disjunction(S)
<1>1. ASSUME Conjunction(S) \in Settlements PROVE Conjunction(T) = Conjunction(S)
  <2>1. CASE "no" \in S
    BY <2>1 DEF Conjunction, Settlements
  <2>2. CASE "no" \notin S
    <3>1. S \subseteq {"yes"}
      BY <1>1, <2>2 DEF Conjunction, Settlements, Unsettled
    <3>2. T \subseteq {"yes"}
      BY <3>1 DEF Settlements
    <3>3. QED
      BY <2>2, <3>1, <3>2 DEF Conjunction
  <2>3. QED
    BY <2>1, <2>2
<1>2. ASSUME Disjunction(S) \in Settlements PROVE Disjunction(T) = Disjunction(S)
  <2>1. CASE "yes" \in S
    BY <2>1 DEF Disjunction, Settlements
  <2>2. CASE "yes" \notin S
    <3>1. S \subseteq {"no"}
      BY <1>2, <2>2 DEF Disjunction, Settlements, Unsettled
    <3>2. T \subseteq {"no"}
      BY <3>1 DEF Settlements
    <3>3. QED
      BY <2>2, <3>1, <3>2 DEF Disjunction
  <2>3. QED
    BY <2>1, <2>2
<1>3. QED
  BY <1>1, <1>2

LEMMA SettlementStep ==
  ASSUME Onward, NEW prop \in Props, ~MentionsWinner(prop), Settle(prop) \in Settlements
  PROVE  Settle(prop)' = Settle(prop)
<1>1. CASE prop.kind \notin Composites
  <2>1. IsAtom(prop) /\ prop.kind # "MATCH_WIN"
    BY <1>1, PropsAssumption DEF MentionsWinner
  <2>2. Settle(prop) = SettleAtom(prop) /\ Settle(prop)' = SettleAtom(prop)'
    BY <1>1 DEF Settle, Composites
  <2>3. QED
    BY <2>1, <2>2, AtomIsFinal
<1>2. CASE prop.kind \in Composites
  <2>1. \A e \in prop.exprs : IsAtom(e) /\ e.kind # "MATCH_WIN"
    BY <1>2, PropsAssumption DEF MentionsWinner
  <2>2. PICK S : S = {SettleAtom(e) : e \in prop.exprs}
    OBVIOUS
  <2>3. PICK T : T = {SettleAtom(e)' : e \in prop.exprs}
    OBVIOUS
  <2>4. \A e \in prop.exprs : SettleAtom(e) \in Settlements => SettleAtom(e)' = SettleAtom(e)
    BY <2>1, AtomIsFinal
  <2>5. \A x \in S \cap Settlements : x \in T
    BY <2>2, <2>3, <2>4
  <2>6. S \subseteq Settlements => T \subseteq S
    BY <2>2, <2>3, <2>4
  <2>7. CASE prop.kind = "AND"
    <3>1. Settle(prop) = Conjunction(S) /\ Settle(prop)' = Conjunction(T)
      BY <2>2, <2>3, <2>7 DEF Settle
    <3>2. QED
      BY <2>5, <2>6, <3>1, CompositeFollows
  <2>8. CASE prop.kind = "OR"
    <3>1. Settle(prop) = Disjunction(S) /\ Settle(prop)' = Disjunction(T)
      BY <2>2, <2>3, <2>8 DEF Settle
    <3>2. QED
      BY <2>5, <2>6, <3>1, CompositeFollows
  <2>9. QED
    BY <1>2, <2>7, <2>8 DEF Composites
<1>3. QED
  BY <1>1, <1>2

PlayedInv == IInv /\ StatsInv /\ PathInv /\ EventsPlaced

LEMMA StepIsOnward ==
  ASSUME PlayedInv, SimulationNext, IInv', StatsInv', PathInv'
  PROVE  Onward
<1>1. activeSet # None /\ SetsGrow /\ SetStarts /\ EventsGoOn /\ CountsGrow
  BY PointGoesOn, SweepGoesOn DEF SimulationNext, PlayedInv
<1>2. QED
  BY <1>1 DEF Onward, PlayedInv

LEMMA PlayedStep == PlayedInv /\ [SimulationNext]_simulationVars => PlayedInv'
<1>1. SUFFICES ASSUME PlayedInv, [SimulationNext]_simulationVars PROVE PlayedInv'
  OBVIOUS
<1>2. IInv' /\ StatsInv' /\ PathInv'
  BY <1>1, SimulationKeepsScore, StatsStep, PathStep DEF PlayedInv
<1>3. CASE SimulationNext
  BY <1>1, <1>2, <1>3, StepIsOnward, PlacedStep DEF PlayedInv
<1>4. CASE UNCHANGED simulationVars
  BY <1>1, <1>2, <1>4 DEF PlayedInv, EventsPlaced, simulationVars, scoringVars, Sum
<1>5. QED
  BY <1>1, <1>3, <1>4

\* Where a retired path settles Yes or No, so does every path that goes on from
\* there, with the same answer: whatever the format, whatever is still played,
\* and whether the tiebreaks are played or skipped.  A path that is settled early
\* is never worth something else than the match it was cut from.
THEOREM SettlementsAreFinal == SimulationSpec => SettlementIsFinal
<1>1. SimulationInit => PlayedInv
  BY InitIInv, InitStats, InitPath DEF SimulationInit, PlayedInv, EventsPlaced
<1>2. PlayedInv /\ PlayedInv' /\ [SimulationNext]_simulationVars =>
        [\A prop \in {q \in Props : ~MentionsWinner(q)} :
           Settle(prop) \in Settlements => Settle(prop)' = Settle(prop)]_simulationVars
  <2>1. ASSUME PlayedInv, PlayedInv', SimulationNext,
               NEW prop \in {q \in Props : ~MentionsWinner(q)}, Settle(prop) \in Settlements
        PROVE  Settle(prop)' = Settle(prop)
    <3>1. Onward
      BY <2>1, StepIsOnward DEF PlayedInv
    <3>2. QED
      BY <2>1, <3>1, SettlementStep
  <2>2. QED
    BY <2>1
<1>3. QED
  BY <1>1, <1>2, PlayedStep, PTL DEF SimulationSpec, SettlementIsFinal
-----------------------------------------------------------------------------
\* A record settles as its path ----------------------------------------------

-----------------------------------------------------------------------------
\* A record settles as its path ----------------------------------------------

\* The games of one player, as GamesOf those of both.
PlayerGamesOf(sets, p) == MapThenSumSet(LAMBDA i : sets[i].games[p], DOMAIN sets)

LEMMA PlayerGamesOfSums ==
  ASSUME NEW sets, IsFiniteSet(DOMAIN sets), NEW p,
         NEW g, g = [i \in DOMAIN sets |-> sets[i].games[p]]
  PROVE  PlayerGamesOf(sets, p) = SumOf(g, DOMAIN sets)
<1>1. PICK S : S = DOMAIN sets
  OBVIOUS
<1>2. PICK jt : SumsOver(jt, g, S) /\ SumOf(g, S) = jt[S]
  BY <1>1, SumOfSums
<1>3. ASSUME NEW s \in SUBSET S, s # {}
      PROVE  g[OneOf(s)] = sets[OneOf(s)].games[p]
  <2>1. OneOf(s) \in S
    BY <1>3 DEF OneOf
  <2>2. QED
    BY <1>1, <2>1
<1> DEFINE Follows(f) == f = [s \in SUBSET S |->
                                IF s = {} THEN 0
                                ELSE sets[OneOf(s)].games[p] + f[s \ {OneOf(s)}]]
<1>4. ASSUME NEW f PROVE Follows(f) <=> SumsOver(f, g, S)
  <2>1. [s \in SUBSET S |-> IF s = {} THEN 0
                            ELSE sets[OneOf(s)].games[p] + f[s \ {OneOf(s)}]]
        = [s \in SUBSET S |-> IF s = {} THEN 0 ELSE g[OneOf(s)] + f[s \ {OneOf(s)}]]
    BY <1>3
  <2>2. QED
    BY <2>1 DEF SumsOver
<1>5. PICK it : it = CHOOSE f : Follows(f)
  OBVIOUS
<1>6. Follows(it)
  BY <1>2, <1>4, <1>5
<1>7. PlayerGamesOf(sets, p) = it[S]
  BY <1>1, <1>5 DEF PlayerGamesOf, MapThenSumSet, MapThenFoldSet, OneOf
<1>8. SumsOver(it, g, S)
  BY <1>4, <1>6
<1> HIDE DEF Follows
<1>9. it = jt
  BY <1>1, <1>2, <1>8, SumsAgree
<1>10. QED
  BY <1>1, <1>2, <1>7, <1>9

LEMMA PlayerGamesOfAppend ==
  ASSUME NEW sets \in Seq(SetResult), NEW r \in SetResult, NEW p \in Players
  PROVE  /\ PlayerGamesOf(sets, p) \in Int
         /\ PlayerGamesOf(Append(sets, r), p) = PlayerGamesOf(sets, p) + r.games[p]
<1>1. PICK n \in Nat : n = Len(sets)
  OBVIOUS
<1>2. PICK longer : longer = Append(sets, r)
  OBVIOUS
<1>3. /\ DOMAIN sets = 1 .. n /\ DOMAIN longer = 1 .. n + 1
      /\ longer[n + 1] = r /\ \A i \in 1 .. n : longer[i] = sets[i] /\ sets[i] \in SetResult
  BY <1>1, <1>2
<1>4. PICK g : g = [i \in 1 .. n |-> sets[i].games[p]]
  OBVIOUS
<1>5. PICK h : h = [i \in 1 .. n + 1 |-> longer[i].games[p]]
  OBVIOUS
<1>6. \A i \in 1 .. n + 1 : longer[i] \in SetResult
  BY <1>3
<1>7. \A s \in SetResult : s.games[p] \in Int
  BY DEF SetResult, Score
<1>8. /\ \A i \in 1 .. n : g[i] \in Int
      /\ \A i \in 1 .. n + 1 : h[i] \in Int
      /\ \A i \in 1 .. n : h[i] = g[i]
      /\ h[n + 1] = r.games[p]
  BY <1>3, <1>4, <1>5, <1>6, <1>7
<1>9. IsFiniteSet(1 .. n) /\ IsFiniteSet(1 .. n + 1)
  BY FS_Interval
<1>10. PlayerGamesOf(sets, p) = SumOf(g, 1 .. n)
  <2>1. IsFiniteSet(DOMAIN sets) /\ g = [i \in DOMAIN sets |-> sets[i].games[p]]
    BY <1>3, <1>4, <1>9
  <2>2. QED
    BY <1>3, <2>1, PlayerGamesOfSums
<1>11. PlayerGamesOf(longer, p) = SumOf(h, 1 .. n + 1)
  <2>1. IsFiniteSet(DOMAIN longer) /\ h = [i \in DOMAIN longer |-> longer[i].games[p]]
    BY <1>3, <1>5, <1>9
  <2>2. QED
    BY <1>3, <2>1, PlayerGamesOfSums
<1>12. SumOf(g, 1 .. n) \in Int /\ SumOf(h, 1 .. n + 1) = SumOf(g, 1 .. n) + h[n + 1]
  BY <1>8, SumOfAppend
<1>13. QED
  BY <1>2, <1>8, <1>10, <1>11, <1>12

LEMMA TiebreaksByAppend ==
  ASSUME NEW sets \in Seq(SetResult), NEW r \in SetResult, NEW p
  PROVE  /\ Cardinality(TiebreaksBy(sets, p)) \in Nat
         /\ Cardinality(TiebreaksBy(Append(sets, r), p)) =
              IF r.tiebreak # None /\ SetWinner(r) = p
              THEN Cardinality(TiebreaksBy(sets, p)) + 1
              ELSE Cardinality(TiebreaksBy(sets, p))
<1>1. PICK n \in Nat : n = Len(sets)
  OBVIOUS
<1>2. PICK longer : longer = Append(sets, r)
  OBVIOUS
<1>3. /\ DOMAIN sets = 1 .. n /\ DOMAIN longer = 1 .. n + 1
      /\ longer[n + 1] = r /\ \A i \in 1 .. n : longer[i] = sets[i]
  BY <1>1, <1>2
<1>4. PICK S : S = TiebreaksBy(sets, p)
  OBVIOUS
<1>5. PICK T : T = TiebreaksBy(longer, p)
  OBVIOUS
<1>6. IsFiniteSet(S) /\ Cardinality(S) \in Nat /\ n + 1 \notin S
  <2>1. S \in SUBSET (1 .. n)
    BY <1>3, <1>4 DEF TiebreaksBy, TiebreaksOf
  <2>2. IsFiniteSet(1 .. n)
    BY FS_Interval
  <2>3. IsFiniteSet(S)
    BY <2>1, <2>2, FS_Subset
  <2>4. QED
    BY <2>1, <2>3, FS_CardinalityType
<1>7. CASE r.tiebreak # None /\ SetWinner(r) = p
  <2>1. T = S \cup {n + 1}
    BY <1>3, <1>4, <1>5, <1>7 DEF TiebreaksBy, TiebreaksOf
  <2>2. Cardinality(T) = Cardinality(S) + 1
    BY <1>6, <2>1, FS_AddElement
  <2>3. QED
    BY <1>2, <1>4, <1>5, <1>6, <1>7, <2>2
<1>8. CASE ~(r.tiebreak # None /\ SetWinner(r) = p)
  <2>1. T = S
    BY <1>3, <1>4, <1>5, <1>8 DEF TiebreaksBy, TiebreaksOf
  <2>2. QED
    BY <1>2, <1>4, <1>5, <1>6, <1>8, <2>1
<1>9. QED
  BY <1>7, <1>8

\* The games a player has won by the score.
PlayedGames(p) == PlayerGamesOf(completedSets, p) + ActiveGames(p)
OneIf(condition) == IF condition THEN 1 ELSE 0

LEMMA ActiveGamesOf ==
  ASSUME TypeOK, NEW p \in Players
  PROVE  /\ PlayerGamesOf(completedSets, p) \in Int /\ ActiveGames(p) \in Nat
         /\ activeSet # None => ActiveGames(p) = activeSet.games[p]
         /\ activeSet = None => ActiveGames(p) = 0
<1>1. PICK r \in SetResult : r = [setNumber |-> 1, firstServer |-> 0, games |-> Level,
                                  tiebreak |-> None]
  BY PlayersFacts DEF SetResult, Players
<1>2. completedSets \in Seq(SetResult)
  BY DEF TypeOK
<1>3. PlayerGamesOf(completedSets, p) \in Int
  BY <1>1, <1>2, PlayerGamesOfAppend
<1>4. activeSet # None => activeSet.games[p] \in Nat
  BY DEF TypeOK, SetState, Score
<1>5. QED
  BY <1>3, <1>4 DEF ActiveGames

\* What the end of a set adds to the games and tiebreaks of each player.
LEMMA FinishedPlayerGames ==
  ASSUME TypeOK, activeSet # None, NEW r \in SetResult, FinishSet(r), NEW w \in Players,
         r.games = Increment(activeSet.games, w), NEW p \in Players
  PROVE  /\ PlayedGames(p)' = PlayedGames(p) + OneIf(p = w)
         /\ Cardinality(TiebreaksBy(completedSets', p)) =
              Cardinality(TiebreaksBy(completedSets, p))
                + OneIf(r.tiebreak # None /\ SetWinner(r) = p)
<1>1. completedSets \in Seq(SetResult) /\ completedSets' = Append(completedSets, r)
  BY DEF TypeOK, FinishSet
<1>2. activeSet.games \in Score
  BY DEF TypeOK, SetState
<1>3. r.games[p] = activeSet.games[p] + OneIf(p = w) /\ activeSet.games[p] \in Nat
  BY <1>2 DEF Increment, Score, Players, OneIf
<1>4. PlayerGamesOf(completedSets', p) = PlayerGamesOf(completedSets, p) + r.games[p]
  BY <1>1, PlayerGamesOfAppend
<1>5. ActiveGames(p)' = 0
  BY DEF FinishSet, ActiveGames, NewSet, Level, Players
<1>6. ActiveGames(p) = activeSet.games[p] /\ PlayerGamesOf(completedSets, p) \in Int
  BY ActiveGamesOf
<1>7. OneIf(p = w) \in Nat
  BY DEF OneIf
<1>8. PlayedGames(p)' = PlayedGames(p) + OneIf(p = w)
  BY <1>3, <1>4, <1>5, <1>6, <1>7 DEF PlayedGames
<1>9. QED
  BY <1>1, <1>8, TiebreaksByAppend DEF OneIf

LEMMA SamePlayerGames ==
  ASSUME TypeOK, TypeOK', activeSet # None, activeSet' # None, UNCHANGED completedSets,
         NEW d \in Nat, NEW p \in Players, activeSet'.games[p] = activeSet.games[p] + d
  PROVE  /\ PlayedGames(p)' = PlayedGames(p) + d
         /\ Cardinality(TiebreaksBy(completedSets', p)) =
              Cardinality(TiebreaksBy(completedSets, p))
<1>1. PlayerGamesOf(completedSets', p) = PlayerGamesOf(completedSets, p)
  OBVIOUS
<1>2. /\ ActiveGames(p) = activeSet.games[p] /\ PlayerGamesOf(completedSets, p) \in Int
      /\ activeSet.games[p] \in Nat
  BY ActiveGamesOf
<1>3. ActiveGames(p)' = activeSet'.games[p]
  BY DEF ActiveGames
<1>4. QED
  BY <1>1, <1>2, <1>3 DEF PlayedGames

\* The set that a tiebreak ends is won by who wins the tiebreak.
LEMMA TiebreakSetWinner ==
  ASSUME TypeOK, ActiveSetAccepted, activeSet # None, InTiebreak, NEW w \in Players,
         NEW r, r.games = Increment(activeSet.games, w)
  PROVE  SetWinner(r) = w
<1>1. activeSet.games = [p \in Players |-> SetGames] /\ activeSet.games \in Score
  BY DEF ActiveSetAccepted, TypeOK, SetState
<1>2. r.games[w] = SetGames + 1 /\ r.games[Other(w)] = SetGames
  BY <1>1 DEF Increment, Players, Other
<1>3. QED
  BY <1>2, RulesAssumption DEF SetWinner, Players, Other

LEMMA GameWinner ==
  ASSUME TypeOK, ActiveSetAccepted, activeSet # None, NEW w \in Players, GameWon(w)
  PROVE  TerminalWinner(NextGamePoints(w), GamePoints) = w
<1>1. ~InTiebreak /\ IsTerminal(NextGamePoints(w), GamePoints)
  BY DEF GameWon
<1>2. ~IsTerminal(activeSet.gamePoints, GamePoints) /\ GamePoints \in Nat
  BY <1>1, RulesAssumption DEF ActiveSetAccepted
<1>3. activeSet.gamePoints \in Score
  BY DEF TypeOK, SetState
<1>4. QED
  BY <1>1, <1>2, <1>3, DecidingPoint DEF NextGamePoints

\* A point that ends a game or a tiebreak gives its winner a game, and a
\* tiebreak if it ended one.
LEMMA PointPlayerGames ==
  ASSUME IInv, IInv', NEW w \in Players, AwardPoint(w), NEW p \in Players
  PROVE  /\ PlayedGames(p)' = PlayedGames(p) + OneIf(p = w /\ GameOver(w))
         /\ Cardinality(TiebreaksBy(completedSets', p)) =
              Cardinality(TiebreaksBy(completedSets, p)) + OneIf(p = w /\ TiebreakWon(w))
<1>1. /\ TypeOK /\ TypeOK' /\ ActiveSetAccepted /\ activeSet # None
      /\ activeSet \in SetState /\ activeSet.games \in Score /\ activeSet.gamePoints \in Score
      /\ activeSet.games[p] \in Nat
  BY PointTypes DEF IInv, SetScoresLegal, AwardPoint, Score
<1>2. ~(GameWon(w) /\ TiebreakWon(w))
  BY DEF GameWon, TiebreakWon
<1>3. Cardinality(TiebreaksBy(completedSets, p)) \in Nat
  <2>1. PICK r \in SetResult : r = [setNumber |-> 1, firstServer |-> 0, games |-> Level,
                                    tiebreak |-> None]
    BY PlayersFacts DEF SetResult, Players
  <2>2. completedSets \in Seq(SetResult)
    BY <1>1 DEF TypeOK
  <2>3. QED
    BY <2>1, <2>2, TiebreaksByAppend
<1>4. PlayedGames(p) \in Int
  BY <1>1, ActiveGamesOf DEF PlayedGames
<1>5. CASE WinTiebreak(w)
  <2>1. PICK r : /\ IsResult(r) /\ FinishSet(r)
                 /\ r.tiebreak # None /\ r.games = Increment(activeSet.games, w)
    BY <1>1, <1>5, TiebreakDecidesSet
  <2>2. r \in SetResult
    BY <2>1 DEF IsResult
  <2>3. TiebreakWon(w) /\ GameOver(w) /\ InTiebreak
    BY <1>5 DEF WinTiebreak, GameOver, TiebreakWon
  <2>4. SetWinner(r) = w
    BY <1>1, <2>1, <2>3, TiebreakSetWinner
  <2>5. QED
    BY <1>1, <2>1, <2>2, <2>3, <2>4, FinishedPlayerGames DEF OneIf
<1>6. CASE WinSet(w)
  <2>1. PICK r : /\ IsResult(r) /\ FinishSet(r)
                 /\ r.tiebreak = None /\ r.games = Increment(activeSet.games, w)
    BY <1>1, <1>6, GameDecidesSet
  <2>2. r \in SetResult
    BY <2>1 DEF IsResult
  <2>3. GameWon(w) /\ GameOver(w) /\ ~TiebreakWon(w)
    BY <1>2, <1>6 DEF WinSet, GameOver
  <2>4. QED
    BY <1>1, <1>3, <2>1, <2>2, <2>3, FinishedPlayerGames DEF OneIf
<1>7. CASE ScoreTiebreakPoint(w) \/ ScoreGamePoint(w)
  <2>1. /\ UNCHANGED completedSets /\ activeSet' # None
        /\ ~GameWon(w) /\ ~TiebreakWon(w)
    BY <1>1, <1>7, SetGoesOn, NoneAssumption
       DEF ScoreTiebreakPoint, ScoreGamePoint, GameWon, TiebreakWon
  <2>2. activeSet'.games = activeSet.games
    <3>1. CASE ScoreTiebreakPoint(w)
      <4>1. PICK tb : activeSet' = [activeSet EXCEPT !.tiebreak = tb]
        <5>1. activeSet' = [activeSet EXCEPT !.tiebreak =
                              [activeSet.tiebreak EXCEPT !.points = NextTiebreakPoints(w)]]
          BY <3>1 DEF ScoreTiebreakPoint
        <5>2. QED
          BY <5>1
      <4>2. QED
        BY <1>1, <4>1 DEF SetState
    <3>2. CASE ScoreGamePoint(w)
      BY <1>1, <3>2 DEF ScoreGamePoint, SetState
    <3>3. QED
      BY <1>7, <3>1, <3>2
  <2>3. activeSet'.games[p] = activeSet.games[p] + 0
    BY <1>1, <2>2
  <2>4. PlayedGames(p)' = PlayedGames(p) + 0
        /\ Cardinality(TiebreaksBy(completedSets', p)) = Cardinality(TiebreaksBy(completedSets, p))
    BY <1>1, <2>1, <2>3, SamePlayerGames
  <2>5. QED
    BY <1>3, <1>4, <2>1, <2>4 DEF GameOver, OneIf
<1>8. CASE WinGame(w)
  <2>1. /\ UNCHANGED completedSets /\ activeSet' # None
        /\ GameWon(w) /\ ~TiebreakWon(w)
    BY <1>1, <1>2, <1>8, SetGoesOn, NoneAssumption DEF WinGame
  <2>2. activeSet'.games = GamesAfter(w)
    <3>1. PICK tb : activeSet' = [activeSet EXCEPT !.games = GamesAfter(w),
                                                   !.gamePoints = Level, !.tiebreak = tb]
      BY <1>8 DEF WinGame
    <3>2. QED
      BY <1>1, <3>1 DEF SetState
  <2>3. TerminalWinner(NextGamePoints(w), GamePoints) = w
    BY <1>1, <2>1, GameWinner
  <2>4. activeSet'.games = Increment(activeSet.games, w)
    BY <2>2, <2>3 DEF GamesAfter
  <2>5. OneIf(p = w) \in Nat /\ activeSet'.games[p] = activeSet.games[p] + OneIf(p = w)
    BY <1>1, <2>4 DEF Increment, Score, Players, OneIf
  <2>6. PlayedGames(p)' = PlayedGames(p) + OneIf(p = w)
        /\ Cardinality(TiebreaksBy(completedSets', p)) = Cardinality(TiebreaksBy(completedSets, p))
    BY <1>1, <2>1, <2>5, SamePlayerGames
  <2>7. QED
    BY <1>3, <2>1, <2>6 DEF GameOver, OneIf
<1>9. QED
  BY <1>5, <1>6, <1>7, <1>8 DEF AwardPoint

\* The games a player has won by the statistics, other than tiebreaks.
ServedGames(k) == k["service_games_held"] + k["breaks_achieved"]

LEMMA GamesWonParts ==
  ASSUME NEW p
  PROVE  /\ GamesWon(p) = ServedGames(totals[p]) + Cardinality(TiebreaksBy(completedSets, p))
         /\ GamesWon(p)' = ServedGames(totals'[p]) + Cardinality(TiebreaksBy(completedSets', p))
<1>1. GamesWon(p) = ServedGames(totals[p]) + Cardinality(TiebreaksBy(completedSets, p))
  BY DEF GamesWon, ServedGames, TiebreakSets, TiebreaksBy, TiebreaksOf
<1>2. GamesWon(p)' = ServedGames(totals'[p]) + Cardinality(TiebreaksBy(completedSets', p))
  BY DEF GamesWon, ServedGames, TiebreakSets, TiebreaksBy, TiebreaksOf
<1>3. QED
  BY <1>1, <1>2

LEMMA TiebreaksByNat ==
  ASSUME TypeOK, NEW p
  PROVE  Cardinality(TiebreaksBy(completedSets, p)) \in Nat
<1>1. PICK r \in SetResult : r = [setNumber |-> 1, firstServer |-> 0, games |-> Level,
                                  tiebreak |-> None]
  BY PlayersFacts DEF SetResult, Players
<1>2. completedSets \in Seq(SetResult)
  BY DEF TypeOK
<1>3. QED
  BY <1>1, <1>2, TiebreaksByAppend

\* A game is held by its server or broken by its receiver, whoever wins it.
LEMMA PointServedGames ==
  ASSUME IInv, StatsInv, NEW r \in PossibleResults, NEW w \in Players, w = PointWinner(r),
         AwardPoint(w), NEW p \in Players,
         totals' = [totals EXCEPT ![Server] = Bump(@, ServerCounters(r, w)),
                                  ![Receiver] = Bump(@, ReceiverCounters(w))]
  PROVE  /\ ServedGames(totals[p]) \in Nat
         /\ ServedGames(totals'[p]) = ServedGames(totals[p]) + OneIf(p = w /\ GameWon(w))
<1>1. r \in PointResults /\ activeSet # None /\ TypeOK /\ ActiveSetAccepted
  BY SimulationAssumption DEF AwardPoint, IInv, SetScoresLegal
<1>2. PICK s \in Players : s = Server
  BY PointCounts
<1>3. PICK v \in Players : v = Receiver
  BY PointCounts
<1>4. v # s
  BY <1>2, <1>3, PointCounts
<1>5. PICK k \in [Counters -> Nat] : k = totals[s]
  BY DEF StatsInv
<1>6. PICK l \in [Counters -> Nat] : l = totals[v]
  BY DEF StatsInv
<1>7. PICK m : m = Bump(k, ServerCounters(r, w))
  OBVIOUS
<1>8. PICK n : n = Bump(l, ReceiverCounters(w))
  OBVIOUS
<1>9. totals' = [totals EXCEPT ![s] = m, ![v] = n]
  BY <1>2, <1>3, <1>4, <1>5, <1>6, <1>7, <1>8
<1>10. totals'[s] = m /\ totals'[v] = n
  BY <1>4, <1>9 DEF StatsInv
<1>11. ServeSplit(k) /\ ServeSplit(l)
  BY <1>5, <1>6 DEF StatsInv
<1>12. /\ m["service_games_held"] = IF GameWon(w) /\ ~BreakOfServe(w)
            THEN k["service_games_held"] + 1 ELSE k["service_games_held"]
       /\ m["breaks_achieved"] = k["breaks_achieved"]
  BY <1>1, <1>7, <1>11, ServerBumps
<1>13. /\ n["breaks_achieved"] = IF BreakOfServe(w) THEN l["breaks_achieved"] + 1
                                                    ELSE l["breaks_achieved"]
       /\ n["service_games_held"] = l["service_games_held"]
  BY <1>8, <1>11, ReceiverBumps
<1>14. BreakOfServe(w) <=> GameWon(w) /\ w # s
  BY <1>1, <1>2, GameWinner DEF BreakOfServe
<1>15. /\ k["service_games_held"] \in Nat /\ k["breaks_achieved"] \in Nat
       /\ l["service_games_held"] \in Nat /\ l["breaks_achieved"] \in Nat
  BY DEF Counters, GameCounters
<1>16. Players = {s, v}
  BY <1>4 DEF Players
<1>17. /\ ServedGames(k) \in Nat /\ ServedGames(l) \in Nat
       /\ ServedGames(m) = ServedGames(k) + OneIf(s = w /\ GameWon(w))
       /\ ServedGames(n) = ServedGames(l) + OneIf(v = w /\ GameWon(w))
  BY <1>4, <1>12, <1>13, <1>14, <1>15, <1>16 DEF ServedGames, OneIf
<1>18. QED
  BY <1>5, <1>6, <1>10, <1>16, <1>17

\* The statistics give each player the games of the score, and a match with a
\* retirement is not complete.
GamesInv ==
  /\ \A p \in Players : GamesWon(p) = PlayedGames(p)
  /\ retired # None => ~IsComplete

LEMMA InitGames == SimulationInit => GamesInv
<1>1. SUFFICES ASSUME SimulationInit PROVE GamesInv
  OBVIOUS
<1>2. /\ completedSets = <<>> /\ activeSet = NewSet(1, initialServer) /\ retired = None
      /\ totals = [p \in Players |-> [c \in Counters |-> 0]]
  BY <1>1 DEF SimulationInit, Init
<1>3. ASSUME NEW p \in Players PROVE GamesWon(p) = PlayedGames(p)
  <2>1. ServedGames(totals[p]) = 0
    BY <1>2 DEF ServedGames, Counters, GameCounters
  <2>2. TiebreaksBy(completedSets, p) = {}
    BY <1>2 DEF TiebreaksBy, TiebreaksOf
  <2>3. Cardinality(TiebreaksBy(completedSets, p)) = 0
    BY <2>2, FS_EmptySet
  <2>4. GamesWon(p) = 0
    BY <2>1, <2>3, GamesWonParts
  <2>5. PICK S : S = DOMAIN completedSets
    OBVIOUS
  <2>6. S = {} /\ IsFiniteSet(S)
    BY <1>2, <2>5, FS_EmptySet
  <2>7. PICK g : g = [i \in S |-> completedSets[i].games[p]]
    OBVIOUS
  <2>8. PlayerGamesOf(completedSets, p) = SumOf(g, S)
    BY <2>5, <2>6, <2>7, PlayerGamesOfSums
  <2>9. SumOf(g, S) = 0
    BY <2>6, SumOfTake
  <2>10. ActiveGames(p) = 0
    BY <1>2 DEF ActiveGames, NewSet, Level
  <2>11. QED
    BY <2>4, <2>8, <2>9, <2>10 DEF PlayedGames
<1>4. QED
  BY <1>2, <1>3 DEF GamesInv

LEMMA RetiredStep ==
  ASSUME retired = None, NEW completed \in BOOLEAN, Boundary(completed)
  PROVE  retired' # None => ~IsComplete'
BY DEF Boundary

LEMMA PointKeepsGames ==
  ASSUME IInv, IInv', StatsInv, GamesInv, PlayPoint
  PROVE  GamesInv'
<1>1. PICK r \in PossibleResults :
        /\ AwardPoint(PointWinner(r)) /\ activeSet # None /\ retired = None
        /\ totals' = [totals EXCEPT
                        ![Server] = Bump(@, ServerCounters(r, PointWinner(r))),
                        ![Receiver] = Bump(@, ReceiverCounters(PointWinner(r)))]
        /\ Boundary(GameWon(PointWinner(r)) \/ TiebreakWon(PointWinner(r)))
  BY DEF PlayPoint
<1>2. PICK w \in Players : w = PointWinner(r)
  BY <1>1, PointOfSimulation
<1>3. /\ AwardPoint(w) /\ Boundary(GameOver(w))
      /\ totals' = [totals EXCEPT ![Server] = Bump(@, ServerCounters(r, w)),
                                  ![Receiver] = Bump(@, ReceiverCounters(w))]
  BY <1>1, <1>2 DEF GameOver
<1>4. retired' # None => ~IsComplete'
  <2>1. PICK completed \in BOOLEAN : completed = GameOver(w)
    BY DEF GameOver, GameWon, TiebreakWon
  <2>2. QED
    BY <1>1, <1>3, <2>1, RetiredStep
<1>5. ASSUME NEW p \in Players PROVE GamesWon(p)' = PlayedGames(p)'
  <2>1. /\ PlayedGames(p)' = PlayedGames(p) + OneIf(p = w /\ GameOver(w))
        /\ Cardinality(TiebreaksBy(completedSets', p)) =
             Cardinality(TiebreaksBy(completedSets, p)) + OneIf(p = w /\ TiebreakWon(w))
    BY <1>3, PointPlayerGames
  <2>2. /\ ServedGames(totals[p]) \in Nat
        /\ ServedGames(totals'[p]) = ServedGames(totals[p]) + OneIf(p = w /\ GameWon(w))
    BY <1>1, <1>2, <1>3, PointServedGames
  <2>3. Cardinality(TiebreaksBy(completedSets, p)) \in Nat
    BY TiebreaksByNat DEF IInv
  <2>4. ~(GameWon(w) /\ TiebreakWon(w))
    BY DEF GameWon, TiebreakWon
  <2>5. GamesWon(p) = PlayedGames(p)
    BY DEF GamesInv
  <2>6. QED
    BY <2>1, <2>2, <2>3, <2>4, <2>5, GamesWonParts DEF OneIf, GameOver
<1>6. QED
  BY <1>4, <1>5 DEF GamesInv

LEMMA SweepKeepsGames ==
  ASSUME IInv, StatsInv, GamesInv, NEW w \in Players, Accelerate(w)
  PROVE  GamesInv'
<1>1. PICK r : /\ IsResult(r) /\ FinishSet(r) /\ r.tiebreak # None /\ SetWinner(r) = w
               /\ r.games = Increment(activeSet.games, w)
  BY SweepFinishes
<1>2. /\ TypeOK /\ activeSet # None /\ retired = None /\ r \in SetResult /\ Boundary(TRUE)
  BY <1>1 DEF IInv, Accelerate, IsResult
<1>3. retired' # None => ~IsComplete'
  BY <1>2, RetiredStep
<1>4. PICK n0, n1 :
        totals' = [totals EXCEPT ![0] = AddAggregate(@, n0), ![1] = AddAggregate(@, n1)]
  <2>1. PICK cycles \in 0 .. MaxCycles : \E bothWin \in 0 .. cycles :
          \E n0 \in SweepSplits(0, w, cycles, bothWin),
             n1 \in SweepSplits(1, w, cycles, bothWin) :
            totals' = [totals EXCEPT ![0] = AddAggregate(@, n0), ![1] = AddAggregate(@, n1)]
    BY DEF Accelerate
  <2>2. QED
    BY <2>1
<1>5. totals \in [Players -> [Counters -> Nat]] /\ 0 \in Players /\ 1 \in Players
  BY DEF StatsInv, Players
<1>6. totals'[0] = AddAggregate(totals[0], n0) /\ totals'[1] = AddAggregate(totals[1], n1)
  BY <1>4, <1>5
<1>7. ASSUME NEW k \in [Counters -> Nat], NEW n
      PROVE  ServedGames(AddAggregate(k, n)) = ServedGames(k) /\ ServedGames(k) \in Nat
  <2>1. \A c \in {"service_games_held", "breaks_achieved"} :
          c \in Counters /\ c \notin ServeCounters /\ k[c] \in Nat
    BY DEF Counters, GameCounters, ServeCounters
  <2>2. \A c \in {"service_games_held", "breaks_achieved"} : AddAggregate(k, n)[c] = k[c]
    BY <2>1 DEF AddAggregate
  <2>3. QED
    BY <2>1, <2>2 DEF ServedGames
<1>8. \A p \in Players : ServedGames(totals'[p]) = ServedGames(totals[p])
                         /\ ServedGames(totals[p]) \in Nat
  BY <1>5, <1>6, <1>7 DEF Players
<1>9. ASSUME NEW p \in Players PROVE GamesWon(p)' = PlayedGames(p)'
  <2>1. /\ PlayedGames(p)' = PlayedGames(p) + OneIf(p = w)
        /\ Cardinality(TiebreaksBy(completedSets', p)) =
             Cardinality(TiebreaksBy(completedSets, p)) + OneIf(w = p)
    BY <1>1, <1>2, FinishedPlayerGames DEF OneIf
  <2>2. Cardinality(TiebreaksBy(completedSets, p)) \in Nat
    BY <1>2, TiebreaksByNat
  <2>3. GamesWon(p) = PlayedGames(p)
    BY DEF GamesInv
  <2>4. QED
    BY <1>8, <2>1, <2>2, <2>3, GamesWonParts DEF OneIf
<1>10. QED
  BY <1>3, <1>9 DEF GamesInv

LEMMA GamesStep ==
  IInv /\ IInv' /\ StatsInv /\ GamesInv /\ [SimulationNext]_simulationVars => GamesInv'
<1>1. ASSUME GamesInv, UNCHANGED simulationVars PROVE GamesInv'
  <2>1. UNCHANGED <<completedSets, activeSet, totals, retired>>
    BY <1>1 DEF simulationVars, scoringVars
  <2>2. \A p : PlayedGames(p)' = PlayedGames(p) /\ GamesWon(p)' = GamesWon(p)
    BY <2>1, GamesWonParts DEF PlayedGames, ActiveGames
  <2>3. IsComplete' = IsComplete
    BY <2>1 DEF IsComplete, SetsWon
  <2>4. QED
    BY <1>1, <2>1, <2>2, <2>3 DEF GamesInv
<1>2. QED
  BY <1>1, PointKeepsGames, SweepKeepsGames DEF SimulationNext

\* What the evaluator reads in a record and in a path is the same, but for the
\* statistics and the break events.
LEMMA RecordReadsPath ==
  ASSUME NEW c, NEW ev
  PROVE  /\ Record(c, ev)!Players = Players /\ \A p : Record(c, ev)!Other(p) = Other(p)
         /\ \A s : Record(c, ev)!Sum(s) = Sum(s)
         /\ \A r : Record(c, ev)!SetWinner(r) = SetWinner(r)
         /\ \A S : Record(c, ev)!Cardinality(S) = Cardinality(S)
         /\ \A S : Record(c, ev)!Min(S) = Min(S)
<1>1. Record(c, ev)!Players = Players /\ \A p : Record(c, ev)!Other(p) = Other(p)
  BY DEF Record!Players, Players, Record!Other, Other
<1>2. \A s : Record(c, ev)!Sum(s) = Sum(s)
  BY DEF Record!Sum, Sum
<1>3. \A r : Record(c, ev)!SetWinner(r) = SetWinner(r)
  BY DEF Record!SetWinner, SetWinner
<1>4. \A S : Record(c, ev)!Cardinality(S) = Cardinality(S)
  BY DEF Record!Cardinality, Cardinality
<1>5. \A S : Record(c, ev)!Min(S) = Min(S)
  BY DEF Record!Min, Min
<1>6. QED
  BY <1>1, <1>2, <1>3, <1>4, <1>5

LEMMA RecordReadsSets ==
  ASSUME NEW c, NEW ev
  PROVE  /\ \A p : Record(c, ev)!SetsWon(p) = SetsWon(p)
         /\ Record(c, ev)!IsComplete <=> IsComplete
         /\ Record(c, ev)!WinnerId = WinnerId
         /\ Record(c, ev)!SetsStarted = SetsStarted
         /\ Record(c, ev)!TiebreakSets = TiebreakSets
         /\ \A n : Record(c, ev)!SetCompleted(n) <=> SetCompleted(n)
         /\ \A r : Record(c, ev)!IsLopsided(r) <=> IsLopsided(r)
         /\ \A x, op, k : Record(c, ev)!Compare(x, op, k) = Compare(x, op, k)
<1>1. ASSUME NEW p PROVE Record(c, ev)!SetsWon(p) = SetsWon(p)
  <2>1. PICK n : n = Len(completedSets)
    OBVIOUS
  <2>2. PICK S : S = {i \in 1 .. n : SetWinner(completedSets[i]) = p}
    OBVIOUS
  <2>3. {i \in 1 .. n : Record(c, ev)!SetWinner(completedSets[i]) = p} = S
    BY <2>2, RecordReadsPath
  <2>4. Record(c, ev)!SetsWon(p) = Record(c, ev)!Cardinality(S)
    BY <2>1, <2>3, Zenon DEF Record!SetsWon, Record!WonAmong
  <2>5. SetsWon(p) = Cardinality(S)
    BY <2>1, <2>2 DEF SetsWon, WonAmong
  <2>6. QED
    BY <2>4, <2>5, RecordReadsPath
<1>2. Record(c, ev)!SetsToWin = SetsToWin
  BY DEF Record!SetsToWin, SetsToWin
<1>3. Record(c, ev)!IsComplete <=> IsComplete
  BY <1>1, <1>2, RecordReadsPath DEF Record!IsComplete, IsComplete
<1>4. Record(c, ev)!WinnerId = WinnerId
  <2>1. Record(c, ev)!MatchWinner = MatchWinner
    <3>1. \A p : p \in Players /\ Record(c, ev)!SetsWon(p) = Record(c, ev)!SetsToWin
                 <=> p \in Players /\ SetsWon(p) = SetsToWin
      BY <1>1, <1>2
    <3>2. (CHOOSE p \in Players : Record(c, ev)!SetsWon(p) = Record(c, ev)!SetsToWin)
          = CHOOSE p \in Players : SetsWon(p) = SetsToWin
      BY <1>1, <1>2
    <3>3. QED
      BY <3>2, RecordReadsPath DEF Record!MatchWinner, MatchWinner
  <2>2. QED
    BY <2>1, RecordReadsPath DEF Record!WinnerId, WinnerId
<1>5. Record(c, ev)!SetsStarted = SetsStarted
  BY RecordReadsPath DEF Record!SetsStarted, SetsStarted, Record!ActiveSetStarted,
     ActiveSetStarted, Record!InTiebreak, InTiebreak
<1>6. Record(c, ev)!TiebreakSets = TiebreakSets
  BY DEF Record!TiebreakSets, TiebreakSets
<1>7. \A n : Record(c, ev)!SetCompleted(n) <=> SetCompleted(n)
  BY DEF Record!SetCompleted, SetCompleted
<1>8. \A r : Record(c, ev)!IsLopsided(r) <=> IsLopsided(r)
  BY RecordReadsPath DEF Record!IsLopsided, IsLopsided
<1>9. \A x, op, k : Record(c, ev)!Compare(x, op, k) = Compare(x, op, k)
  BY DEF Record!Compare, Compare
<1>10. QED
  BY <1>1, <1>3, <1>4, <1>5, <1>6, <1>7, <1>8, <1>9

LEMMA RecordKinds ==
  ASSUME NEW c, NEW ev
  PROVE  /\ Record(c, ev)!MonotoneBooleans = MonotoneBooleans
         /\ Record(c, ev)!MonotoneCounts = MonotoneCounts
         /\ Record(c, ev)!Counted = Counted
BY DEF Record!MonotoneBooleans, MonotoneBooleans, Record!MonotoneCounts, MonotoneCounts,
   Record!Counted, Counted

\* The totals of a record: what is reported, and games that are those of the sets.
LEMMA RecordTotalsAre ==
  ASSUME IInv, StatsInv, NEW reported, NEW c, c = RecordTotals(OfficialOutcome(reported)),
         NEW p \in Players
  PROVE  /\ \A x \in {"aces", "double_faults", "breaks_achieved", "first_serves_in",
                      "first_serve_points_won"} : c[p][x] \in Int
         /\ "aces" \in reported => c[p]["aces"] = totals[p]["aces"]
         /\ "double faults" \in reported => c[p]["double_faults"] = totals[p]["double_faults"]
         /\ "breaks" \in reported => c[p]["breaks_achieved"] = totals[p]["breaks_achieved"]
         /\ "first serves" \in reported =>
              /\ c[p]["first_serves_in"] = totals[p]["first_serves_in"]
              /\ c[p]["first_serve_points_won"] = totals[p]["first_serve_points_won"]
         /\ c[p]["service_games_held"] =
              PlayerGamesOf(completedSets, p) - c[p]["breaks_achieved"]
                - Cardinality(TiebreaksBy(completedSets, p))
<1>1. PICK stats :
        stats = [games_won |-> SetGamesOf(p),
                 aces |-> Reported(p, "aces", "aces", reported),
                 double_faults |-> Reported(p, "double_faults", "double faults", reported),
                 breaks_achieved |-> Reported(p, "breaks_achieved", "breaks", reported),
                 first_serves_in |-> Reported(p, "first_serves_in", "first serves", reported),
                 first_serve_points_won |->
                   Reported(p, "first_serve_points_won", "first serves", reported)]
  OBVIOUS
<1>2. OfficialOutcome(reported).stats[p] = stats
  BY <1>1 DEF OfficialOutcome
<1>3. PICK tiebreaks : tiebreaks = Cardinality(TiebreaksBy(completedSets, p))
  OBVIOUS
<1>4. tiebreaks = Cardinality({i \in TiebreakSets : SetWinner(completedSets[i]) = p})
  BY <1>3 DEF TiebreakSets, TiebreaksBy, TiebreaksOf
<1>5. c[p] = [x \in Counters |->
                IF x \in DOMAIN stats THEN stats[x]
                ELSE IF x = "service_games_held"
                     THEN stats.games_won - stats.breaks_achieved - tiebreaks ELSE 0]
  BY <1>2, <1>4 DEF RecordTotals
<1>6. DOMAIN stats = {"games_won", "aces", "double_faults", "breaks_achieved",
                      "first_serves_in", "first_serve_points_won"}
  BY <1>1
<1>7. \A x \in {"aces", "double_faults", "breaks_achieved", "first_serves_in",
               "first_serve_points_won"} : x \in Counters /\ c[p][x] = stats[x]
  BY <1>5, <1>6 DEF Counters, GameCounters, ServeCounters
<1>8. \A x \in {"aces", "double_faults", "breaks_achieved", "first_serves_in",
               "first_serve_points_won"} : totals[p][x] \in Nat
  BY <1>7 DEF StatsInv
<1>9. c[p]["service_games_held"] = stats.games_won - stats.breaks_achieved - tiebreaks
  BY <1>5, <1>6 DEF Counters, GameCounters
<1>10. stats.games_won = PlayerGamesOf(completedSets, p)
  BY <1>1 DEF SetGamesOf, OverSets, PlayerGamesOf
<1>11. /\ c[p]["aces"] = Reported(p, "aces", "aces", reported)
       /\ c[p]["double_faults"] = Reported(p, "double_faults", "double faults", reported)
       /\ c[p]["breaks_achieved"] = Reported(p, "breaks_achieved", "breaks", reported)
       /\ c[p]["first_serves_in"] = Reported(p, "first_serves_in", "first serves", reported)
       /\ c[p]["first_serve_points_won"] =
            Reported(p, "first_serve_points_won", "first serves", reported)
       /\ stats.breaks_achieved = c[p]["breaks_achieved"]
  BY <1>1, <1>7
<1>12. ASSUME NEW x, totals[p][x] \in Nat, NEW field
       PROVE  /\ Reported(p, x, field, reported) \in Int
              /\ field \in reported => Reported(p, x, field, reported) = totals[p][x]
  BY <1>12 DEF Reported
<1>13. /\ c[p]["aces"] \in Int /\ c[p]["double_faults"] \in Int
       /\ c[p]["breaks_achieved"] \in Int /\ c[p]["first_serves_in"] \in Int
       /\ c[p]["first_serve_points_won"] \in Int
  BY <1>8, <1>11, <1>12
<1>14. c[p]["service_games_held"] =
         PlayerGamesOf(completedSets, p) - c[p]["breaks_achieved"]
           - Cardinality(TiebreaksBy(completedSets, p))
  BY <1>3, <1>9, <1>10, <1>11
<1>15. /\ "aces" \in reported => c[p]["aces"] = totals[p]["aces"]
       /\ "double faults" \in reported => c[p]["double_faults"] = totals[p]["double_faults"]
       /\ "breaks" \in reported => c[p]["breaks_achieved"] = totals[p]["breaks_achieved"]
       /\ "first serves" \in reported =>
            /\ c[p]["first_serves_in"] = totals[p]["first_serves_in"]
            /\ c[p]["first_serve_points_won"] = totals[p]["first_serve_points_won"]
  BY <1>8, <1>11, <1>12
<1>16. \A x \in {"aces", "double_faults", "breaks_achieved", "first_serves_in",
                "first_serve_points_won"} : c[p][x] \in Int
  BY <1>13
<1>17. QED
  BY <1>14, <1>15, <1>16

\* A record has the games of the completed sets, a path those of the last one too.
LEMMA RecordGames ==
  ASSUME IInv, StatsInv, GamesInv, NEW reported, NEW c,
         c = RecordTotals(OfficialOutcome(reported)), NEW ev, NEW p \in Players
  PROVE  /\ Record(c, ev)!GamesWon(p) \in Int /\ GamesWon(p) \in Int
         /\ Record(c, ev)!GamesWon(p) <= GamesWon(p)
         /\ activeSet = None => Record(c, ev)!GamesWon(p) = GamesWon(p)
<1>1. PICK S : S = TiebreaksBy(completedSets, p)
  OBVIOUS
<1>2. Cardinality(S) \in Nat
  BY <1>1, TiebreaksByNat DEF IInv
<1>3. {i \in Record(c, ev)!TiebreakSets : Record(c, ev)!SetWinner(completedSets[i]) = p} = S
  BY <1>1, RecordReadsPath, RecordReadsSets DEF TiebreakSets, TiebreaksBy, TiebreaksOf
<1>4. Record(c, ev)!GamesWon(p) =
        c[p]["service_games_held"] + c[p]["breaks_achieved"] + Record(c, ev)!Cardinality(S)
  BY <1>3, Zenon DEF Record!GamesWon
<1>5. /\ PlayerGamesOf(completedSets, p) \in Int /\ ActiveGames(p) \in Nat
      /\ activeSet = None => ActiveGames(p) = 0
  BY ActiveGamesOf DEF IInv
<1>6. /\ c[p]["breaks_achieved"] \in Int
      /\ c[p]["service_games_held"] =
           PlayerGamesOf(completedSets, p) - c[p]["breaks_achieved"] - Cardinality(S)
  BY <1>1, RecordTotalsAre
<1>7. Record(c, ev)!GamesWon(p) = PlayerGamesOf(completedSets, p)
  BY <1>2, <1>4, <1>5, <1>6, RecordReadsPath
<1>8. GamesWon(p) = PlayerGamesOf(completedSets, p) + ActiveGames(p)
  BY DEF GamesInv, PlayedGames
<1>9. QED
  BY <1>5, <1>7, <1>8

\* A path that is played, and a record of it.
ScoredInv == IInv /\ StatsInv /\ PathInv /\ GamesInv
IsRecord(c, ev, reported) ==
  /\ c = RecordTotals(OfficialOutcome(reported))
  /\ ev = OfficialOutcome(reported).breakEvents

\* What a record settles otherwise than its path: games of a set that was not over.
OfGames == {"FIRST_SET_GAMES", "TOTAL_GAMES", "PLAYER_GAMES", "GAME_HANDICAP"}
ReadAlike(prop) ==
  \/ prop.kind \notin OfGames \/ activeSet = None
  \/ prop.kind = "FIRST_SET_GAMES" /\ SetCompleted(1)

LEMMA RecordEvents ==
  ASSUME NEW c, NEW ev, NEW reported, IsRecord(c, ev, reported), "break events" \in reported,
         NEW prop
  PROVE  Record(c, ev)!BreakGames(prop) = BreakGames(prop)
<1>1. ev = breakEvents
  BY DEF IsRecord, OfficialOutcome
<1>2. QED
  BY <1>1 DEF Record!BreakGames, BreakGames

LEMMA RecordReports ==
  ASSUME ScoredInv, NEW c, NEW ev, NEW reported, IsRecord(c, ev, reported), NEW p \in Players
  PROVE  /\ "aces" \in reported => c[p]["aces"] = totals[p]["aces"]
         /\ "double faults" \in reported => c[p]["double_faults"] = totals[p]["double_faults"]
         /\ "breaks" \in reported => c[p]["breaks_achieved"] = totals[p]["breaks_achieved"]
         /\ "first serves" \in reported =>
              /\ c[p]["first_serves_in"] = totals[p]["first_serves_in"]
              /\ c[p]["first_serve_points_won"] = totals[p]["first_serve_points_won"]
<1>1. IInv /\ StatsInv /\ c = RecordTotals(OfficialOutcome(reported))
  BY DEF ScoredInv, IsRecord
<1>2. "aces" \in reported => c[p]["aces"] = totals[p]["aces"]
  BY <1>1, RecordTotalsAre, ZenonT(60)
<1>3. "double faults" \in reported => c[p]["double_faults"] = totals[p]["double_faults"]
  BY <1>1, RecordTotalsAre, ZenonT(60)
<1>4. "breaks" \in reported => c[p]["breaks_achieved"] = totals[p]["breaks_achieved"]
  BY <1>1, RecordTotalsAre, ZenonT(60)
<1>5. "first serves" \in reported => c[p]["first_serves_in"] = totals[p]["first_serves_in"]
  BY <1>1, RecordTotalsAre, ZenonT(60)
<1>6. "first serves" \in reported =>
        c[p]["first_serve_points_won"] = totals[p]["first_serve_points_won"]
  BY <1>1, RecordTotalsAre, ZenonT(60)
<1>7. QED
  BY <1>2, <1>3, <1>4, <1>5, <1>6

LEMMA NeedsAre ==
  ASSUME NEW kind, NEW reported, NeedsOf(kind) \subseteq reported
  PROVE  /\ kind \in OfBreaks => "breaks" \in reported
         /\ kind = "FIRST_BREAK_TIMING" => "break events" \in reported
         /\ kind \in OfAces => "aces" \in reported
         /\ kind \in OfFaults => "double faults" \in reported
         /\ kind = "FIRST_SERVE_WIN_PCT" => "first serves" \in reported
<1>1. kind \in OfBreaks => "breaks" \in NeedsOf(kind)
  BY DEF NeedsOf, OfBreaks, OfAces, OfFaults
<1>2. kind = "FIRST_BREAK_TIMING" => "break events" \in NeedsOf(kind)
  BY DEF NeedsOf, OfBreaks, OfAces, OfFaults
<1>3. kind \in OfAces => "aces" \in NeedsOf(kind)
  BY DEF NeedsOf, OfBreaks, OfAces, OfFaults
<1>4. kind \in OfFaults => "double faults" \in NeedsOf(kind)
  BY DEF NeedsOf, OfBreaks, OfAces, OfFaults
<1>5. kind = "FIRST_SERVE_WIN_PCT" => "first serves" \in NeedsOf(kind)
  BY DEF NeedsOf, OfBreaks, OfAces, OfFaults
<1>6. QED
  BY <1>1, <1>2, <1>3, <1>4, <1>5

LEMMA RecordCounts ==
  ASSUME ScoredInv, NEW c, NEW ev, NEW reported, IsRecord(c, ev, reported)
  PROVE  /\ "aces" \in reported => Record(c, ev)!Both("aces") = Both("aces")
         /\ "double faults" \in reported =>
              Record(c, ev)!Both("double_faults") = Both("double_faults")
         /\ "breaks" \in reported =>
              Record(c, ev)!Both("breaks_achieved") = Both("breaks_achieved")
<1>1. 0 \in Players /\ 1 \in Players
  BY DEF Players
<1>2. \A p \in Players :
        /\ "aces" \in reported => c[p]["aces"] = totals[p]["aces"]
        /\ "double faults" \in reported => c[p]["double_faults"] = totals[p]["double_faults"]
        /\ "breaks" \in reported => c[p]["breaks_achieved"] = totals[p]["breaks_achieved"]
  BY RecordReports
<1>3. QED
  BY <1>1, <1>2 DEF Record!Both, Both

LEMMA RecordPathGames ==
  ASSUME ScoredInv, NEW c, NEW ev, NEW reported, IsRecord(c, ev, reported)
  PROVE  /\ PathGames \in Nat /\ \A p \in Players : GamesWon(p) \in Nat
         /\ \A p \in Players :
              /\ Record(c, ev)!GamesWon(p) \in Int
              /\ Record(c, ev)!GamesWon(p) <= GamesWon(p)
              /\ activeSet = None => Record(c, ev)!GamesWon(p) = GamesWon(p)
         /\ Record(c, ev)!PathGames \in Int /\ Record(c, ev)!PathGames <= PathGames
         /\ activeSet = None => Record(c, ev)!PathGames = PathGames
<1>1. 0 \in Players /\ 1 \in Players /\ Players = {0, 1}
  BY DEF Players
<1>2. GamesWon(0) \in Nat /\ GamesWon(1) \in Nat
  BY GamesWonAre DEF ScoredInv
<1>3. \A p \in Players :
        /\ Record(c, ev)!GamesWon(p) \in Int
        /\ Record(c, ev)!GamesWon(p) <= GamesWon(p)
        /\ activeSet = None => Record(c, ev)!GamesWon(p) = GamesWon(p)
  BY RecordGames DEF ScoredInv, IsRecord
<1>4. QED
  BY <1>1, <1>2, <1>3 DEF Record!PathGames, PathGames

\* What is counted in a record is what is counted in its path.
LEMMA RecordMeasure ==
  ASSUME ScoredInv, NEW c, NEW ev, NEW reported, IsRecord(c, ev, reported),
         NEW prop, IsAtom(prop), NeedsOf(prop.kind) \subseteq reported,
         prop.kind \in Counted, ReadAlike(prop)
  PROVE  Record(c, ev)!Measure(prop) = Measure(prop)
<1>1. prop.kind \in OfOnePlayer => prop.player \in Players
  BY DEF IsAtom
<1>2. /\ prop.kind \in OfBreaks => "breaks" \in reported
      /\ prop.kind = "FIRST_BREAK_TIMING" => "break events" \in reported
      /\ prop.kind \in OfAces => "aces" \in reported
      /\ prop.kind \in OfFaults => "double faults" \in reported
  BY NeedsAre
<1>3. CASE prop.kind = "TIEBREAK_COUNT"
  BY <1>3, RecordReadsPath, RecordReadsSets DEF Record!Measure, Measure
<1>4. CASE prop.kind = "FIRST_SET_GAMES"
  BY <1>4, RecordReadsPath, RecordReadsSets, RecordPathGames
     DEF Record!Measure, Measure, ReadAlike, OfGames
<1>5. CASE prop.kind = "TOTAL_GAMES"
  BY <1>5, RecordPathGames
     DEF Record!Measure, Measure, ReadAlike, OfGames
<1>6. CASE prop.kind = "PLAYER_GAMES"
  BY <1>1, <1>6, RecordPathGames DEF Record!Measure, Measure, ReadAlike, OfGames, OfOnePlayer
<1>7. CASE prop.kind = "BREAK_COUNT"
  BY <1>1, <1>2, <1>7, RecordReports DEF Record!Measure, Measure, OfOnePlayer, OfBreaks
<1>8. CASE prop.kind = "TOTAL_BREAKS"
  BY <1>2, <1>8, RecordCounts DEF Record!Measure, Measure, OfBreaks
<1>9. CASE prop.kind = "FIRST_BREAK_TIMING"
  <2>1. Record(c, ev)!BreakGames(prop) = BreakGames(prop)
    BY <1>2, <1>9, RecordEvents
  <2>2. QED
    BY <1>9, <2>1, RecordReadsPath DEF Record!Measure, Measure
<1>10. CASE prop.kind = "PLAYER_ACES"
  BY <1>1, <1>2, <1>10, RecordReports DEF Record!Measure, Measure, OfOnePlayer, OfAces
<1>11. CASE prop.kind = "TOTAL_ACES"
  BY <1>2, <1>11, RecordCounts DEF Record!Measure, Measure, OfAces
<1>12. CASE prop.kind = "PLAYER_DF"
  BY <1>1, <1>2, <1>12, RecordReports DEF Record!Measure, Measure, OfOnePlayer, OfFaults
<1>13. CASE prop.kind = "TOTAL_DF"
  BY <1>2, <1>13, RecordCounts DEF Record!Measure, Measure, OfFaults
<1>14. QED
  BY <1>3, <1>4, <1>5, <1>6, <1>7, <1>8, <1>9, <1>10, <1>11, <1>12, <1>13
     DEF Counted, MonotoneCounts

LEMMA RecordHolds ==
  ASSUME ScoredInv, NEW c, NEW ev, NEW reported, IsRecord(c, ev, reported),
         NEW prop, IsAtom(prop), NeedsOf(prop.kind) \subseteq reported, ReadAlike(prop)
  PROVE  Record(c, ev)!Holds(prop) <=> Holds(prop)
<1>1. (prop.kind \in OfOnePlayer => prop.player \in Players) /\ prop.kind \in AtomKinds
  BY DEF IsAtom
<1>2. /\ prop.kind \in OfBreaks => "breaks" \in reported
      /\ prop.kind \in OfAces => "aces" \in reported
      /\ prop.kind \in OfFaults => "double faults" \in reported
      /\ prop.kind = "FIRST_SERVE_WIN_PCT" => "first serves" \in reported
  BY NeedsAre
<1>3. prop.player \in Players => Other(prop.player) \in Players
  BY PlayersFacts
<1>4. CASE prop.kind \in {"MATCH_WIN", "STRAIGHT_SETS", "PLAYER_WINS_SET", "DECIDING_SET"}
  BY <1>4, RecordReadsPath, RecordReadsSets DEF Record!Holds, Holds, Record!Counted, Counted,
     Record!MonotoneCounts, MonotoneCounts
<1>5. CASE prop.kind = "EXACT_SCORE"
  BY <1>5, RecordReadsPath, RecordReadsSets DEF Record!Holds, Holds, Record!Counted, Counted,
     Record!MonotoneCounts, MonotoneCounts, Record!ExactScore, ExactScore
<1>6. CASE prop.kind \in {"FIRST_SET_WIN", "SET_TIEBREAK", "ANY_TIEBREAK", "ANY_LOPSIDED_SET",
                          "SET_SCORE"}
  BY <1>6, RecordReadsPath, RecordReadsSets DEF Record!Holds, Holds, Record!Counted, Counted,
     Record!MonotoneCounts, MonotoneCounts
<1>7. CASE prop.kind = "GAME_HANDICAP"
  BY <1>1, <1>3, <1>7, RecordPathGames, RecordReadsPath
     DEF Record!Holds, Holds, Record!Counted, Counted,
     Record!MonotoneCounts, MonotoneCounts, ReadAlike, OfGames, OfOnePlayer
<1>8. CASE prop.kind = "BOTH_BREAK"
  <2>1. \A p \in Players : c[p]["breaks_achieved"] = totals[p]["breaks_achieved"]
    BY <1>2, <1>8, RecordReports DEF OfBreaks
  <2>2. Record(c, ev)!Holds(prop) <=>
          \A p \in Record(c, ev)!Players : c[p]["breaks_achieved"] >= 1
    BY <1>8 DEF Record!Holds, Record!Counted, Record!MonotoneCounts
  <2>3. Holds(prop) <=> \A p \in Players : totals[p]["breaks_achieved"] >= 1
    BY <1>8 DEF Holds, Counted, MonotoneCounts
  <2>4. QED
    BY <2>1, <2>2, <2>3, RecordReadsPath
<1>9. CASE prop.kind = "ACE_COMPARE"
  <2>1. PICK p \in Players, q \in Players : p = prop.player /\ q = Other(prop.player)
    BY <1>1, <1>3, <1>9 DEF OfOnePlayer
  <2>2. c[p]["aces"] = totals[p]["aces"] /\ c[q]["aces"] = totals[q]["aces"]
    BY <1>2, <1>9, RecordReports DEF OfAces
  <2>3. Record(c, ev)!Holds(prop) <=> c[p]["aces"] > c[q]["aces"]
    BY <1>9, <2>1, RecordReadsPath DEF Record!Holds, Record!Counted, Record!MonotoneCounts
  <2>4. Holds(prop) <=> totals[p]["aces"] > totals[q]["aces"]
    BY <1>9, <2>1 DEF Holds, Counted, MonotoneCounts
  <2>5. QED
    BY <2>2, <2>3, <2>4
<1>10. CASE prop.kind = "DF_COMPARE"
  <2>1. PICK p \in Players, q \in Players : p = prop.player /\ q = Other(prop.player)
    BY <1>1, <1>3, <1>10 DEF OfOnePlayer
  <2>2. /\ c[p]["double_faults"] = totals[p]["double_faults"]
        /\ c[q]["double_faults"] = totals[q]["double_faults"]
    BY <1>2, <1>10, RecordReports DEF OfFaults
  <2>3. Record(c, ev)!Holds(prop) <=> c[p]["double_faults"] > c[q]["double_faults"]
    BY <1>10, <2>1, RecordReadsPath DEF Record!Holds, Record!Counted, Record!MonotoneCounts
  <2>4. Holds(prop) <=> totals[p]["double_faults"] > totals[q]["double_faults"]
    BY <1>10, <2>1 DEF Holds, Counted, MonotoneCounts
  <2>5. QED
    BY <2>2, <2>3, <2>4
<1>11. CASE prop.kind = "FIRST_SERVE_WIN_PCT"
  <2>1. PICK p \in Players : p = prop.player
    BY <1>1, <1>11 DEF OfOnePlayer
  <2>2. PICK w : w = 100 * totals[p]["first_serve_points_won"]
    OBVIOUS
  <2>3. PICK n : n = prop.k * totals[p]["first_serves_in"]
    OBVIOUS
  <2>4. /\ c[p]["first_serves_in"] = totals[p]["first_serves_in"]
        /\ c[p]["first_serve_points_won"] = totals[p]["first_serve_points_won"]
    BY <1>2, <1>11, RecordReports
  <2>5. /\ w = 100 * c[p]["first_serve_points_won"]
        /\ n = prop.k * c[p]["first_serves_in"]
    BY <2>2, <2>3, <2>4, Zenon
  <2>6. Record(c, ev)!Holds(prop) <=> Record(c, ev)!Compare(w, prop.op, n)
    BY <1>11, <2>1, <2>5 DEF Record!Holds, Record!Counted, Record!MonotoneCounts
  <2>7. Holds(prop) <=> Compare(w, prop.op, n)
    BY <1>11, <2>1, <2>2, <2>3 DEF Holds, Counted, MonotoneCounts
  <2>8. QED
    BY <2>6, <2>7, RecordReadsSets
<1>12. CASE prop.kind \in Counted
  <2>1. PICK m : m = Measure(prop)
    OBVIOUS
  <2>2. Record(c, ev)!Measure(prop) = m
    BY <1>12, <2>1, RecordMeasure
  <2>3. Record(c, ev)!Holds(prop) <=> m # None /\ Record(c, ev)!Compare(m, prop.op, prop.k)
    BY <1>12, <2>2 DEF Record!Holds, Record!Counted, Record!MonotoneCounts, Counted, MonotoneCounts
  <2>4. Holds(prop) <=> m # None /\ Compare(m, prop.op, prop.k)
    BY <1>12, <2>1 DEF Holds, Counted, MonotoneCounts
  <2>5. QED
    BY <2>3, <2>4, RecordReadsSets
<1>13. QED
  BY <1>1, <1>4, <1>5, <1>6, <1>7, <1>8, <1>9, <1>10, <1>11, <1>12
     DEF AtomKinds, OfOnePlayer, MonotoneBooleans, Counted, MonotoneCounts

\* A record settles as its path, but that it may leave open what only the games
\* of the last set settle.
LEMMA RecordUndetermined ==
  ASSUME ScoredInv, NEW c, NEW ev, NEW reported, IsRecord(c, ev, reported),
         NEW prop, IsAtom(prop), NeedsOf(prop.kind) \subseteq reported
  PROVE  Record(c, ev)!Undetermined(prop) <=> Undetermined(prop)
<1>1. CASE prop.kind = "FIRST_SERVE_WIN_PCT"
  <2>1. PICK p \in Players : p = prop.player
    BY <1>1 DEF IsAtom, OfOnePlayer
  <2>2. "first serves" \in reported
    BY <1>1, NeedsAre
  <2>3. c[p]["first_serves_in"] = totals[p]["first_serves_in"]
    BY <2>2, RecordReports
  <2>4. QED
    BY <1>1, <2>1, <2>3 DEF Record!Undetermined, Undetermined
<1>2. CASE prop.kind # "FIRST_SERVE_WIN_PCT"
  BY <1>2 DEF Record!Undetermined, Undetermined
<1>3. QED
  BY <1>1, <1>2

LEMMA RecordScope ==
  ASSUME ScoredInv, NEW c, NEW ev, NEW reported, IsRecord(c, ev, reported),
         NEW prop, IsAtom(prop), NeedsOf(prop.kind) \subseteq reported
  PROVE  Record(c, ev)!ScopeCompleted(prop) <=> ScopeCompleted(prop)
<1>1. CASE prop.kind = "FIRST_BREAK_TIMING"
  <2>1. PICK m : m = Measure(prop)
    OBVIOUS
  <2>2. Record(c, ev)!Measure(prop) = m
    BY <1>1, <2>1, RecordMeasure DEF Counted, ReadAlike, OfGames
  <2>3. QED
    BY <1>1, <2>1, <2>2 DEF Record!ScopeCompleted, ScopeCompleted
<1>2. CASE prop.kind # "FIRST_BREAK_TIMING"
  BY <1>2, RecordReadsSets DEF Record!ScopeCompleted, ScopeCompleted
<1>3. QED
  BY <1>1, <1>2

LEMMA RecordAtomAlike ==
  ASSUME ScoredInv, NEW c, NEW ev, NEW reported, IsRecord(c, ev, reported),
         NEW prop, IsAtom(prop), NeedsOf(prop.kind) \subseteq reported, ReadAlike(prop)
  PROVE  Record(c, ev)!SettleAtom(prop) = SettleAtom(prop)
<1>1. Record(c, ev)!Holds(prop) <=> Holds(prop)
  BY RecordHolds
<1>2. Record(c, ev)!Undetermined(prop) <=> Undetermined(prop)
  BY RecordUndetermined
<1>3. Record(c, ev)!FromTruth(prop) = FromTruth(prop)
  BY <1>1, <1>2 DEF Record!FromTruth, FromTruth
<1>4. Record(c, ev)!Reached(prop) <=> Reached(prop)
  BY <1>1, RecordKinds DEF Record!Reached, Reached
<1>5. Record(c, ev)!ScopeCompleted(prop) <=> ScopeCompleted(prop)
  BY RecordScope
<1>6. Record(c, ev)!IsComplete <=> IsComplete
  BY RecordReadsSets
<1>7. QED
  BY <1>3, <1>4, <1>5, <1>6 DEF Record!SettleAtom, SettleAtom

LEMMA RecordMeasureGrows ==
  ASSUME ScoredInv, NEW c, NEW ev, NEW reported, IsRecord(c, ev, reported),
         NEW prop, IsAtom(prop), prop.kind \in OfGames \ {"GAME_HANDICAP"}, ~ReadAlike(prop),
         Record(c, ev)!Measure(prop) # None
  PROVE  /\ Record(c, ev)!Measure(prop) \in Int /\ Measure(prop) \in Int
         /\ Record(c, ev)!Measure(prop) <= Measure(prop) /\ Measure(prop) # None
<1>1. \A x \in Nat : x \in Int /\ x # None
  BY SimulationAssumption
<1>2. CASE prop.kind = "FIRST_SET_GAMES"
  <2>1. ~SetCompleted(1) /\ ~Record(c, ev)!SetCompleted(1)
    BY <1>2, RecordReadsSets DEF ReadAlike
  <2>2. Record(c, ev)!SetsStarted = 1 /\ Record(c, ev)!Measure(prop) = Record(c, ev)!PathGames
    BY <1>2, <2>1 DEF Record!Measure
  <2>3. SetsStarted = 1 /\ Measure(prop) = PathGames
    BY <1>2, <2>1, <2>2, RecordReadsSets DEF Measure
  <2>4. QED
    BY <1>1, <2>2, <2>3, RecordPathGames
<1>3. CASE prop.kind = "TOTAL_GAMES"
  <2>1. Record(c, ev)!Measure(prop) = Record(c, ev)!PathGames /\ Measure(prop) = PathGames
    BY <1>3 DEF Record!Measure, Measure
  <2>2. QED
    BY <1>1, <2>1, RecordPathGames
<1>4. CASE prop.kind = "PLAYER_GAMES"
  <2>1. PICK p \in Players : p = prop.player
    BY <1>4 DEF IsAtom, OfOnePlayer
  <2>2. Record(c, ev)!Measure(prop) = Record(c, ev)!GamesWon(p) /\ Measure(prop) = GamesWon(p)
    BY <1>4, <2>1 DEF Record!Measure, Measure
  <2>3. QED
    BY <1>1, <2>2, RecordPathGames
<1>5. QED
  BY <1>2, <1>3, <1>4 DEF OfGames

LEMMA RecordAtomGames ==
  ASSUME ScoredInv, NEW c, NEW ev, NEW reported, IsRecord(c, ev, reported),
         NEW prop, IsAtom(prop), NeedsOf(prop.kind) \subseteq reported, ~ReadAlike(prop),
         Record(c, ev)!SettleAtom(prop) \in Settlements
  PROVE  Record(c, ev)!SettleAtom(prop) = SettleAtom(prop)
<1>1. prop.kind \in OfGames /\ ~IsComplete
  BY DEF ReadAlike, ScoredInv, IInv, MatchStopsAtClinch
<1>2. ~ScopeCompleted(prop)
  BY <1>1 DEF ScopeCompleted, ReadAlike, OfGames
<1>3. prop.kind # "MATCH_WIN"
  BY <1>1 DEF OfGames
<1>4. Record(c, ev)!Reached(prop) /\ Record(c, ev)!SettleAtom(prop) = "yes"
  BY <1>1, <1>2, <1>3, RecordScope, RecordReadsSets DEF Record!SettleAtom, Settlements
<1>5. prop.kind \in MonotoneCounts /\ prop.op \in {">=", ">"} /\ Record(c, ev)!Holds(prop)
  BY <1>1, <1>4, RecordKinds DEF Record!Reached, OfGames, MonotoneBooleans
<1>6. prop.kind # "GAME_HANDICAP" /\ prop.k \in Int
  BY <1>5 DEF MonotoneCounts, Counted, IsAtom
<1>7. /\ Record(c, ev)!Measure(prop) # None
      /\ Record(c, ev)!Compare(Record(c, ev)!Measure(prop), prop.op, prop.k)
  BY <1>5 DEF Record!Holds, Record!Counted, Record!MonotoneCounts, MonotoneCounts
<1>8. PICK x \in Int : x = Record(c, ev)!Measure(prop)
  BY <1>1, <1>6, <1>7, RecordMeasureGrows
<1>9. PICK y \in Int : y = Measure(prop) /\ x <= y /\ y # None
  BY <1>1, <1>6, <1>7, <1>8, RecordMeasureGrows
<1>10. Compare(y, prop.op, prop.k)
  <2>1. PICK op \in {">=", ">"}, k \in Int : op = prop.op /\ k = prop.k
    BY <1>5, <1>6
  <2>2. Record(c, ev)!Compare(x, op, k)
    BY <1>7, <1>8, <2>1
  <2>3. Compare(x, op, k)
    BY <2>2, RecordReadsSets
  <2>4. Compare(y, op, k)
    BY <1>9, <2>3, StillExceeds
  <2>5. QED
    BY <2>1, <2>4
<1>11. Holds(prop)
  BY <1>5, <1>9, <1>10 DEF Holds, Counted, MonotoneCounts
<1>12. QED
  BY <1>1, <1>2, <1>3, <1>4, <1>5, <1>11 DEF SettleAtom, Reached

LEMMA RecordAtom ==
  ASSUME ScoredInv, NEW c, NEW ev, NEW reported, IsRecord(c, ev, reported),
         NEW prop, IsAtom(prop), NeedsOf(prop.kind) \subseteq reported
  PROVE  /\ Record(c, ev)!SettleAtom(prop) \in Settlements \/ IsComplete =>
              Record(c, ev)!SettleAtom(prop) = SettleAtom(prop)
         /\ IsComplete => SettleAtom(prop) \in Settlements \/ Undetermined(prop)
<1>1. IsComplete => ReadAlike(prop)
  BY DEF ScoredInv, IInv, MatchStopsAtClinch, ReadAlike
<1>2. IsComplete => SettleAtom(prop) \in Settlements \/ Undetermined(prop)
  BY DEF SettleAtom, FromTruth, Settlements
<1>3. QED
  BY <1>1, <1>2, RecordAtomAlike, RecordAtomGames

\* A composite is settled from its components: what settles it in the record
\* settles it in the path.
LEMMA RecordSettles ==
  ASSUME ScoredInv, NEW c, NEW ev, NEW prop \in Props, IsRecord(c, ev, Needs(prop))
  PROVE  /\ Record(c, ev)!Settle(prop) \in Settlements \/ IsComplete =>
              Record(c, ev)!Settle(prop) = Settle(prop)
         /\ IsComplete /\ prop.kind \notin Composites =>
              Settle(prop) \in Settlements \/ Undetermined(prop)
<1>1. CASE prop.kind \notin Composites
  <2>1. IsAtom(prop) /\ NeedsOf(prop.kind) \subseteq Needs(prop)
    BY <1>1, PropsAssumption DEF Needs
  <2>2. Settle(prop) = SettleAtom(prop)
    BY <1>1 DEF Settle, Composites
  <2>3. Record(c, ev)!Settle(prop) = Record(c, ev)!SettleAtom(prop)
    BY <1>1 DEF Record!Settle, Composites
  <2>4. QED
    BY <2>1, <2>2, <2>3, RecordAtom
<1>2. CASE prop.kind \in Composites
  <2>1. \A e \in prop.exprs : IsAtom(e) /\ NeedsOf(e.kind) \subseteq Needs(prop)
    BY <1>2, PropsAssumption DEF Needs
  <2>2. PICK S : S = {Record(c, ev)!SettleAtom(e) : e \in prop.exprs}
    OBVIOUS
  <2>3. PICK T : T = {SettleAtom(e) : e \in prop.exprs}
    OBVIOUS
  <2>4. \A e \in prop.exprs :
          Record(c, ev)!SettleAtom(e) \in Settlements \/ IsComplete =>
            Record(c, ev)!SettleAtom(e) = SettleAtom(e)
    BY <2>1, RecordAtom
  <2>5. \A x \in S \cap Settlements : x \in T
    BY <2>2, <2>3, <2>4
  <2>6. S \subseteq Settlements => T \subseteq S
    BY <2>2, <2>3, <2>4
  <2>7. IsComplete => S = T
    BY <2>2, <2>3, <2>4
  <2>8. /\ Record(c, ev)!Conjunction(S) = Conjunction(S)
        /\ Record(c, ev)!Disjunction(S) = Disjunction(S)
    BY DEF Record!Conjunction, Conjunction, Record!Disjunction, Disjunction,
       Record!Unsettled, Unsettled
  <2>9. CASE prop.kind = "AND"
    <3>1. Settle(prop) = Conjunction(T) /\ Record(c, ev)!Settle(prop) = Conjunction(S)
      BY <2>2, <2>3, <2>8, <2>9 DEF Settle, Record!Settle
    <3>2. QED
      BY <1>2, <2>5, <2>6, <2>7, <3>1, CompositeFollows
  <2>10. CASE prop.kind = "OR"
    <3>1. Settle(prop) = Disjunction(T) /\ Record(c, ev)!Settle(prop) = Disjunction(S)
      BY <2>2, <2>3, <2>8, <2>10 DEF Settle, Record!Settle
    <3>2. QED
      BY <1>2, <2>5, <2>6, <2>7, <3>1, CompositeFollows
  <2>11. QED
    BY <1>2, <2>9, <2>10 DEF Composites
<1>3. QED
  BY <1>1, <1>2

\* The record of a path with all that it may have is coherent.
LEMMA RecordAccepted ==
  ASSUME ScoredInv, PathBuilt
  PROVE  OutcomeAccepted(OfficialOutcome(Reportable))
<1>1. PICK outcome : outcome = OfficialOutcome(Reportable)
  OBVIOUS
<1>2. /\ outcome.completed = IsComplete /\ outcome.winner = WinnerId
      /\ outcome.retired = retired /\ outcome.sets = completedSets
      /\ outcome.started = SetsStarted
  BY <1>1 DEF OfficialOutcome
<1>3. PathAccepted /\ IInv /\ StatsInv /\ GamesInv
  BY BuiltPathAccepted DEF ScoredInv
<1>4. /\ WinnerId \in Players /\ Len(completedSets) <= SetsStarted
      /\ retired = None => /\ SetsWon(WinnerId) = SetsToWin
                           /\ SetsWon(Other(WinnerId)) < SetsToWin
  BY <1>3 DEF PathAccepted
<1>5. IsComplete <=> retired = None
  BY <1>3 DEF PathBuilt, GamesInv
<1>6. retired # None => WinnerId = Other(retired)
  BY DEF WinnerId
<1>7. SetsStarted >= Len(completedSets)
  <2>1. Len(completedSets) \in Nat /\ SetsStarted \in Nat
    BY <1>3 DEF IInv, TypeOK, SetsStarted
  <2>2. QED
    BY <1>4, <2>1
<1>8. \A i \in DOMAIN completedSets :
        /\ completedSets[i].setNumber = i
        /\ IsLegalSetScore(completedSets[i].games, completedSets[i].tiebreak # None)
  BY <1>3 DEF IInv, ServiceOrderContinuous, SetScoresLegal, ResultAccepted
<1>9. ASSUME NEW p
      PROVE  Cardinality({i \in DOMAIN outcome.sets : SetWinner(outcome.sets[i]) = p})
               = SetsWon(p)
  <2>1. DOMAIN completedSets = 1 .. Len(completedSets)
    BY <1>3 DEF IInv, TypeOK
  <2>2. {i \in DOMAIN outcome.sets : SetWinner(outcome.sets[i]) = p}
          = {i \in 1 .. Len(completedSets) : SetWinner(completedSets[i]) = p}
    BY <1>2, <2>1
  <2>3. QED
    BY <2>2, Zenon DEF SetsWon, WonAmong
<1>10. ASSUME NEW p \in Players
       PROVE  outcome.stats[p].first_serve_points_won <= outcome.stats[p].first_serves_in
  <2>1. /\ outcome.stats[p].first_serve_points_won = totals[p]["first_serve_points_won"]
        /\ outcome.stats[p].first_serves_in = totals[p]["first_serves_in"]
    BY <1>1, <1>10 DEF OfficialOutcome, Reported, Reportable
  <2>2. PICK k \in [Counters -> Nat] : k = totals[p]
    BY <1>3, <1>10 DEF StatsInv
  <2>3. ServeSplit(k)
    BY <1>3, <1>10, <2>2 DEF StatsInv
  <2>4. \A x \in ServeCounters : k[x] \in Nat
    BY <2>2 DEF Counters
  <2>5. k["first_serve_points_won"] <= k["first_serves_in"]
    BY <2>3, <2>4 DEF ServeSplit, ServeCounters
  <2>6. QED
    BY <2>1, <2>2, <2>5
<1>11. OutcomeAccepted(outcome)
  BY <1>2, <1>4, <1>5, <1>6, <1>7, <1>8, <1>9, <1>10 DEF OutcomeAccepted
<1>12. QED
  BY <1>1, <1>11

\* Every path has a record that the checks accept.  A record with what a
\* proposition needs settles it as the path it is of, or leaves it open: a
\* completed match settles all but a percentage of nothing, and a retirement
\* voids at most what the games of its last set had settled.
THEOREM RecordsAlwaysSettleAsPaths == SimulationSpec => []RecordsSettleAsPaths
<1>1. SimulationInit => ScoredInv
  BY InitIInv, InitStats, InitPath, InitGames DEF SimulationInit, ScoredInv
<1>2. ScoredInv /\ [SimulationNext]_simulationVars => ScoredInv'
  BY SimulationKeepsScore, StatsStep, PathStep, GamesStep DEF ScoredInv
<1>3. ASSUME ScoredInv PROVE RecordsSettleAsPaths
  <2>1. SUFFICES ASSUME PathBuilt, NEW prop \in Props, NEW official,
                        official = Resolution(prop, Needs(prop))
        PROVE  /\ OutcomeAccepted(OfficialOutcome(Reportable))
               /\ official \in Settlements \/ IsComplete => official = Settle(prop)
               /\ IsComplete /\ prop.kind \notin Composites =>
                    official \in Settlements \/ Undetermined(prop)
    BY <1>3, RecordAccepted DEF RecordsSettleAsPaths
  <2>2. PICK outcome : outcome = OfficialOutcome(Needs(prop))
    OBVIOUS
  <2>3. PICK c, ev : c = RecordTotals(outcome) /\ ev = outcome.breakEvents
    OBVIOUS
  <2>4. IsRecord(c, ev, Needs(prop))
    BY <2>2, <2>3 DEF IsRecord
  <2>5. official = Record(c, ev)!Settle(prop)
    BY <2>1, <2>2, <2>3, Zenon DEF Resolution
  <2>6. QED
    BY <1>3, <2>1, <2>4, <2>5, RecordAccepted, RecordSettles
<1>4. QED
  BY <1>1, <1>2, <1>3, PTL DEF SimulationSpec
=============================================================================
