----------------------------- MODULE Settlement -----------------------------
(***************************************************************************)
(* The settlement of propositions on a simulated path: _atomic_truth and   *)
(* _settlement_state_for_path of simulation/match.py with the three-valued *)
(* logic of props/settlement.py.  A prop is evaluated in every state of    *)
(* the simulation, as the settlement of the path that ends there: by       *)
(* completion if the match is complete, by a retirement if it is not.      *)
(***************************************************************************)
EXTENDS MatchSimulation

CONSTANTS Props,          \* the propositions that are priced
          LopsidedGames   \* most games of the loser of a lopsided set

\* A proposition is a record: kind, and as the kind requires player, op, k
\* (the threshold), setNo, scope, score (a function of the players) or exprs.

MonotoneBooleans == {"PLAYER_WINS_SET", "DECIDING_SET", "SET_TIEBREAK", "ANY_TIEBREAK",
                     "ANY_LOPSIDED_SET", "BOTH_BREAK"}
MonotoneCounts == {"TIEBREAK_COUNT", "FIRST_SET_GAMES", "TOTAL_GAMES", "PLAYER_GAMES",
                   "BREAK_COUNT", "TOTAL_BREAKS", "PLAYER_ACES", "TOTAL_ACES",
                   "PLAYER_DF", "TOTAL_DF"}
Counted == MonotoneCounts \union {"FIRST_BREAK_TIMING"}
Composites == {"AND", "OR"}
OfOnePlayer == {"MATCH_WIN", "EXACT_SCORE", "STRAIGHT_SETS", "PLAYER_WINS_SET", "FIRST_SET_WIN",
                "GAME_HANDICAP", "ACE_COMPARE", "DF_COMPARE", "PLAYER_GAMES", "BREAK_COUNT",
                "PLAYER_ACES", "PLAYER_DF", "FIRST_SERVE_WIN_PCT"}
AtomKinds == OfOnePlayer \union MonotoneBooleans \union Counted \union {"SET_SCORE"}

\* Counts are compared with the threshold, so a whole number stands for any.
IsAtom(prop) ==
  /\ prop.kind \in AtomKinds
  /\ prop.kind \in OfOnePlayer => prop.player \in Players
  /\ prop.kind \in Counted \union {"FIRST_SERVE_WIN_PCT"} =>
       prop.op \in {">=", ">", "<"} /\ prop.k \in Int

ASSUME PropsAssumption ==
  \A prop \in Props :
    IF prop.kind \in Composites THEN \A e \in prop.exprs : IsAtom(e) ELSE IsAtom(prop)

Compare(value, op, k) == CASE op = ">=" -> value >= k
                           [] op = ">" -> value > k
                           [] op = "<" -> value < k

SetCompleted(n) == n \in DOMAIN completedSets
PathGames == GamesWon(0) + GamesWon(1)
Both(counter) == totals[0][counter] + totals[1][counter]

\* The games at which the breaks of a scope happened: in the match, or in a set.
BreakGames(prop) ==
  IF prop.scope = "match"
  THEN {breakEvents[i].matchGameNumber : i \in DOMAIN breakEvents}
  ELSE {breakEvents[i].gameNumber :
          i \in {j \in DOMAIN breakEvents : breakEvents[j].setNumber = prop.setNo}}

\* _numeric_measure
Measure(prop) ==
  CASE prop.kind = "TIEBREAK_COUNT" -> Cardinality(TiebreakSets)
    [] prop.kind = "FIRST_SET_GAMES" ->
         IF SetCompleted(1) THEN Sum(completedSets[1].games)
         ELSE IF SetsStarted = 1 THEN PathGames ELSE None
    [] prop.kind = "TOTAL_GAMES" -> PathGames
    [] prop.kind = "PLAYER_GAMES" -> GamesWon(prop.player)
    [] prop.kind = "BREAK_COUNT" -> totals[prop.player]["breaks_achieved"]
    [] prop.kind = "TOTAL_BREAKS" -> Both("breaks_achieved")
    [] prop.kind = "FIRST_BREAK_TIMING" ->
         IF BreakGames(prop) = {} THEN None ELSE Min(BreakGames(prop))
    [] prop.kind = "PLAYER_ACES" -> totals[prop.player]["aces"]
    [] prop.kind = "TOTAL_ACES" -> Both("aces")
    [] prop.kind = "PLAYER_DF" -> totals[prop.player]["double_faults"]
    [] prop.kind = "TOTAL_DF" -> Both("double_faults")

ExactScore(prop) ==
  /\ WinnerId = prop.player
  /\ \A p \in Players : SetsWon(p) = prop.score[p]

IsLopsided(r) ==
  /\ r.tiebreak = None
  /\ \E p \in Players : r.games[p] = SetGames /\ r.games[Other(p)] <= LopsidedGames

\* _atomic_truth of the kinds whose truth is always determined.
Holds(prop) ==
  CASE prop.kind = "MATCH_WIN" -> WinnerId = prop.player
    [] prop.kind = "EXACT_SCORE" -> ExactScore(prop)
    [] prop.kind = "STRAIGHT_SETS" ->
         /\ WinnerId = prop.player
         /\ SetsWon(prop.player) \in {2, 3} /\ SetsWon(Other(prop.player)) = 0
    [] prop.kind = "PLAYER_WINS_SET" -> SetsWon(prop.player) > 0
    [] prop.kind = "DECIDING_SET" -> SetsStarted >= BestOf
    [] prop.kind = "FIRST_SET_WIN" ->
         SetCompleted(1) /\ SetWinner(completedSets[1]) = prop.player
    [] prop.kind = "SET_TIEBREAK" -> prop.setNo \in TiebreakSets
    [] prop.kind = "ANY_TIEBREAK" -> TiebreakSets # {}
    [] prop.kind = "ANY_LOPSIDED_SET" ->
         \E i \in DOMAIN completedSets : IsLopsided(completedSets[i])
    [] prop.kind = "SET_SCORE" ->
         SetCompleted(prop.setNo) /\ completedSets[prop.setNo].games = prop.score
    [] prop.kind = "GAME_HANDICAP" ->
         GamesWon(prop.player) + prop.k > GamesWon(Other(prop.player))
    [] prop.kind = "BOTH_BREAK" -> \A p \in Players : totals[p]["breaks_achieved"] >= 1
    [] prop.kind = "ACE_COMPARE" ->
         totals[prop.player]["aces"] > totals[Other(prop.player)]["aces"]
    [] prop.kind = "DF_COMPARE" ->
         totals[prop.player]["double_faults"] > totals[Other(prop.player)]["double_faults"]
    [] prop.kind \in Counted ->
         Measure(prop) # None /\ Compare(Measure(prop), prop.op, prop.k)
    [] prop.kind = "FIRST_SERVE_WIN_PCT" ->
         Compare(100 * totals[prop.player]["first_serve_points_won"], prop.op,
                 prop.k * totals[prop.player]["first_serves_in"])

\* The one kind that can be undetermined on a played path.
Undetermined(prop) ==
  prop.kind = "FIRST_SERVE_WIN_PCT" /\ totals[prop.player]["first_serves_in"] = 0

FromTruth(prop) ==
  CASE Undetermined(prop) -> "unresolved"
    [] ~Undetermined(prop) /\ Holds(prop) -> "yes"
    [] OTHER -> "no"

\* The part of the match the prop is about is over, though the match is not.
ScopeCompleted(prop) ==
  \/ prop.kind \in {"FIRST_SET_WIN", "FIRST_SET_GAMES"} /\ SetCompleted(1)
  \/ prop.kind \in {"SET_SCORE", "SET_TIEBREAK"} /\ SetCompleted(prop.setNo)
  \/ prop.kind = "FIRST_BREAK_TIMING" /\ Measure(prop) # None

\* Fault: every comparison counts as irreversible once it holds.
ReachedAnyOperator(prop) ==
  prop.kind \in MonotoneBooleans \union MonotoneCounts /\ Holds(prop)

\* What the prop asks for has happened, and more play cannot undo it.
Reached(prop) ==
  /\ \/ prop.kind \in MonotoneBooleans
     \/ prop.kind \in MonotoneCounts /\ prop.op \in {">=", ">"}
  /\ Holds(prop)

\* _settlement_state_for_atomic
SettleAtom(prop) ==
  IF prop.kind = "MATCH_WIN" \/ IsComplete \/ ScopeCompleted(prop) THEN FromTruth(prop)
  ELSE IF Reached(prop) THEN "yes" ELSE "void"

\* truth_and and truth_or over settlement states: an unsettled component
\* leaves the whole unsettled, unless another one determines it.
Unsettled(states) == IF "unresolved" \in states THEN "unresolved" ELSE "void"
Conjunction(states) == CASE "no" \in states -> "no"
                         [] states \subseteq {"yes"} -> "yes"
                         [] OTHER -> Unsettled(states)
Disjunction(states) == CASE "yes" \in states -> "yes"
                         [] states \subseteq {"no"} -> "no"
                         [] OTHER -> Unsettled(states)

\* _settlement_state_for_path; the components of a composite are atoms here.
Settle(prop) ==
  CASE prop.kind = "AND" -> Conjunction({SettleAtom(e) : e \in prop.exprs})
    [] prop.kind = "OR" -> Disjunction({SettleAtom(e) : e \in prop.exprs})
    [] OTHER -> SettleAtom(prop)

-----------------------------------------------------------------------------
(***************************************************************************)
(* Properties.                                                             *)
(***************************************************************************)

\* The props that the result of the match alone decides: MATCH_WIN settles on
\* the retirement itself.
MentionsWinner(prop) ==
  \/ prop.kind = "MATCH_WIN"
  \/ prop.kind \in Composites /\ \E e \in prop.exprs : e.kind = "MATCH_WIN"

\* A settlement is final: where a retired path settles Yes or No, so does
\* every path that goes on from there, with the same answer.  A path settled
\* early is never worth something else than the match it was cut from.
Settlements == {"yes", "no"}
SettlementIsFinal ==
  [][\A prop \in {q \in Props : ~MentionsWinner(q)} :
       Settle(prop) \in Settlements => Settle(prop)' = Settle(prop)]_simulationVars
=============================================================================
