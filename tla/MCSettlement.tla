---------------------------- MODULE MCSettlement ----------------------------
(***************************************************************************)
(* Settlement on a scaled-down format, with the bounds of                  *)
(* MCMatchSimulation and every kind of prop at thresholds that such a      *)
(* match crosses early, late or never.                                     *)
(***************************************************************************)
EXTENDS OfficialOutcomes

CONSTANTS DeuceCap, TiebreakCap, MaxPoints

AcesAndFaults == {Result("ace", TRUE), Result("doubleFault", FALSE)}

Bound ==
  /\ totalPoints < MaxPoints
  /\ activeSet # None =>
       /\ \E p \in Players : activeSet.gamePoints[p] <= DeuceCap
       /\ InTiebreak => \E p \in Players : activeSet.tiebreak.points[p] <= TiebreakCap

Operators == {">=", ">", "<"}
Plain == {[kind |-> kind] : kind \in {"DECIDING_SET", "ANY_TIEBREAK", "ANY_LOPSIDED_SET",
                                      "BOTH_BREAK"}}
OfPlayer == {[kind |-> kind, player |-> 0] :
               kind \in {"MATCH_WIN", "STRAIGHT_SETS", "PLAYER_WINS_SET", "FIRST_SET_WIN",
                         "ACE_COMPARE", "DF_COMPARE"}}
OfSet == {[kind |-> "SET_TIEBREAK", setNo |-> n] : n \in {1, 3}}
Scores == {[kind |-> "EXACT_SCORE", player |-> 0, score |-> [Level EXCEPT ![0] = 2]],
           [kind |-> "SET_SCORE", setNo |-> 2, score |-> [Level EXCEPT ![1] = 2]]}
Thresholds == {[kind |-> kind, player |-> 0, op |-> op, k |-> 3] :
                 kind \in MonotoneCounts \ {"TIEBREAK_COUNT", "BREAK_COUNT"}, op \in {">=", "<"}}
Rare == {[kind |-> kind, player |-> 0, op |-> op, k |-> 1] :
           kind \in {"TIEBREAK_COUNT", "BREAK_COUNT"}, op \in Operators}
FirstBreaks == {[kind |-> "FIRST_BREAK_TIMING", scope |-> scope, setNo |-> 2, op |-> op,
                 k |-> 2] : scope \in {"match", "set"}, op \in {">", "<"}}
Others == {[kind |-> "GAME_HANDICAP", player |-> 0, k |-> -1],
           [kind |-> "FIRST_SERVE_WIN_PCT", player |-> 0, op |-> "<", k |-> 100]}
Tiebreak1 == [kind |-> "SET_TIEBREAK", setNo |-> 1]
WinsSet0 == [kind |-> "PLAYER_WINS_SET", player |-> 0]
Compound == {[kind |-> kind, exprs |-> {Tiebreak1, WinsSet0}] : kind \in Composites}

MCProps == Plain \union OfPlayer \union OfSet \union Scores \union Thresholds \union Rare
             \union FirstBreaks \union Others \union Compound
=============================================================================
