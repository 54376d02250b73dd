------------------------- MODULE MCMatchSimulation -------------------------
(***************************************************************************)
(* MatchSimulation on a scaled-down format.  DeuceCap and TiebreakCap      *)
(* bound how long a level game or tiebreak is followed, MaxPoints the      *)
(* points of a match; states beyond are checked but not explored.          *)
(***************************************************************************)
EXTENDS MatchSimulation

CONSTANTS DeuceCap, TiebreakCap, MaxPoints

\* Performances whose every first serve in is an ace and whose every second
\* serve is a double fault, and performances that draw more of the tree.
AcesAndFaults == {Result("ace", TRUE), Result("doubleFault", FALSE)}
FourResults == AcesAndFaults \union {Result("first", FALSE), Result("second", TRUE)}

Bound ==
  /\ totalPoints < MaxPoints
  /\ activeSet # None =>
       /\ \E p \in Players : activeSet.gamePoints[p] <= DeuceCap
       /\ InTiebreak => \E p \in Players : activeSet.tiebreak.points[p] <= TiebreakCap
=============================================================================
