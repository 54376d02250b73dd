----------------------- MODULE MCParallelSimulation -----------------------
EXTENDS ParallelSimulation, TLC

CONSTANTS first, other, s1, s2

\* Both calls for one match, or each for its own; which is which is all one.
OneMatch == {(first :> s1) @@ (other :> s1)}
OneOrTwoMatches == OneMatch \union {(first :> s1) @@ (other :> s2)}
\* Three paths in chunks of two by two workers, and in chunks of one by one.
ThreePaths == (first :> 3) @@ (other :> 3)
TwoThenOne == (first :> 2) @@ (other :> 1)
AllOne == (first :> 1) @@ (other :> 1)
=============================================================================
