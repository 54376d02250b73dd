---------------------------- MODULE MCWalkForward ----------------------------
EXTENDS WalkForward

\* A year has two months of four days.  The outer year 4 is selected on the
\* years 2 and 3; year 1 is history.  An event of the last days of a year may
\* be in the file of the next one.
MCMatch(id, start, fileYear) ==
  [id |-> id, start |-> start, fileYear |-> fileYear, outcome |-> TRUE, counts |-> TRUE]
MCHistory == {MCMatch("h", 2, 1), [MCMatch("i", 6, 1) EXCEPT !.counts = FALSE]}
MCFold == {MCMatch("t", 11, 2), MCMatch("v", 17, 3), MCMatch("o", 29, 4)}
MCMore == {MCMatch("u", 14, 2), MCMatch("w", 20, 3), MCMatch("p", 22, 4),
           [MCMatch("x", 21, 3) EXCEPT !.outcome = FALSE], MCMatch("q", 24, 4)}
MCTables == {MCHistory \cup MCFold \cup more : more \in SUBSET MCMore}
             \cup {MCHistory, MCHistory \cup MCMore}
=============================================================================
