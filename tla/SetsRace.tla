------------------------------ MODULE SetsRace ------------------------------
(***************************************************************************)
(* What a match promises about its sets, whatever the scoring inside them: *)
(* one set is decided at a time, for one player, and the race is over the  *)
(* moment a player has Target sets.                                        *)
(***************************************************************************)
EXTENDS Integers

CONSTANT Target
VARIABLE won

Racers == {0, 1}
Over == \E p \in Racers : won[p] = Target

Init == won = [p \in Racers |-> 0]
WinSet(p) == ~Over /\ won' = [won EXCEPT ![p] = @ + 1]
Next == \E p \in Racers : WinSet(p)
Spec == Init /\ [][Next]_won
=============================================================================
