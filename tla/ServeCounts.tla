----------------------------- MODULE ServeCounts -----------------------------
(***************************************************************************)
(* The five serve components of a player's service line, as                *)
(* build_serve_component_counts derives them: F first serves in, A aces,   *)
(* Q1 first serves won, D double faults, Q2 second serves won.             *)
(*                                                                         *)
(* The line starts as the count of service points that were played, and    *)
(* the source then gets some of its fields wrong: missing, malformed,      *)
(* negative or simply another number.                                      *)
(***************************************************************************)
EXTENDS Integers, FiniteSets, FiniteSetsExt, Functions

CONSTANTS MaxPoints,    \* service points played
          MaxErrors,    \* fields the source got wrong
          Wrong         \* what a wrong field may say

\* Numbers of any size, as many as there are.
ASSUME CountAssumption == MaxPoints \in Nat /\ Wrong \subseteq Int /\ IsFiniteSet(Wrong)

VARIABLES tally,  \* the points played, by what happened
          line,   \* what the source says of them
          errors

countVars == <<tally, line, errors>>

Missing == -2
Malformed == -3
Happenings == {"ace", "first won", "first lost", "double fault", "second won",
               "second lost"}
Fields == {"points", "firstIn", "firstWon", "secondWon", "aces", "doubleFaults"}
ServeComponents == {"F", "A", "Q1", "D", "Q2"}

Inputs(c) ==
  CASE c = "F" -> {"firstIn", "points"}
    [] c = "A" -> {"aces", "firstIn"}
    [] c = "Q1" -> {"firstWon", "firstIn", "aces"}
    [] c = "D" -> {"doubleFaults", "points", "firstIn"}
    [] c = "Q2" -> {"secondWon", "points", "firstIn", "doubleFaults"}

\* <<successes, trials>>
Computed(l, c) ==
  CASE c = "F" -> <<l.firstIn, l.points>>
    [] c = "A" -> <<l.aces, l.firstIn>>
    [] c = "Q1" -> <<l.firstWon - l.aces, l.firstIn - l.aces>>
    [] c = "D" -> <<l.doubleFaults, l.points - l.firstIn>>
    [] c = "Q2" -> <<l.secondWon, l.points - l.firstIn - l.doubleFaults>>

\* Fault: only the count itself is looked at.
CountImpossible(l, c) ==
  LET count == Computed(l, c)
  IN  count[2] < 0 \/ count[1] < 0 \/ count[1] > count[2]

\* _component_anomalies: whether there is a reason to quarantine.
Impossible(l, c) ==
  LET seconds == l.points - l.firstIn
      count == Computed(l, c)
  IN  \/ \E f \in Inputs(c) : l[f] < 0
      \/ c \in {"F", "D", "Q2"} /\ seconds < 0
      \/ c \in {"A", "Q1"} /\ l.aces > l.firstIn
      \/ c = "Q1" /\ (l.aces > l.firstWon \/ l.firstWon > l.firstIn)
      \/ c \in {"D", "Q2"} /\ l.doubleFaults > seconds
      \/ c = "Q2" /\ l.secondWon > seconds - l.doubleFaults
      \/ count[2] < 0 \/ count[1] < 0 \/ count[1] > count[2]
CountStatus(l, c) ==
  IF \E f \in Inputs(c) : l[f] = Malformed THEN "quarantined"
  ELSE IF \E f \in Inputs(c) : l[f] = Missing THEN "missing input"
  ELSE IF Impossible(l, c) THEN "quarantined"
  ELSE IF Computed(l, c)[2] = 0 THEN "zero denominator"
  ELSE "valid"
EligibleCount(l, c) == CountStatus(l, c) = "valid"

-----------------------------------------------------------------------------
\* The points themselves, and the line that counts them.
Blank == [h \in Happenings |-> 0]
Counted(t) ==
  LET Of(kinds) == FoldFunctionOnSet(+, 0, t, kinds)
  IN  [points |-> Of(Happenings),
       firstIn |-> Of({"ace", "first won", "first lost"}),
       firstWon |-> Of({"ace", "first won"}),
       secondWon |-> t["second won"],
       aces |-> t["ace"],
       doubleFaults |-> t["double fault"]]
Tallied(t, c) ==
  CASE c = "F" -> <<Counted(t).firstIn, Counted(t).points>>
    [] c = "A" -> <<t["ace"], Counted(t).firstIn>>
    [] c = "Q1" -> <<t["first won"], t["first won"] + t["first lost"]>>
    [] c = "D" -> <<t["double fault"],
                    t["double fault"] + t["second won"] + t["second lost"]>>
    [] c = "Q2" -> <<t["second won"], t["second won"] + t["second lost"]>>

\* What the fields of a component can say of points that were played.
Most == Max(Wrong \cup {MaxPoints})
PossibleInputs ==
  [c \in ServeComponents |->
     {Restrict(Counted(t), Inputs(c)) : t \in [Happenings -> 0..Most]}]

CountInit == tally = Blank /\ line = Counted(Blank) /\ errors = 0

Point(h) ==
  /\ errors = 0 /\ line.points < MaxPoints
  /\ tally' = [tally EXCEPT ![h] = @ + 1]
  /\ line' = Counted(tally')
  /\ UNCHANGED errors

GetWrong(f, v) ==
  /\ errors < MaxErrors
  /\ line' = [line EXCEPT ![f] = v]
  /\ errors' = errors + 1
  /\ UNCHANGED tally

CountNext ==
  \/ \E h \in Happenings : Point(h)
  \/ \E f \in Fields, v \in Wrong : GetWrong(f, v)

CountSpec == CountInit /\ [][CountNext]_countVars

-----------------------------------------------------------------------------
\* A component is used exactly when points could have been played that its
\* fields count, whatever is wrong with the fields of other components; a
\* line nobody got wrong gives the counts of its points.
CountsAreOfPoints ==
  /\ \A c \in ServeComponents :
       EligibleCount(line, c) <=>
         /\ Restrict(line, Inputs(c)) \in PossibleInputs[c]
         /\ Computed(line, c)[2] > 0
  /\ errors = 0 =>
       \A c \in ServeComponents :
         /\ CountStatus(line, c) \in {"valid", "zero denominator"}
         /\ Computed(line, c) = Tallied(tally, c)
=============================================================================
