------------------------------- MODULE MCData -------------------------------
(***************************************************************************)
(* The programs that make the data of the model and learn from it, side by *)
(* side, with the scoring both the data and the simulation follow.  They   *)
(* share no state at run time: a behaviour runs one of them, and the       *)
(* others stay as they start.                                              *)
(***************************************************************************)
EXTENDS TennisScoring, HistoricalScore, ServeCounts, HistoryIngestion, ServeFit, TLC

CONSTANTS DeuceCap, TiebreakCap,  \* a level game or tiebreak is followed so far
          MaxMatchPoints,
          Programs                \* the programs of this run

-----------------------------------------------------------------------------
\* Scoring: past a cap a state is checked but not explored.
Bound ==
  /\ totalPoints < MaxMatchPoints
  /\ activeSet # None =>
       /\ \E p \in Players : activeSet.gamePoints[p] <= DeuceCap
       /\ InTiebreak => \E p \in Players : activeSet.tiebreak.points[p] <= TiebreakCap

-----------------------------------------------------------------------------
\* Scores of a source.
MCSet(x, y) == [a |-> x, b |-> y, kind |-> "regular", noted |-> FALSE]
MCTiebreak(x, y) == [MCSet(x, y) EXCEPT !.kind = "match tiebreak"]
MCTokens ==
  {MCSet(6, 4), MCSet(9, 7), MCSet(5, 2), MCSet(6, 6), MCSet(7, 4), MCSet(7, 6), MCSet(7, 8),
   [MCSet(6, 7) EXCEPT !.noted = TRUE], [MCSet(6, 3) EXCEPT !.noted = TRUE],
   MCTiebreak(10, 8), MCTiebreak(5, 7), MCTiebreak(10, 9), MCTiebreak(11, 8),
   [MCSet(0, 0) EXCEPT !.kind = "other"]}

\* What a field of a service line may be by mistake.
MCWrong == {-3, -2, -1, 0, 2}

-----------------------------------------------------------------------------
\* A row of the source; the same match again, corrected, with another winner,
\* without an id, given up before it began; another event; and a name that
\* reads like ann's.
MCRow == [event |-> "open", number |-> 1, winner |-> "ann", loser |-> "bea",
          round |-> "R1", start |-> 1, surface |-> "Hard", bestOf |-> "three", sets |-> "2-0",
          score |-> "completed"]
MCRawRows == {
  MCRow,
  [MCRow EXCEPT !.sets = "2-1", !.start = 2],
  [MCRow EXCEPT !.loser = NoPlayer, !.score = "invalid"],
  [MCRow EXCEPT !.number = 2, !.round = "R2", !.score = "walkover", !.start = Unreadable],
  [MCRow EXCEPT !.number = 2, !.round = "R2", !.sets = Unknown, !.loser = "cid"],
  [MCRow EXCEPT !.event = "cup", !.winner = "anna", !.start = 2, !.round = Unknown]}
MCKeysOf == ("ann" :> {"a"}) @@ ("anna" :> {"a"}) @@ ("bea" :> {"b"}) @@
            ("cid" :> {"c"}) @@ (NoPlayer :> {})
MCResult == [match |-> <<"open", 1>>, winner |-> "a", loser |-> "b", date |-> 2,
             surface |-> "Hard", round |-> "R1", bestOf |-> "three", sets |-> "2-0"]
\* The other source knows all three matches and says less of one; or it leaves
\* out one's round and has it on the day before the event, has another match's
\* row that agrees, differs in the third and repeats it without a date.
MCResults == {
  <<MCResult, [MCResult EXCEPT !.match = <<"cup", 1>>, !.date = 3, !.round = "R3",
                                !.sets = Unknown],
    [MCResult EXCEPT !.match = <<"open", 2>>, !.loser = "c", !.date = 3, !.round = "R2"]>>,
  <<[MCResult EXCEPT !.round = Unknown, !.date = 0], [MCResult EXCEPT !.match = <<"cup", 1>>, !.date = 3],
    [MCResult EXCEPT !.match = <<"open", 2>>, !.loser = "c", !.round = "R2",
                     !.bestOf = "five"],
    [MCResult EXCEPT !.match = <<"open", 2>>, !.loser = "c", !.date = Unreadable]>>}

-----------------------------------------------------------------------------
\* Both players of a match, one of them known late; other surfaces; a count
\* with a zero denominator; rows that are old, undated, of an unknown surface
\* or of an event without a name; and a match dated after a cutoff.
MCRank == ("ann" :> 1) @@ ("bea" :> 2) @@ ("cid" :> 3) @@ ("Clay" :> 4) @@
          ("Grass" :> 5) @@ ("Hard" :> 6) @@ ("cup" :> 7) @@ ("open" :> 8) @@
          (NotKnown :> 9)
MCCount(match, player, opponent, surface, event, available) ==
  [match |-> match, player |-> player, opponent |-> opponent, surface |-> surface,
   event |-> event, indoor |-> "in", available |-> available, sourceDate |-> 2,
   matchDate |-> Never, status |-> [c \in Components |-> "valid"], bundle |-> NotKnown]
MCCountRows == {
  MCCount("m1", "ann", "bea", "Hard", "open", 3),
  MCCount("m1", "bea", "ann", "Hard", "open", 3),
  [MCCount("m1", "ann", "bea", "Hard", "open", 3) EXCEPT !.indoor = NotKnown],
  [MCCount("m2", "ann", "cid", "Clay", "cup", 4) EXCEPT !.indoor = "out"],
  [MCCount("m2", "cid", "ann", "Clay", NotKnown, 3)
    EXCEPT !.status["A"] = "zero denominator"],
  [MCCount("m3", "bea", "cid", "Hard", "cup", 1) EXCEPT !.sourceDate = 1],
  [MCCount("m4", "cid", "bea", "Grass", "open", 3) EXCEPT !.matchDate = 4],
  [MCCount("m5", "cid", "bea", NotKnown, "open", Never) EXCEPT !.sourceDate = Never]}

-----------------------------------------------------------------------------
VARIABLE program

DataInit ==
  /\ program \in Programs
  /\ Init /\ (program # "scoring" => initialServer = 0)
  /\ ScoreInit /\ (program # "sheet" => bestOf = 3)
  /\ CountInit
  /\ IngestionInit /\ (program # "ingestion" => others = CHOOSE r \in MCResults : TRUE)
  /\ FitInit

DataNext ==
  /\ UNCHANGED program
  /\ \/ /\ program = "scoring" /\ Next
        /\ UNCHANGED <<scoreVars, countVars, ingestionVars, fitVars>>
     \/ /\ program = "sheet" /\ ScoreNext
        /\ UNCHANGED <<scoringVars, countVars, ingestionVars, fitVars>>
     \/ /\ program = "counts" /\ CountNext
        /\ UNCHANGED <<scoringVars, scoreVars, ingestionVars, fitVars>>
     \/ /\ program = "ingestion" /\ IngestionNext
        /\ UNCHANGED <<scoringVars, scoreVars, countVars, fitVars>>
     \/ /\ program = "fit" /\ FitNext
        /\ UNCHANGED <<scoringVars, scoreVars, countVars, ingestionVars>>

DataSpec ==
  DataInit /\ [][DataNext]_<<program, scoringVars, scoreVars, countVars, ingestionVars,
                            fitVars>>
=============================================================================
