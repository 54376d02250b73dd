------------------------------ MODULE MCPrograms ------------------------------
(***************************************************************************)
(* The programs of the package that share no state at run time, side by    *)
(* side: a behaviour runs one of them, and the others stay as they start.  *)
(***************************************************************************)
EXTENDS MCRallyPosterior, ParticipationHistory, MatchSampling, MCLockService,
        MCLockStore, MCWalkForward, CurrentEvent, ModelSnapshots,
        EloRatings, TLC

-----------------------------------------------------------------------------
\* Reports of three matches of two players and a third: played to the end,
\* retired from, walked over, disputed, doubles.
MCReport == [match |-> "m1", tour |-> "atp", a |-> "p", b |-> "q", date |-> 1,
   status |-> "normal", started |-> TRUE, retiree |-> Nobody, winner |-> "q",
   timed |-> FALSE, anomaly |-> FALSE, resolved |-> TRUE, singles |-> TRUE,
   exhibition |-> FALSE, manifest |-> "source"]
MCReports == {
  MCReport,
  [MCReport EXCEPT !.status = "retirement", !.retiree = "p", !.timed = TRUE],
  [MCReport EXCEPT !.status = "walkover", !.started = FALSE],
  [MCReport EXCEPT !.match = "m2", !.b = "r", !.date = 2],
  [MCReport EXCEPT !.match = "m2", !.b = "r", !.date = 2, !.resolved = FALSE, !.anomaly = TRUE],
  [MCReport EXCEPT !.match = "m3", !.date = 0, !.singles = FALSE]}
MCWeight == <<>> @@ (0 :> 4) @@ (1 :> 3) @@ (2 :> 2)
MCCoverages == {[tour |-> "atp", complete |-> TRUE, exact |-> FALSE, verified |-> 0],
                [tour |-> "atp", complete |-> FALSE, exact |-> FALSE, verified |-> 0]}
MCAssertions == {[complete |-> TRUE, player |-> "p", asserted |-> 0, manifest |-> "source"]}

-----------------------------------------------------------------------------
\* Two components, one of them with effects of the returner, and players that
\* some of the effects are unseen for.
MCComponents == <<"F", "A">>
MCWithReturner == {"A"}
MCUnseen == {{}, {<<"A", <<"a", "server hard">>>>}, {<<"F", Event>>, <<"A", <<"b", "returner">>>>},
  {<<c, <<"a", r>>>> : c \in {"F", "A"}, r \in ServerRoles}}
MCAway == {[shrunk |-> s, inflated |-> i] : s \in SUBSET Sides, i \in SUBSET Sides}
MCMatchups == {[shrunk |-> w.shrunk, inflated |-> w.inflated, unseen |-> u, strength |-> g,
                scenarios |-> n] :
   w \in {x \in MCAway : x.inflated \subseteq x.shrunk}, u \in MCUnseen, g \in BOOLEAN,
   n \in {("a" :> 0) @@ ("b" :> 0), ("a" :> 1) @@ ("b" :> 2)}}

-----------------------------------------------------------------------------
\* Two tours with two of the serve components; of the men also a fit of another
\* run, a duration fit that did not converge, and an integration trained on
\* outcomes after the cutoff.
MCFit(kind, tour, cutoff) ==
  [kind |-> kind, tour |-> tour, cutoff |-> cutoff, run |-> 1, converged |-> TRUE]
MCTourOrder == <<"ATP", "WTA">>
MCServe == {"F", "D"}
MCLaterFits ==
  {MCFit("anchor", tour, 3) : tour \in {"ATP", "WTA"}} \cup {MCFit("integration", "ATP", 1)}
MCExposed == {MCFit("anchor", "ATP", 3)}
MCFits ==
  MCLaterFits
  \cup {MCFit(kind, tour, 2) : kind \in MCServe \cup {"retirement", "duration", "anchor"},
                               tour \in {"ATP", "WTA"}}
  \cup {MCFit("integration", "WTA", 2), MCFit("integration", "ATP", 3),
        [MCFit("D", "ATP", 2) EXCEPT !.run = 2],
        MCFit("retirement", "ATP", 1),
        [MCFit("duration", "ATP", 2) EXCEPT !.converged = FALSE]}

-----------------------------------------------------------------------------
\* Matches of both tours: one that two day feeds list, and one of a player
\* whose name the history has twice.
MCFeedDays == {1, 2}
MCTourOf == ("men" :> "ATP") @@ ("women" :> "WTA") @@ ("late" :> "WTA") @@ ("same" :> "ATP")
MCListed == (1 :> {"men", "late", "same"}) @@ (2 :> {"women", "late"})
MCSidesOf == ("men" :> <<"u1", "u2">>) @@ ("women" :> <<"u3", "u4">>) @@
             ("late" :> <<"u3", "u5">>) @@ ("same" :> <<"u1", "u6">>)
MCNameOf == ("u1" :> "al") @@ ("u2" :> "bo") @@ ("u3" :> "cy") @@ ("u4" :> "di") @@
            ("u5" :> "em") @@ ("u6" :> "fi")
MCHistorical == ("al" :> {"al"}) @@ ("bo" :> {}) @@ ("cy" :> {"cy"}) @@ ("di" :> {"di"}) @@
                ("em" :> {}) @@ ("fi" :> {"fi1", "fi2"})
MCOutcome == [code |-> "D", winner |-> 1, entry |-> "whole", payload |-> "full"]
MCOutcomesOf ==
  ("men" :> {MCOutcome, [MCOutcome EXCEPT !.entry = "no side"]}) @@
  ("women" :> {MCOutcome, [MCOutcome EXCEPT !.code = "E", !.winner = 2],
               [MCOutcome EXCEPT !.payload = "partial"]}) @@
  ("late" :> {MCOutcome, [MCOutcome EXCEPT !.entry = "no time"],
              [MCOutcome EXCEPT !.payload = "malformed"]}) @@
  ("same" :> {MCOutcome})

-----------------------------------------------------------------------------
\* An event of four players and three rounds, one of them new, and files with
\* a match listed twice, a retirement, a challenger and a match of the day of
\* the cutoff.
MCEloRow(date, num, winner, loser) ==
  [date |-> date, event |-> 1, num |-> num, surface |-> "hard", level |-> "main",
   score |-> "completed", winner |-> winner, loser |-> loser]
MCClayRow == [MCEloRow(1, 2, "i2", "i1") EXCEPT !.surface = "clay"]
MCHistories ==
  {<<MCEloRow(2, 1, "i1", "i2"), MCClayRow, MCEloRow(2, 1, "i1", "i2"),
     [MCEloRow(2, 3, "i3", "i1") EXCEPT !.score = "retired"]>>,
   <<MCEloRow(1, 1, "i3", "i1"), MCEloRow(1, 2, "i3", "i2"),
     [MCEloRow(1, 0, "i2", "i1") EXCEPT !.event = 2],
     [MCEloRow(2, 2, "i2", "i3") EXCEPT !.level = "challenger"],
     MCEloRow(3, 1, "i2", "i1")>>}
MCNames == ("i1" :> "al") @@ ("i2" :> "bo") @@ ("i3" :> "cy") @@
           ("i4" :> "di")
MCEventPairs ==
  (1 :> <<"i1", "i2">>) @@ (2 :> <<"i3", "i4">>) @@
  (3 :> <<"i1", "i3">>) @@ (4 :> <<"i2", "i3">>) @@ (5 :> <<"i2", "i4">>) @@
  (6 :> <<"i1", "i4">>)
MCRoundOf == (1 :> 1) @@ (2 :> 1) @@ (3 :> 2) @@ (4 :> 2) @@ (5 :> 2) @@ (6 :> 3)
MCEventEndings == [code : {"D", "E"}, winner : {1, 2}]

-----------------------------------------------------------------------------
VARIABLE program

CONSTANT Programs   \* the programs of this run

Nothing == [candidates |-> <<>>, equivalent |-> {}]
ProgramInit ==
  /\ program \in Programs
  /\ RallyInit /\ (program # "rally" => captures = [u \in Updaters |-> Nothing])
  /\ HistoryInit
  /\ SamplingInit /\ (program # "sampling" => matchup = CHOOSE m \in MCMatchups : TRUE)
  /\ LockInit /\ (program # "lock" => world = CHOOSE w \in MCWorlds : TRUE)
  /\ Init
  /\ WalkInit /\ (program # "walk" => table = MCHistory)
  /\ EventInit
  /\ SnapshotInit
  /\ EloInit /\ (program # "elo" => rows = CHOOSE r \in MCHistories : TRUE)

ProgramNext ==
  /\ UNCHANGED program
  /\ \/ /\ program = "rally" /\ RallyNext
        /\ UNCHANGED <<historyVars, samplingVars, lockVars, vars,
                       walkVars, eventVars, snapshotVars, eloVars>>
     \/ /\ program = "history" /\ HistoryNext
        /\ UNCHANGED <<rallyVars, samplingVars, lockVars, vars,
                       walkVars, eventVars, snapshotVars, eloVars>>
     \/ /\ program = "sampling" /\ SamplingNext
        /\ UNCHANGED <<rallyVars, historyVars, lockVars, vars,
                       walkVars, eventVars, snapshotVars, eloVars>>
     \/ /\ program = "lock" /\ LockNext
        /\ UNCHANGED <<rallyVars, historyVars, samplingVars, vars,
                       walkVars, eventVars, snapshotVars, eloVars>>
     \/ /\ program = "store" /\ Next
        /\ UNCHANGED <<rallyVars, historyVars, samplingVars, lockVars,
                       walkVars, eventVars, snapshotVars, eloVars>>
     \/ /\ program = "walk" /\ WalkNext
        /\ UNCHANGED <<rallyVars, historyVars, samplingVars, lockVars,
                       vars, eventVars, snapshotVars, eloVars>>
     \/ /\ program = "event" /\ EventNext
        /\ UNCHANGED <<rallyVars, historyVars, samplingVars, lockVars,
                       vars, walkVars, snapshotVars, eloVars>>
     \/ /\ program = "snapshots" /\ SnapshotNext
        /\ UNCHANGED <<rallyVars, historyVars, samplingVars, lockVars,
                       vars, walkVars, eventVars, eloVars>>
     \/ /\ program = "elo" /\ EloNext
        /\ UNCHANGED <<rallyVars, historyVars, samplingVars, lockVars,
                       vars, walkVars, eventVars, snapshotVars>>

ProgramSpec ==
  ProgramInit /\ [][ProgramNext]_<<program, rallyVars, historyVars, samplingVars, lockVars,
                                   vars, walkVars, eventVars, snapshotVars, eloVars>>
=============================================================================
