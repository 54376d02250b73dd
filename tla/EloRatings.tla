----------------------------- MODULE EloRatings -----------------------------
(***************************************************************************)
(* Surface Elo ratings: build_current_elo_snapshot.py rates every player   *)
(* from the rows of annual and running files before a cutoff,              *)
(* update_usopen_r64_elo.py takes that table through the first rounds of   *)
(* an event from a capture of the official feeds, and elo.py imports a     *)
(* table and predicts from it.  Ratings are in whole points, and the       *)
(* effective rating, the mean of two, is kept as their sum.                *)
(***************************************************************************)
EXTENDS Integers, Sequences, FiniteSets, FiniteSetsExt

CONSTANTS Histories,     \* the rows the files may hold (a set of sequences)
          Names,         \* [player id -> normalised name]
          EventPairs,    \* [match of the event -> <<player id, player id>>]
          RoundOf,       \* [match of the event -> its round]
          EventEndings,  \* how a match of the event may end: [code, winner]
          EventDate, EventId, CutoffDate, EventSurface,
          Surfaces,
          InitialElo, Scale, CurveSteps,    \* the points of a win are 1..2 * CurveSteps - 1
          Unplayed,      \* no result yet
          MaxAdvances    \* bound of the model

EventGames == DOMAIN EventPairs
EligibleRounds == {1, 2}

\* The files know each player by one id and no player plays against itself; the
\* matches of the event are numbered round by round, and none is before the
\* cutoff; the points of a win are whole.
EloAssumption ==
  /\ \A a, b \in DOMAIN Names : Names[a] = Names[b] => a = b
  /\ \A files \in Histories :
       /\ files \in Seq({files[i] : i \in DOMAIN files})
       /\ \A i \in DOMAIN files :
            /\ files[i].date \in Int /\ files[i].event \in Int /\ files[i].num \in Int
            /\ {files[i].winner, files[i].loser} \subseteq DOMAIN Names
            /\ files[i].winner # files[i].loser
  /\ IsFiniteSet(EventGames) /\ EventGames \subseteq Nat \ {0}
  /\ \A m \in EventGames :
       /\ {EventPairs[m][1], EventPairs[m][2]} \subseteq DOMAIN Names
       /\ EventPairs[m][1] # EventPairs[m][2]
       /\ RoundOf[m] \in Int
       /\ \A k \in EventGames : RoundOf[m] < RoundOf[k] => m < k
  /\ \A e \in EventEndings : e.winner \in {1, 2}
  /\ CutoffDate \in Int /\ EventDate \in Int /\ CutoffDate <= EventDate
  /\ EventId \in Int
  /\ EventSurface \in Surfaces
  /\ InitialElo \in Int /\ Scale \in Nat \ {0} /\ CurveSteps \in Int
ASSUME EloParameters == EloAssumption

\* The members of a set, from the first to the last in the order R.
Ordered(S, R) ==
  [k \in 1..Cardinality(S) |->
     CHOOSE x \in S : Cardinality({y \in S : <<y, x>> \in R}) = k - 1]

VARIABLES rows,       \* the rows of the files at the build
          results,    \* [match of the event -> its ending, or Unplayed]
          baseline,   \* the table of the build, or Unplayed
          advances    \* the captures the baseline was taken through, with the tables
eloVars == <<rows, results, baseline, advances>>

-----------------------------------------------------------------------------
\* A table maps player keys to states; a key is an id with where it is from.
NewPlayer(name) ==
  [name |-> name, global |-> InitialElo, surface |-> [s \in Surfaces |-> InitialElo],
   matches |-> 0, last |-> 0]
EffectiveElo(player, surface) == player.global + player.surface[surface]

\* K (1 - expected score): less for a win that was expected.  The logistic
\* curve is abstracted to steps of equal width.
WinPoints(gap) ==
  LET step == IF gap >= 0 THEN gap \div Scale ELSE -((-gap) \div Scale)
      near == IF step > CurveSteps - 1 THEN CurveSteps - 1
              ELSE IF step < 1 - CurveSteps THEN 1 - CurveSteps ELSE step
  IN  CurveSteps - near

Moved(player, surface, points, date) ==
  [player EXCEPT !.global = @ + points, !.surface[surface] = @ + points,
                 !.matches = @ + 1, !.last = IF date > @ THEN date ELSE @]
\* Both sides move by the same points, computed before either has moved.
Rate(table, winner, loser, surface, date) ==
  LET points == WinPoints(EffectiveElo(table[winner], surface)
                            - EffectiveElo(table[loser], surface))
  IN  [table EXCEPT ![winner] = Moved(@, surface, points, date),
                    ![loser] = Moved(@, surface, -points, date)]

KnowPlayer(table, key, player) ==
  [k \in DOMAIN table \cup {key} |-> IF k \in DOMAIN table THEN table[k] ELSE player]

-----------------------------------------------------------------------------
\* build_ratings.
MainTour == {"main"}
EligibleRow(row, cutoff) ==
  /\ row.date < cutoff /\ row.surface \in Surfaces
  /\ row.level \in MainTour /\ row.score = "completed"
RowKey(row) == <<row.date, row.event, row.num, row.winner, row.loser>>
\* Rows of one event and number, which the sort key tells apart by round and
\* names, keep the order of the files here.
RowBefore(r, s) ==
  \/ r.date < s.date
  \/ r.date = s.date /\ \/ r.event < s.event
                        \/ r.event = s.event /\ r.num < s.num

\* The rows in the order of match_sort_key, those of one match once.  The rows
\* of the files are known by where they stand.
RatedAt(all, cutoff) ==
  {i \in DOMAIN all :
     /\ EligibleRow(all[i], cutoff)
     /\ \A j \in DOMAIN all :
          j < i /\ EligibleRow(all[j], cutoff) => RowKey(all[j]) # RowKey(all[i])}
RowOrder(all, at) ==
  {p \in at \X at :
     \/ RowBefore(all[p[1]], all[p[2]])
     \/ /\ ~RowBefore(all[p[2]], all[p[1]])
        /\ p[1] < p[2]}
RatedRows(all, cutoff) ==
  LET order == Ordered(RatedAt(all, cutoff), RowOrder(all, RatedAt(all, cutoff)))
  IN  [k \in DOMAIN order |-> all[order[k]]]

FileKey(id) == <<"id", id>>
RateRow(table, row) ==
  LET one == KnowPlayer(table, FileKey(row.winner), NewPlayer(Names[row.winner]))
      both == KnowPlayer(one, FileKey(row.loser), NewPlayer(Names[row.loser]))
  IN  Rate(both, FileKey(row.winner), FileKey(row.loser), row.surface, row.date)

\* The table after each of the rows.
RateRows(table, order) ==
  LET after[k \in 0..Len(order)] ==
        IF k = 0 THEN table ELSE RateRow(after[k - 1], order[k])
  IN  after[Len(order)]

NobodyRated == [k \in {} |-> NewPlayer("nobody")]
\* The entrants of the event no row names start with the initial rating.
EventEntrants == UNION {{EventPairs[m][1], EventPairs[m][2]} : m \in EventGames}
WithEntrants(table) ==
  LET known == {table[k].name : k \in DOMAIN table}
      fresh == {Names[id] : id \in EventEntrants} \ known
  IN  [k \in DOMAIN table \cup {<<"draw", n>> : n \in fresh} |->
         IF k \in DOMAIN table THEN table[k] ELSE NewPlayer(k[2])]
BuildRatings(all, cutoff) ==
  WithEntrants(RateRows(NobodyRated, RatedRows(all, cutoff)))

-----------------------------------------------------------------------------
\* update_usopen_r64_elo.  A capture has one object for each match that has
\* ended; an object whose contents are not one match is passed over.
MatchObject(m) == [match |-> m, round |-> RoundOf[m], ending |-> results[m]]
EventCapture(damaged) ==
  {MatchObject(m) : m \in {k \in EventGames : results[k] # Unplayed} \ damaged}

\* Fault: a match that ended early has a winner, too.
AnyEnding(object) == object.round \in EligibleRounds
CountsInAdvance(object) == object.round \in EligibleRounds /\ object.ending.code = "D"

AdvanceOrder(objects) ==
  Ordered(objects, {p \in objects \X objects :
                      \/ p[1].round < p[2].round
                      \/ p[1].round = p[2].round /\ p[1].match < p[2].match})

\* _resolve_row: of the rows with the name the one with the most matches, the
\* later one if they have the same; else a new row.
RowOfName(table, name) ==
  LET named == {k \in DOMAIN table : table[k].name = name}
  IN  CHOOSE k \in named : \A j \in named :
        \/ table[k].matches > table[j].matches
        \/ table[k].matches = table[j].matches /\ table[k].last >= table[j].last
ResolveRow(table, id) ==
  IF \E k \in DOMAIN table : table[k].name = Names[id]
  THEN RowOfName(table, Names[id]) ELSE <<"official", id>>

RateObject(table, object) ==
  LET sides == EventPairs[object.match]
      winner == ResolveRow(table, sides[object.ending.winner])
      one == KnowPlayer(table, winner, NewPlayer(Names[sides[object.ending.winner]]))
      loser == ResolveRow(one, sides[3 - object.ending.winner])
      both == KnowPlayer(one, loser, NewPlayer(Names[sides[3 - object.ending.winner]]))
  IN  Rate(both, winner, loser, EventSurface, EventDate)
RateObjects(table, order) ==
  LET after[k \in 0..Len(order)] ==
        IF k = 0 THEN table ELSE RateObject(after[k - 1], order[k])
  IN  after[Len(order)]
Advance(table, capture) ==
  RateObjects(table, AdvanceOrder({x \in capture : CountsInAdvance(x)}))

-----------------------------------------------------------------------------
\* elo.py: a table is imported row by row, with the ratings it has.  The match
\* data know none of its keys: a player is found by name, which must be that of
\* one row only, and is new otherwise.
Imported(ratings) == {[key |-> k, state |-> ratings[k]] : k \in DOMAIN ratings}
LookUp(fit, identity) ==
  LET named == {x \in fit : x.state.name = identity}
  IN  IF Cardinality(named) = 1 THEN named ELSE {}
PlayerRating(fit, identity, surface) ==
  IF LookUp(fit, identity) = {} THEN 2 * InitialElo
  ELSE EffectiveElo((CHOOSE x \in LookUp(fit, identity) : TRUE).state, surface)
PredictElo(fit, a, b, surface) ==
  [gap |-> PlayerRating(fit, a, surface) - PlayerRating(fit, b, surface),
   known |-> {x \in {a, b} : LookUp(fit, x) # {}}]

-----------------------------------------------------------------------------
EloInit ==
  /\ rows \in Histories
  /\ results = [m \in EventGames |-> Unplayed]
  /\ baseline = Unplayed /\ advances = {}

BuildSnapshot ==
  /\ baseline = Unplayed
  /\ baseline' = BuildRatings(rows, CutoffDate)
  /\ UNCHANGED <<rows, results, advances>>

\* A match of round n has players that came through round n - 1.
CameThrough(m, id) ==
  \A k \in EventGames :
    RoundOf[k] < RoundOf[m] /\ id \in {EventPairs[k][1], EventPairs[k][2]} =>
      results[k] # Unplayed /\ EventPairs[k][results[k].winner] = id
EndEventMatch(m) ==
  /\ baseline # Unplayed /\ results[m] = Unplayed
  /\ CameThrough(m, EventPairs[m][1]) /\ CameThrough(m, EventPairs[m][2])
  /\ \E e \in EventEndings : results' = [results EXCEPT ![m] = e]
  /\ UNCHANGED <<rows, baseline, advances>>

\* The update starts from the frozen baseline each time, and never from what
\* an earlier update made of it.
AdvanceEvent(damaged) ==
  /\ baseline # Unplayed /\ Cardinality(advances) < MaxAdvances
  /\ LET capture == EventCapture(damaged) IN
     /\ capture # {}
     /\ advances' = advances \cup
          {[capture |-> capture, table |-> Advance(baseline, capture)]}
  /\ UNCHANGED <<rows, results, baseline>>

EloNext ==
  \/ BuildSnapshot
  \/ \E m \in EventGames : EndEventMatch(m)
  \/ \E damaged \in {{}} \cup {{m} : m \in EventGames} : AdvanceEvent(damaged)
EloSpec == EloInit /\ [][EloNext]_eloVars

-----------------------------------------------------------------------------
(***************************************************************************)
(* Properties.                                                             *)
(***************************************************************************)

\* Taking the baseline through the first rounds predicts as a build would that
\* has the rows of those matches behind those before the cutoff: each completed
\* match once, in an order in which a player's second round comes after the
\* first, and nothing of a retirement or of a later round; provided the files
\* know each player by one id.  And whatever was rated, what one player won
\* another has lost.
FileRow(object) ==
  LET sides == EventPairs[object.match]
  IN  [date |-> EventDate, event |-> EventId, num |-> object.match,
       surface |-> EventSurface, level |-> "main",
       score |-> IF object.ending.code = "D" THEN "completed" ELSE "retired",
       winner |-> sides[object.ending.winner], loser |-> sides[3 - object.ending.winner]]
FilesWith(capture) ==
  LET played == {x \in capture : x.round \in EligibleRounds}
      past == {i \in DOMAIN rows : rows[i].date < CutoffDate}
  IN  [i \in past \cup {Len(rows) + x.match : x \in played} |->
         IF i \in past THEN rows[i]
         ELSE FileRow(CHOOSE x \in played : Len(rows) + x.match = i)]
Rebuilt(capture) == BuildRatings(FilesWith(capture), EventDate + 1)
EntrantNames == {Names[id] : id \in EventEntrants}
AdvanceIsRebuild ==
  \A update \in advances :
    LET rebuilt == Rebuilt(update.capture)
    IN  /\ \A a, b \in EntrantNames : a # b =>
             PredictElo(Imported(update.table), a, b, EventSurface) =
               PredictElo(Imported(rebuilt), a, b, EventSurface)
        /\ \A table \in {baseline, update.table} :
             MapThenSumSet(LAMBDA k : table[k].global - InitialElo, DOMAIN table) = 0
=============================================================================
