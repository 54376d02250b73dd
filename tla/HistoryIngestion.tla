-------------------------- MODULE HistoryIngestion --------------------------
(***************************************************************************)
(* From the rows of a source to what a fit may be trained on:              *)
(* ingest_sackmann_snapshot reads one pinned snapshot under an information *)
(* cutoff.  A snapshot is dated either as it was published (the vintage    *)
(* policy: a row is known a declared lag after its event began, and not    *)
(* before the snapshot itself was available) or in retrospect (the         *)
(* finalized policy: a row is used once an exact date proves that its      *)
(* match was over).  Its rows are then validated, and the matches that are *)
(* left give one service row for each player.                              *)
(*                                                                         *)
(* Rows are appended to the source over time, corrections and repetitions  *)
(* included; instants are days.                                            *)
(***************************************************************************)
EXTENDS DateCrosswalk, FiniteSetsExt, SequencesExt

CONSTANTS RawRows,      \* what a row of the source may say
          Results,      \* the tables the second source may be
          AvailabilityLag,
          LastDay,
          CoverageDays, \* verified_coverage
          MaxRows, MaxDatasets

ASSUME IngestionAssumption ==
  /\ AvailabilityLag \in Nat \ {0} /\ LastDay \in Nat
  /\ \A r \in RawRows : r.start \in Nat
  /\ \A table \in Results :
       /\ Len(table) \in Nat /\ DOMAIN table = 1..Len(table)
       /\ \A j \in DOMAIN table : table[j].date \in Nat

VARIABLES today,
          source,    \* the rows published so far
          others,    \* the second source
          pinned,    \* the crosswalk the finalized policy names, if any
          datasets   \* what has been ingested

ingestionVars == <<today, source, others, pinned, datasets>>

NoCrosswalk == Crosswalk(<<>>, <<>>)
NoPlayer == "no id"

-----------------------------------------------------------------------------
\* Which rows are read at all: before anything but their dates is.
AvailableFrom(row, published) == Max({row.start + AvailabilityLag, published})
RawBeforeCutoff(snapshot, cutoff) ==
  {i \in DOMAIN snapshot.rows :
     /\ snapshot.rows[i].start # Unreadable
     /\ AvailableFrom(snapshot.rows[i], snapshot.published) < cutoff}
\* Fault: the day itself will do.
CompletedThatDay(date) == date
\* conservative_match_completion_utc: the day after.
CompletedBy(date) == date + 1
RawFinalized(crosswalk, cutoff) ==
  {i \in DOMAIN crosswalk.date :
     /\ crosswalk.status[i] = "matched"
     /\ CompletedBy(crosswalk.date[i]) <= cutoff}

-----------------------------------------------------------------------------
\* normalize_player_service_rows, over the rows that were read.
IdentityKnown(row) ==
  NoPlayer \notin {row.winner, row.loser} /\ row.winner # row.loser
Identified(rows, read) == {i \in read : IdentityKnown(rows[i])}
SameKey(x, y) == x.event = y.event /\ x.number = y.number
\* Fault: duplicates are looked for in the whole table.
ComparedWithAll(rows, read) == Identified(rows, DOMAIN rows)
ComparedRows(rows, read) == Identified(rows, read)

\* detect_match_duplicate_groups: an exact repetition keeps its first row,
\* anything else under one key keeps none.
KeyGroup(rows, compared, i) == {k \in compared : SameKey(rows[k], rows[i])}
ExactRepetition(rows, group) == \A k, l \in group : rows[k] = rows[l]
Duplicate(rows, compared, i) ==
  LET group == KeyGroup(rows, compared, i)
  IN  /\ Cardinality(group) > 1
      /\ ExactRepetition(rows, group) => i # Min(group)
Fatal(row) == row.start = Unreadable \/ row.score = "invalid"
AcceptedMatches(rows, read) ==
  {i \in Identified(rows, read) :
     /\ ~ Duplicate(rows, ComparedRows(rows, read), i)
     /\ ~ Fatal(rows[i]) /\ rows[i].score # "walkover"}

ServiceRow(row, published, date, side) ==
  [match |-> <<row.event, row.number>>, side |-> side,
   player |-> IF side = "winner" THEN row.winner ELSE row.loser,
   opponent |-> IF side = "winner" THEN row.loser ELSE row.winner,
   sourceDate |-> row.start, matchDate |-> date,
   available |-> AvailableFrom(row, published)]
ServiceRows(snapshot, read, date) ==
  {ServiceRow(snapshot.rows[i], snapshot.published, date[i], side) :
     i \in AcceptedMatches(snapshot.rows, read), side \in {"winner", "loser"}}

\* validate_symmetric_service_rows
Symmetric(rows) ==
  \A x \in rows :
    LET pair == {y \in rows : y.match = x.match}
    IN  /\ Cardinality(pair) = 2 /\ x.player # x.opponent
        /\ \E y \in pair : y.player = x.opponent /\ y.opponent = x.player
                           /\ y.side # x.side

\* select_historical_training_rows, once more over whole matches.
MatchRows(rows, x) == {y \in rows : y.match = x.match}
GuardVintage(rows, cutoff) ==
  {x \in rows :
     /\ \A y \in MatchRows(rows, x) : y.available = x.available
     /\ x.available < cutoff}
GuardFinalized(rows, cutoff) ==
  {x \in rows :
     /\ \A y \in MatchRows(rows, x) : y.matchDate = x.matchDate
     /\ x.matchDate # Unreadable /\ CompletedBy(x.matchDate) <= cutoff}
Guarded(rows, cutoff, policy) ==
  IF policy = "vintage" THEN GuardVintage(rows, cutoff) ELSE GuardFinalized(rows, cutoff)

\* What an ingestion of a snapshot gives; a guard that finds anything left
\* to reject refuses the whole of it.
DatesOf(snapshot, policy, crosswalk) ==
  IF policy = "finalized" THEN crosswalk.date
                          ELSE [i \in DOMAIN snapshot.rows |-> Unreadable]
Read(snapshot, cutoff, policy, crosswalk) ==
  IF policy = "vintage" THEN RawBeforeCutoff(snapshot, cutoff)
                        ELSE RawFinalized(crosswalk, cutoff)
Dataset(snapshot, cutoff, policy, crosswalk) ==
  LET rows == ServiceRows(snapshot, Read(snapshot, cutoff, policy, crosswalk),
                          DatesOf(snapshot, policy, crosswalk))
      kept == Guarded(rows, cutoff, policy)
  IN  [snapshot |-> snapshot, cutoff |-> cutoff, policy |-> policy,
       rows |-> kept,
       refused |-> rows # kept \/ ~ Symmetric(rows)]

\* _validate_declared_coverage
Covered(rows) ==
  \A i \in DOMAIN rows : rows[i].start # Unreadable => rows[i].start \in CoverageDays

-----------------------------------------------------------------------------
IngestionInit ==
  /\ today = 1 /\ source = <<>> /\ others \in Results /\ pinned = NoCrosswalk
  /\ datasets = {}

NextDay ==
  /\ today < LastDay
  /\ today' = today + 1
  /\ UNCHANGED <<source, others, pinned, datasets>>

\* The source publishes a row of an event that has begun.
Publish(row) ==
  /\ Len(source) < MaxRows /\ row.start <= today
  /\ source' = Append(source, row)
  /\ UNCHANGED <<today, others, pinned, datasets>>

\* A crosswalk is built for the table as it is, and the policy pins it.
PinCrosswalk ==
  /\ source # <<>>
  /\ pinned' = Crosswalk(source, others)
  /\ pinned' # pinned
  /\ UNCHANGED <<today, source, others, datasets>>

\* published is 0 where the pin declares no source_available_at_utc; the
\* finalized policy does not look at it.
Ingest(published, cutoff, policy) ==
  /\ Cardinality(datasets) < MaxDatasets
  /\ source # <<>> /\ Covered(source)
  /\ policy = "finalized" =>
       pinned # NoCrosswalk /\ pinned.table = source /\ published = 0
  /\ LET snapshot == [rows |-> source, published |-> published]
     IN  datasets' = datasets \cup
           {Dataset(snapshot, cutoff, policy,
                    IF policy = "finalized" THEN pinned ELSE NoCrosswalk)}
  /\ UNCHANGED <<today, source, others, pinned>>

IngestionNext ==
  \/ NextDay
  \/ \E row \in RawRows : Publish(row)
  \/ PinCrosswalk
  \/ \E published \in {0, today}, cutoff \in 1..(today + 1),
        policy \in {"vintage", "finalized"} : Ingest(published, cutoff, policy)

IngestionSpec == IngestionInit /\ [][IngestionNext]_ingestionVars

-----------------------------------------------------------------------------
\* A dataset keeps to its cutoff and is never refused by the second guard:
\* what is in it was known, or was over, before; every match is there once,
\* with both players, whatever was repeated or corrected around it.
TrainingKeepsToCutoff ==
  \A d \in datasets :
    /\ ~ d.refused
    /\ \A x \in d.rows :
         /\ d.policy = "vintage" =>
              /\ x.sourceDate + AvailabilityLag < d.cutoff
              /\ d.snapshot.published < d.cutoff
         /\ d.policy = "finalized" => x.matchDate < d.cutoff

\* The past does not change with what is published after it: a vintage
\* dataset is the one the rows before its cutoff give by themselves, and a
\* snapshot of what the source says by now gives the same matches for the same
\* cutoff, unless one of its new rows was itself available then.
EarlierHistoryStable ==
  \A d \in {e \in datasets : e.policy = "vintage"} :
    LET Early(row) == row.start # Unreadable
                      /\ AvailableFrom(row, d.snapshot.published) < d.cutoff
        From(rows) == Dataset([d.snapshot EXCEPT !.rows = rows], d.cutoff, "vintage",
                              NoCrosswalk).rows
        given == d.snapshot.rows
    IN  /\ d.rows = From(Restrict(given, {i \in DOMAIN given : Early(given[i])}))
        /\ (\A i \in DOMAIN source : i > Len(given) => ~ Early(source[i]))
             => d.rows = From(source)

\* The second source may be speaking of this match: its players, its days, the
\* round that is expected of it, and nothing both sources say differs.
MayBe(row, other) ==
  /\ SamePlayers(row, other) /\ InWindow(row, other)
  /\ row.round \in {Unknown, other.round}
  /\ \A said \in {"surface", "bestOf", "sets"} :
       Unknown \notin {row[said], other[said]} => row[said] = other[said]

\* A date is never shared or guessed: two matches are not dated by one row of
\* the second source, a match is dated by a row that may be of it, and by the
\* only such row: where its own row is one, by that.  A row that leaves out the
\* round the match is expected in is none, so that a match whose own row does
\* may be dated by another.
DatesAreTheirOwn ==
  pinned # NoCrosswalk =>
    LET Of(i) == JoinedWith(pinned.table[i], pinned.others)
        dated == {i \in DOMAIN pinned.table : pinned.date[i] # Unreadable}
    IN  /\ \A i, k \in dated : Of(i) = Of(k) => i = k
        /\ \A i \in dated :
             /\ Of(i) \in DOMAIN pinned.others
             /\ pinned.date[i] = pinned.others[Of(i)].date
             /\ \A j \in DOMAIN pinned.others :
                  MayBe(pinned.table[i], pinned.others[j]) <=> Of(i) = j
=============================================================================
