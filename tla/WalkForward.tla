----------------------------- MODULE WalkForward -----------------------------
(***************************************************************************)
(* The v1.1 walk-forward backtest (calibration/v1_1_backtest.py) of one    *)
(* tour: base forecasts are made month by month, each from what was known  *)
(* when the month began, and kept in one file per month that a later run   *)
(* takes over; then, for every outer year, settings are selected and       *)
(* coefficients fitted on the base forecasts of the two years before it.   *)
(*                                                                         *)
(* A forecast is kept as the matches whose outcomes had a part in it.      *)
(* Instants are days, all months have MonthDays of them.                   *)
(***************************************************************************)
EXTENDS Naturals, FiniteSets

CONSTANTS Tables,        \* the matches the source files may hold
          MonthDays, MonthsInYear,
          Embargo,       \* result_embargo_days
          OuterYears,
          MinSettled,    \* an integration fit needs at least so many
          MaxCrashes

ASSUME WalkForwardAssumption ==
  /\ MonthDays \in Nat \ {0} /\ MonthsInYear \in Nat \ {0} /\ Embargo \in Nat \ {0}
  /\ MinSettled \in Nat
  /\ \A y \in OuterYears : y \in Nat /\ y >= 3
  /\ \E y \in OuterYears : \A z \in OuterYears : y <= z
  /\ \E y \in OuterYears : \A z \in OuterYears : y >= z

VARIABLES table,    \* [id, start, fileYear, outcome (eligible), counts (complete)]
          parts,    \* forecast_parts, by month
          caches,   \* cache, by month
          forecasts,    \* cross_fitted_base_forecasts
          outerParts,   \* outer_parts/<tour>-<year>.parquet
          selections,   \* and .json
          running,    \* of the run under way: "idle", "months", "folds", ...
          month,    \* the month it has reached
          finished,   \* fold_level_forecasts of the last run that finished
          crashes

walkVars == <<table, parts, caches, forecasts, outerParts, selections, running, month,
              finished, crashes>>

\* A file may be there with its contents, or cut short by a crash: empty, or
\* with only a piece of them.
NoFile == [kind |-> "absent", rows |-> {}]
Empty == [kind |-> "empty", rows |-> {}]
Torn == [kind |-> "torn", rows |-> {}]
Whole(rows) == [kind |-> "whole", rows |-> rows]
\* Fault: that a file is there is enough.
IsThere(file) == file # NoFile
Readable(file) == file.kind = "whole"

-----------------------------------------------------------------------------
MonthOf(day) == (day \div MonthDays) + 1
CutoffOf(m) == (m - 1) * MonthDays
NewYear(year) == CutoffOf(((year - 1) * MonthsInYear) + 1)
FirstYear == (CHOOSE y \in OuterYears : \A z \in OuterYears : y <= z) - 2
LastYear == CHOOSE y \in OuterYears : \A z \in OuterYears : y >= z
Months == (((FirstYear - 1) * MonthsInYear) + 1)..(LastYear * MonthsInYear)

AvailableAt(x) == x.start + Embargo
EvaluationEligible(x) == x.outcome /\ x.counts
\* The matches forecast at a cutoff, and those a model may be fitted on.
Target(m) == {x \in table : EvaluationEligible(x) /\ MonthOf(x.start) = m}
Known(cutoff) == {x \in table : x.outcome /\ AvailableAt(x) < cutoff}

BaseForecast(x, m) == [match |-> x, cutoff |-> CutoffOf(m), used |-> Known(CutoffOf(m))]
MonthRows(m) == {BaseForecast(x, m) : x \in Target(m)}

\* The file of a season begins after that of the season before: no match in it
\* is known when a match of the earlier file is forecast.
ASSUME SeasonsAssumption ==
  \A t \in Tables : \A x \in t :
    /\ x.start \in Nat /\ x.fileYear \in Nat
    /\ \A y \in t : x.fileYear < y.fileYear => CutoffOf(MonthOf(x.start)) <= AvailableAt(y)

-----------------------------------------------------------------------------
\* construct_outer_variants: folds are by the year of the file a match is in.
OfYear(rows, year) == {r \in rows : r.match.fileYear = year}
FoldEmpty(rows, year) == \E y \in (year - 2)..year : OfYear(rows, y) = {}
\* _fit_integration, and its inputs before and after selection.
Integrated(rows, cutoff) == {r \in rows : AvailableAt(r.match) < cutoff}
\* Fault: the outer year is fitted on, too.
SettingsWithOuter(rows, year) ==
  UNION {OfYear(rows, y) : y \in (year - 2)..year}
SettingsOf(rows, year) ==
  LET train == OfYear(rows, year - 2)
      validation == OfYear(rows, year - 1)
  IN  validation \cup Integrated(train, NewYear(year - 1))
        \cup Integrated(train \cup validation, NewYear(year))
IntegrationFails(rows, year) ==
  LET train == OfYear(rows, year - 2)
      validation == OfYear(rows, year - 1)
  IN  \/ Cardinality(Integrated(train, NewYear(year - 1))) < MinSettled
      \/ Cardinality(Integrated(train \cup validation, NewYear(year))) < MinSettled
FoldRefused(rows, year) == FoldEmpty(rows, year) \/ IntegrationFails(rows, year)
Fold(rows, year) ==
  {[match |-> r.match, cutoff |-> r.cutoff, fold |-> year,
    used |-> r.used \cup {s.match : s \in SettingsOf(rows, year)}
                    \cup UNION {s.used : s \in SettingsOf(rows, year)},
    settings |-> {s.match : s \in SettingsOf(rows, year)}] : r \in OfYear(rows, year)}

-----------------------------------------------------------------------------
WalkInit ==
  /\ table \in Tables
  /\ parts = [m \in Months |-> NoFile] /\ caches = [m \in Months |-> NoFile]
  /\ forecasts = NoFile
  /\ outerParts = [y \in OuterYears |-> NoFile] /\ selections = {}
  /\ running = "idle" /\ month = 0 /\ finished = NoFile /\ crashes = 0

filesUnchanged == UNCHANGED <<table, forecasts, outerParts, selections, finished, crashes>>

StartRun ==
  /\ running = "idle"
  /\ running' = "months"
  /\ month' = CHOOSE m \in Months : \A k \in Months : m <= k
  /\ UNCHANGED <<parts, caches>> /\ filesUnchanged

\* Whatever is there is taken for the forecasts of the month.
SkipMonth ==
  /\ running = "months" /\ month \in Months /\ parts[month] # NoFile
  /\ month' = month + 1
  /\ UNCHANGED <<parts, caches, running>> /\ filesUnchanged

\* A month without a match to forecast gets a file without rows.
EmptyMonth ==
  /\ running = "months" /\ month \in Months /\ parts[month] = NoFile /\ Target(month) = {}
  /\ parts' = [parts EXCEPT ![month] = Whole({})]
  /\ month' = month + 1
  /\ UNCHANGED <<caches, running>> /\ filesUnchanged

\* The component forecasts are fitted and kept, or read from the cache; what
\* was cut short cannot be read and ends the run.
FitMonth ==
  /\ running = "months" /\ month \in Months /\ parts[month] = NoFile /\ Target(month) # {}
  /\ \/ /\ caches[month] = NoFile
        /\ Known(CutoffOf(month)) # {}
        /\ caches' = [caches EXCEPT ![month] = Whole(MonthRows(month))]
        /\ running' = "forecast"
     \/ /\ caches[month] = NoFile
        /\ Known(CutoffOf(month)) = {}
        /\ running' = "idle" /\ UNCHANGED caches
     \/ /\ caches[month] # NoFile
        /\ running' = IF Readable(caches[month]) THEN "forecast" ELSE "idle"
        /\ UNCHANGED caches
  /\ UNCHANGED <<parts, month>> /\ filesUnchanged

WriteMonth ==
  /\ running = "forecast"
  /\ parts' = [parts EXCEPT ![month] = Whole(caches[month].rows)]
  /\ running' = "months" /\ month' = month + 1
  /\ UNCHANGED caches /\ filesUnchanged

\* The files are put together: one of no bytes is passed over.
Collect ==
  /\ running = "months" /\ month \notin Months
  /\ LET rows == UNION {parts[m].rows : m \in Months}
     IN  IF rows = {} \/ \E m \in Months : parts[m].kind = "torn"
         THEN running' = "idle" /\ UNCHANGED forecasts
         ELSE running' = "folds" /\ forecasts' = Whole(rows)
  /\ UNCHANGED <<table, parts, caches, outerParts, selections, month, finished, crashes>>

\* The outer years that other processes have done are taken over if all of
\* them are there; a selection that is missing ends the run.
FinishRun ==
  /\ running = "folds"
  /\ running' = "idle"
  /\ IF \A y \in OuterYears : outerParts[y] # NoFile
     THEN finished' = IF OuterYears \subseteq selections
                    THEN Whole(UNION {outerParts[y].rows : y \in OuterYears}) ELSE finished
     ELSE finished' = IF \E y \in OuterYears : FoldRefused(forecasts.rows, y) THEN finished
                    ELSE Whole(UNION {Fold(forecasts.rows, y) : y \in OuterYears})
  /\ UNCHANGED <<table, parts, caches, forecasts, outerParts, selections, month, crashes>>

\* run_v1_1_outer_shard: the forecasts are published first, then the selection.
OuterShard(year) ==
  /\ forecasts # NoFile /\ ~ FoldRefused(forecasts.rows, year)
  /\ outerParts' = [outerParts EXCEPT ![year] = Whole(Fold(forecasts.rows, year))]
  /\ UNCHANGED <<table, parts, caches, forecasts, selections, running, month, finished, crashes>>
PublishSelection(year) ==
  /\ outerParts[year] # NoFile
  /\ selections' = selections \cup {year}
  /\ UNCHANGED <<table, parts, caches, forecasts, outerParts, running, month, finished, crashes>>

\* The process ends, maybe while it writes the file it has just begun.
CrashRun ==
  /\ running # "idle" /\ crashes < MaxCrashes
  /\ crashes' = crashes + 1 /\ running' = "idle"
  /\ \/ UNCHANGED <<parts, caches>>
     \/ \E cut \in {Empty, Torn} :
          /\ running = "months" /\ month \in Months
          /\ parts[month] = NoFile /\ caches[month] = NoFile /\ Target(month) # {}
          /\ Known(CutoffOf(month)) # {}
          /\ caches' = [caches EXCEPT ![month] = cut]
          /\ UNCHANGED parts
     \/ \E cut \in {Empty, Torn} :
          /\ \/ running = "forecast"
             \/ running = "months" /\ month \in Months /\ parts[month] = NoFile
                /\ Target(month) = {}
          /\ parts' = [parts EXCEPT ![month] = cut]
          /\ UNCHANGED caches
  /\ UNCHANGED <<table, forecasts, outerParts, selections, month, finished>>

WalkNext ==
  \/ StartRun \/ SkipMonth \/ EmptyMonth \/ FitMonth \/ WriteMonth \/ Collect \/ FinishRun
  \/ \E year \in OuterYears : OuterShard(year) \/ PublishSelection(year)
  \/ CrashRun

WalkSpec == WalkInit /\ [][WalkNext]_walkVars

-----------------------------------------------------------------------------
\* A base forecast rests on events that were over and published before its
\* month began.  The settings and coefficients of an outer year rest on the
\* two years before it, never on an outcome of the year they are used for,
\* and no forecast on the outcome it is about.
FoldsApart ==
  /\ \A m \in Months : \A r \in parts[m].rows : \A x \in r.used :
       x.start + Embargo < r.cutoff /\ MonthOf(x.start) < m
  /\ \A r \in finished.rows :
       /\ r.match \notin r.used
       /\ \A x \in r.settings : x.fileYear \in {r.fold - 2, r.fold - 1}

\* Whatever was interrupted and taken over on the way, a run that finishes has
\* the forecasts that one run from nothing has; the exception is a month whose
\* file a crash left without a byte, which is passed over without a word.
FinishedRunIsWhole ==
  LET fresh == UNION {MonthRows(m) : m \in Months}
  IN  /\ finished # NoFile /\ Empty \notin {parts[m] : m \in Months}
        => finished = Whole(UNION {Fold(fresh, y) : y \in OuterYears})
      /\ \A m \in Months : parts[m].kind = "whole" => parts[m].rows = MonthRows(m)

\* What the backtest plan says of every forecast: an event has a part in it only
\* once its embargo is over before the forecast's own monthly cutoff.
EmbargoKept ==
  \A r \in finished.rows : \A x \in r.used : AvailableAt(x) < r.cutoff
=============================================================================
