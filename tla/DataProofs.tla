------------------------------ MODULE DataProofs ------------------------------
(***************************************************************************)
(* Theorems about what is made of the source files: the scores that are    *)
(* accepted (HistoricalScore), the counts of a serve component             *)
(* (ServeCounts), the datasets of a cutoff (HistoryIngestion), the serve   *)
(* fits (ServeFit) and the nested walk-forward forecasts (WalkForward),    *)
(* for any texts and tables, any calendar and embargo, and any number of   *)
(* runs and crashes.                                                       *)
(***************************************************************************)
EXTENDS WalkForward, HistoryIngestion, HistoricalScore, ServeFit, ServeCounts, FiniteNumbers,
        SequenceTheorems, FiniteSetTheorems, TLAPS

(* Walk-forward forecasts *)

\* A month's file or cache is what its forecasts are, or a piece of it.
MonthFiles(m) == {NoFile, Empty, Torn, Whole(MonthRows(m))}
Passed(m) == parts[m] # NoFile

MonthsInv ==
  /\ parts = [m \in Months |-> parts[m]] /\ caches = [m \in Months |-> caches[m]]
  /\ \A m \in Months : parts[m] \in MonthFiles(m) /\ caches[m] \in MonthFiles(m)
  /\ running = "months" =>
       /\ month \in Months \/ \A m \in Months : m < month
       /\ \A m \in Months : m < month => Passed(m)
  /\ running = "forecast" =>
       /\ month \in Months /\ parts[month] = NoFile /\ caches[month] = Whole(MonthRows(month))
       /\ \A m \in Months : m < month => Passed(m)

\* What was put together of the files of all months stays so: none of them
\* is written again.
Collected == UNION {parts[m].rows : m \in Months}
CollectedInv ==
  /\ forecasts # NoFile =>
       /\ \A m \in Months : parts[m] \in {Empty, Whole(MonthRows(m))}
       /\ forecasts = Whole(Collected)
  /\ running = "folds" => forecasts # NoFile
  /\ outerParts = [y \in OuterYears |-> outerParts[y]]
  /\ \A y \in OuterYears : outerParts[y] # NoFile =>
       forecasts # NoFile /\ outerParts[y] = Whole(Fold(forecasts.rows, y))
  /\ finished # NoFile =>
       forecasts # NoFile
       /\ finished = Whole(UNION {Fold(forecasts.rows, y) : y \in OuterYears})

WalkInv == table \in Tables /\ MonthsInv /\ CollectedInv

-----------------------------------------------------------------------------
LEMMA FilesDiffer ==
  /\ NoFile # Empty /\ NoFile # Torn /\ Empty # Torn
  /\ \A rows : Whole(rows) \notin {NoFile, Empty, Torn} /\ Whole(rows).rows = rows
  /\ \A rows : Whole(rows).kind = "whole"
  /\ NoFile.kind = "absent" /\ Empty.kind = "empty" /\ Torn.kind = "torn"
  /\ NoFile.rows = {} /\ Empty.rows = {} /\ Torn.rows = {}
BY DEF NoFile, Empty, Torn, Whole

\* The months are an interval of numbers.
LEMMA MonthsInterval ==
  \E a, b \in Int : Months = a..b
<1>1. PICK y \in OuterYears : \A z \in OuterYears : y <= z
  BY WalkForwardAssumption
<1>2. PICK w \in OuterYears : \A z \in OuterYears : w >= z
  BY WalkForwardAssumption
<1>3. FirstYear \in Int /\ LastYear \in Int
  <2>1. (CHOOSE x \in OuterYears : \A z \in OuterYears : x <= z) \in OuterYears
    BY <1>1
  <2>2. (CHOOSE x \in OuterYears : \A z \in OuterYears : x >= z) \in OuterYears
    BY <1>2
  <2> QED BY <2>1, <2>2, WalkForwardAssumption DEF FirstYear, LastYear
<1>4. ((FirstYear - 1) * MonthsInYear) + 1 \in Int /\ LastYear * MonthsInYear \in Int
  BY <1>3, WalkForwardAssumption
<1> QED BY <1>4 DEF Months

LEMMA InvInit == WalkInit => WalkInv
<1> SUFFICES ASSUME WalkInit PROVE WalkInv OBVIOUS
<1>1. MonthsInv
  BY DEF WalkInit, MonthsInv, MonthFiles
<1>2. CollectedInv
  BY DEF WalkInit, CollectedInv
<1> QED BY <1>1, <1>2 DEF WalkInv, WalkInit

LEMMA MonthRowsKept ==
  ASSUME table' = table
  PROVE  \A m : MonthRows(m)' = MonthRows(m) /\ MonthFiles(m)' = MonthFiles(m)
<1>1. \A m : MonthRows(m)' = MonthRows(m)
  BY DEF MonthRows, Target, BaseForecast, Known
<1> QED BY <1>1 DEF MonthFiles

\* What was put together depends on the files of the months and on nothing
\* else that changes.
LEMMA CollectedKept ==
  ASSUME CollectedInv, table' = table, forecasts' = forecasts, outerParts' = outerParts,
         finished' = finished, running' = "folds" => running = "folds",
         \/ parts' = parts
         \/ \E m \in Months : parts[m] \notin {Empty, Whole(MonthRows(m))}
  PROVE  CollectedInv'
<1>1. forecasts # NoFile => parts' = parts
  BY DEF CollectedInv
<1>2. \A m : MonthRows(m)' = MonthRows(m)
  BY MonthRowsKept
<1> QED BY <1>1, <1>2 DEF CollectedInv, Collected

\* The month after one that is passed: another month, or the end.
LEMMA NextMonth ==
  ASSUME NEW m \in Months
  PROVE  /\ m + 1 \in Months \/ \A k \in Months : k < m + 1
         /\ \A k \in Months : k < m + 1 => k < m \/ k = m
<1>1. PICK a \in Int, b \in Int : Months = a..b
  BY MonthsInterval
<1> QED BY <1>1

LEMMA StartKeeps == WalkInv /\ StartRun => WalkInv'
<1> SUFFICES ASSUME WalkInv, StartRun PROVE WalkInv' OBVIOUS
<1>1. PICK a \in Int, b \in Int : Months = a..b
  BY MonthsInterval
<1>2. \/ month' \in Months /\ \A k \in Months : month' <= k
      \/ Months = {}
  <2>1. CASE Months = {}
    BY <2>1
  <2>2. CASE Months # {}
    <3>1. a \in Months /\ \A k \in Months : a <= k
      BY <1>1, <2>2
    <3> QED BY <3>1 DEF StartRun
  <2> QED BY <2>1, <2>2
<1>3. \A k \in Months : month' \in Months /\ month' <= k => ~ (k < month')
  BY <1>1
<1>4. MonthsInv'
  <2>1. /\ parts' = parts /\ caches' = caches /\ table' = table /\ running' = "months"
    BY DEF StartRun, filesUnchanged
  <2>2. month' \in Months \/ \A m \in Months : m < month'
    BY <1>2
  <2>3. \A m \in Months : m < month' => parts'[m] # NoFile
    BY <1>2, <1>3
  <2> QED BY <2>1, <2>2, <2>3, MonthRowsKept DEF WalkInv, MonthsInv, Passed
<1>5. CollectedInv'
  BY CollectedKept DEF StartRun, filesUnchanged, WalkInv
<1> QED BY <1>4, <1>5 DEF WalkInv, StartRun, filesUnchanged

LEMMA SkipKeeps == WalkInv /\ SkipMonth => WalkInv'
<1> SUFFICES ASSUME WalkInv, SkipMonth PROVE WalkInv' OBVIOUS
<1>1. MonthsInv'
  BY NextMonth, MonthRowsKept
  DEF SkipMonth, filesUnchanged, WalkInv, MonthsInv, Passed
<1>2. CollectedInv'
  BY CollectedKept DEF SkipMonth, filesUnchanged, WalkInv
<1> QED BY <1>1, <1>2 DEF WalkInv, SkipMonth, filesUnchanged

\* A month's file, once written, is passed from then on.
LEMMA FileWritten ==
  ASSUME WalkInv, NEW file, month \in Months, file # NoFile,
         file \in MonthFiles(month), parts[month] = NoFile,
         parts' = [parts EXCEPT ![month] = file], table' = table, caches' = caches,
         \A m \in Months : m < month => Passed(m)
  PROVE  /\ parts' = [m \in Months |-> parts'[m]]
         /\ caches' = [m \in Months |-> caches'[m]]
         /\ \A m \in Months : parts'[m] \in MonthFiles(m)' /\ caches'[m] \in MonthFiles(m)'
         /\ \A m \in Months : m < month \/ m = month => Passed(m)'
BY MonthRowsKept DEF WalkInv, MonthsInv, Passed

LEMMA EmptyKeeps == WalkInv /\ EmptyMonth => WalkInv'
<1> SUFFICES ASSUME WalkInv, EmptyMonth PROVE WalkInv' OBVIOUS
<1>1. MonthRows(month) = {} /\ month \in Months /\ parts[month] = NoFile
  BY DEF EmptyMonth, MonthRows
<1>2. Whole({}) \in MonthFiles(month) /\ Whole({}) # NoFile
  BY <1>1, FilesDiffer DEF MonthFiles
<1>3. \A m \in Months : m < month => Passed(m)
  BY DEF EmptyMonth, WalkInv, MonthsInv
<1>4. /\ parts' = [m \in Months |-> parts'[m]]
      /\ caches' = [m \in Months |-> caches'[m]]
      /\ \A m \in Months : parts'[m] \in MonthFiles(m)' /\ caches'[m] \in MonthFiles(m)'
      /\ \A m \in Months : m < month \/ m = month => Passed(m)'
  BY <1>1, <1>2, <1>3, FileWritten DEF EmptyMonth, filesUnchanged
<1>5. MonthsInv'
  BY <1>1, <1>4, NextMonth DEF EmptyMonth, MonthsInv
<1>6. CollectedInv'
  BY <1>1, FilesDiffer, CollectedKept DEF EmptyMonth, filesUnchanged, WalkInv
<1> QED BY <1>5, <1>6 DEF WalkInv, EmptyMonth, filesUnchanged

LEMMA FitKeeps == WalkInv /\ FitMonth => WalkInv'
<1> SUFFICES ASSUME WalkInv, FitMonth PROVE WalkInv' OBVIOUS
<1>1. /\ month' = month /\ month \in Months /\ parts' = parts /\ table' = table
      /\ parts[month] = NoFile /\ running = "months"
      /\ \A m \in Months : m < month => Passed(m)
  BY DEF FitMonth, filesUnchanged, WalkInv, MonthsInv
<1>2. \A m \in Months : caches[m] \in MonthFiles(m)
  BY DEF WalkInv, MonthsInv
<1>3. Readable(caches[month]) => caches[month] = Whole(MonthRows(month))
  BY <1>1, <1>2, FilesDiffer DEF Readable, MonthFiles
<1>4. \/ /\ caches' = [caches EXCEPT ![month] = Whole(MonthRows(month))]
         /\ running' = "forecast"
      \/ /\ caches' = caches
         /\ running' = "forecast" => caches[month] = Whole(MonthRows(month))
         /\ running' \in {"forecast", "idle"}
  BY <1>3 DEF FitMonth
<1>5. /\ caches' = [m \in Months |-> caches'[m]]
      /\ \A m \in Months : caches'[m] \in MonthFiles(m)
      /\ running' = "forecast" => caches'[month] = Whole(MonthRows(month))
      /\ running' \in {"forecast", "idle"}
  BY <1>1, <1>4 DEF WalkInv, MonthsInv, MonthFiles
<1>6. MonthsInv'
  BY <1>1, <1>5, MonthRowsKept DEF WalkInv, MonthsInv, Passed
<1>7. CollectedInv'
  BY <1>1, <1>5, CollectedKept DEF FitMonth, filesUnchanged, WalkInv
<1> QED BY <1>6, <1>7 DEF WalkInv, FitMonth, filesUnchanged

LEMMA WriteKeeps == WalkInv /\ WriteMonth => WalkInv'
<1> SUFFICES ASSUME WalkInv, WriteMonth PROVE WalkInv' OBVIOUS
<1>1. /\ month \in Months /\ parts[month] = NoFile
      /\ caches[month] = Whole(MonthRows(month))
      /\ \A m \in Months : m < month => Passed(m)
  BY DEF WriteMonth, WalkInv, MonthsInv
<1>2. /\ Whole(caches[month].rows) = Whole(MonthRows(month))
      /\ Whole(caches[month].rows) # NoFile
      /\ Whole(caches[month].rows) \in MonthFiles(month)
  BY <1>1, FilesDiffer DEF MonthFiles
<1>4. /\ parts' = [m \in Months |-> parts'[m]]
      /\ caches' = [m \in Months |-> caches'[m]]
      /\ \A m \in Months : parts'[m] \in MonthFiles(m)' /\ caches'[m] \in MonthFiles(m)'
      /\ \A m \in Months : m < month \/ m = month => Passed(m)'
  BY <1>1, <1>2, FileWritten DEF WriteMonth, filesUnchanged
<1>5. MonthsInv'
  BY <1>1, <1>4, NextMonth DEF WriteMonth, MonthsInv
<1>6. CollectedInv'
  BY <1>1, FilesDiffer, CollectedKept DEF WriteMonth, filesUnchanged, WalkInv
<1> QED BY <1>5, <1>6 DEF WalkInv, WriteMonth, filesUnchanged

LEMMA CollectKeeps == WalkInv /\ Collect => WalkInv'
<1> SUFFICES ASSUME WalkInv, Collect PROVE WalkInv' OBVIOUS
<1>1. MonthsInv'
  BY MonthRowsKept DEF Collect, WalkInv, MonthsInv, Passed
<1>2. \/ running' = "idle" /\ forecasts' = forecasts
      \/ /\ running' = "folds" /\ forecasts' = Whole(Collected)
         /\ \A m \in Months : parts[m].kind # "torn"
  BY DEF Collect, Collected
<1>3. ASSUME running' = "idle", forecasts' = forecasts PROVE CollectedInv'
  BY <1>3, CollectedKept DEF Collect, WalkInv
<1>4. ASSUME running' = "folds", forecasts' = Whole(Collected),
             \A m \in Months : parts[m].kind # "torn"
      PROVE  CollectedInv'
  <2>1. \A m \in Months : parts[m] # NoFile /\ parts[m] \in MonthFiles(m)
    BY DEF Collect, WalkInv, MonthsInv, Passed
  <2>2. \A m \in Months : parts[m] \in {Empty, Whole(MonthRows(m))}
    BY <1>4, <2>1, FilesDiffer DEF MonthFiles
  <2>3. forecasts # NoFile => forecasts' = forecasts
    BY <1>4 DEF WalkInv, CollectedInv
  <2>4. forecasts' # NoFile
    BY <1>4, FilesDiffer
  <2>5. /\ parts' = parts /\ outerParts' = outerParts /\ finished' = finished
        /\ \A m : MonthRows(m)' = MonthRows(m)
    BY MonthRowsKept DEF Collect
  <2>6. Collected' = Collected
    BY <2>5 DEF Collected
  <2> QED BY <1>4, <2>2, <2>3, <2>4, <2>5, <2>6 DEF WalkInv, CollectedInv
<1> QED BY <1>1, <1>2, <1>3, <1>4 DEF WalkInv, Collect

LEMMA FinishKeeps == WalkInv /\ FinishRun => WalkInv'
<1> SUFFICES ASSUME WalkInv, FinishRun PROVE WalkInv' OBVIOUS
<1>1. MonthsInv'
  BY MonthRowsKept DEF FinishRun, WalkInv, MonthsInv, Passed
<1>2. /\ parts' = parts /\ outerParts' = outerParts /\ forecasts' = forecasts
      /\ running' = "idle" /\ \A m : MonthRows(m)' = MonthRows(m)
  BY MonthRowsKept DEF FinishRun
<1>3. forecasts # NoFile
  BY DEF FinishRun, WalkInv, CollectedInv
<1>4. \/ finished' = finished
      \/ finished' = Whole(UNION {Fold(forecasts.rows, y) : y \in OuterYears})
      \/ /\ \A y \in OuterYears : outerParts[y] # NoFile
         /\ finished' = Whole(UNION {outerParts[y].rows : y \in OuterYears})
  BY DEF FinishRun
<1>5. (\A y \in OuterYears : outerParts[y] # NoFile)
        => UNION {outerParts[y].rows : y \in OuterYears}
             = UNION {Fold(forecasts.rows, y) : y \in OuterYears}
  <2> SUFFICES ASSUME \A y \in OuterYears : outerParts[y] # NoFile
               PROVE  {outerParts[y].rows : y \in OuterYears}
                        = {Fold(forecasts.rows, y) : y \in OuterYears}
    OBVIOUS
  <2>1. \A y \in OuterYears : outerParts[y].rows = Fold(forecasts.rows, y)
    BY FilesDiffer DEF WalkInv, CollectedInv
  <2> QED BY <2>1
<1>6. \/ finished' = finished
      \/ finished' = Whole(UNION {Fold(forecasts.rows, y) : y \in OuterYears})
  BY <1>4, <1>5
<1>7. Collected' = Collected
  BY <1>2 DEF Collected
<1>8. CollectedInv'
  BY <1>2, <1>3, <1>6, <1>7, "folds" # "idle" DEF WalkInv, CollectedInv
<1> QED BY <1>1, <1>8 DEF WalkInv, FinishRun

LEMMA ShardKeeps ==
  ASSUME WalkInv, NEW year \in OuterYears, OuterShard(year) \/ PublishSelection(year)
  PROVE  WalkInv'
<1>1. /\ parts' = parts /\ caches' = caches /\ table' = table /\ running' = running
      /\ month' = month /\ forecasts' = forecasts /\ finished' = finished
  BY DEF OuterShard, PublishSelection
<1>2. MonthsInv'
  BY <1>1, MonthRowsKept DEF WalkInv, MonthsInv, Passed
<1>3. CASE outerParts' = outerParts
  BY <1>1, <1>2, <1>3, CollectedKept DEF WalkInv
<1>4. CASE /\ forecasts # NoFile
           /\ outerParts' = [outerParts EXCEPT ![year] = Whole(Fold(forecasts.rows, year))]
  <2>1. Collected' = Collected /\ \A m : MonthRows(m)' = MonthRows(m)
    BY <1>1, MonthRowsKept DEF Collected
  <2>2. /\ outerParts' = [y \in OuterYears |-> outerParts'[y]]
        /\ \A y \in OuterYears : outerParts'[y] # NoFile =>
             outerParts'[y] = Whole(Fold(forecasts.rows, y))
    BY <1>4 DEF WalkInv, CollectedInv
  <2>3. CollectedInv'
    BY <1>1, <1>4, <2>1, <2>2 DEF WalkInv, CollectedInv
  <2> QED BY <1>1, <1>2, <2>3 DEF WalkInv
<1> QED BY <1>3, <1>4 DEF OuterShard, PublishSelection

LEMMA CrashKeeps == WalkInv /\ CrashRun => WalkInv'
<1> SUFFICES ASSUME WalkInv, CrashRun PROVE WalkInv' OBVIOUS
<1>1. /\ running' = "idle" /\ table' = table /\ forecasts' = forecasts
      /\ outerParts' = outerParts /\ finished' = finished
  BY DEF CrashRun
<1>2. \/ parts' = parts /\ caches' = caches
      \/ /\ month \in Months /\ parts' = parts
         /\ \E cut \in {Empty, Torn} : caches' = [caches EXCEPT ![month] = cut]
      \/ /\ month \in Months /\ parts[month] = NoFile /\ caches' = caches
         /\ \E cut \in {Empty, Torn} : parts' = [parts EXCEPT ![month] = cut]
  BY DEF CrashRun, WalkInv, MonthsInv
<1>3. /\ parts' = [m \in Months |-> parts'[m]] /\ caches' = [m \in Months |-> caches'[m]]
      /\ \A m \in Months : parts'[m] \in MonthFiles(m) /\ caches'[m] \in MonthFiles(m)
  BY <1>2 DEF WalkInv, MonthsInv, MonthFiles
<1>4. MonthsInv'
  BY <1>1, <1>3, MonthRowsKept DEF MonthsInv
<1>5. CollectedInv'
  BY <1>1, <1>2, FilesDiffer, CollectedKept DEF WalkInv
<1> QED BY <1>1, <1>4, <1>5 DEF WalkInv

LEMMA StutterKeeps == WalkInv /\ UNCHANGED walkVars => WalkInv'
<1> SUFFICES ASSUME WalkInv, UNCHANGED walkVars PROVE WalkInv' OBVIOUS
<1>1. MonthsInv'
  BY MonthRowsKept DEF walkVars, WalkInv, MonthsInv, Passed
<1>2. CollectedInv'
  BY CollectedKept DEF walkVars, WalkInv
<1> QED BY <1>1, <1>2 DEF WalkInv, walkVars

LEMMA WalkKeeps == WalkInv /\ [WalkNext]_walkVars => WalkInv'
<1> SUFFICES ASSUME WalkInv, [WalkNext]_walkVars PROVE WalkInv' OBVIOUS
<1>1. CASE StartRun BY <1>1, StartKeeps
<1>2. CASE SkipMonth BY <1>2, SkipKeeps
<1>3. CASE EmptyMonth BY <1>3, EmptyKeeps
<1>4. CASE FitMonth BY <1>4, FitKeeps
<1>5. CASE WriteMonth BY <1>5, WriteKeeps
<1>6. CASE Collect BY <1>6, CollectKeeps
<1>7. CASE FinishRun BY <1>7, FinishKeeps
<1>8. CASE \E year \in OuterYears : OuterShard(year) \/ PublishSelection(year)
  BY <1>8, ShardKeeps
<1>9. CASE CrashRun BY <1>9, CrashKeeps
<1>10. CASE UNCHANGED walkVars BY <1>10, StutterKeeps
<1> QED BY <1>1, <1>2, <1>3, <1>4, <1>5, <1>6, <1>7, <1>8, <1>9, <1>10 DEF WalkNext

-----------------------------------------------------------------------------
LEMMA WholeFromInv == WalkInv => FinishedRunIsWhole
<1> SUFFICES ASSUME WalkInv PROVE FinishedRunIsWhole OBVIOUS
<1> DEFINE fresh == UNION {MonthRows(m) : m \in Months}
<1>1. ASSUME finished # NoFile, Empty \notin {parts[m] : m \in Months}
      PROVE  finished = Whole(UNION {Fold(fresh, y) : y \in OuterYears})
  <2>1. \A m \in Months : parts[m].rows = MonthRows(m)
    BY <1>1, FilesDiffer DEF WalkInv, CollectedInv
  <2>2. Collected = fresh
    BY <2>1 DEF Collected
  <2>3. forecasts.rows = fresh
    BY <1>1, <2>2, FilesDiffer DEF WalkInv, CollectedInv
  <2> HIDE DEF fresh
  <2> QED BY <1>1, <2>3 DEF WalkInv, CollectedInv
<1>2. \A m \in Months : parts[m].kind = "whole" => parts[m].rows = MonthRows(m)
  BY FilesDiffer DEF WalkInv, MonthsInv, MonthFiles
<1> QED BY <1>1, <1>2 DEF FinishedRunIsWhole

\* A run that finishes has the forecasts one run from nothing has, however many
\* runs before it were cut short and whatever of theirs it took over.
THEOREM FinishedRunsAreWhole == WalkSpec => []FinishedRunIsWhole
<1>1. WalkInit => WalkInv
  BY InvInit
<1>2. WalkInv /\ [WalkNext]_walkVars => WalkInv'
  BY WalkKeeps
<1> QED BY <1>1, <1>2, WholeFromInv, PTL DEF WalkSpec

-----------------------------------------------------------------------------
\* Days and months.
LEMMA DayBeforeMonth ==
  ASSUME NEW day \in Nat, NEW m \in Int, day < CutoffOf(m)
  PROVE  MonthOf(day) < m
<1> DEFINE q == day \div MonthDays
<1>1. MonthDays \in Nat \ {0}
  BY WalkForwardAssumption
<1>2. q \in Int /\ q * MonthDays <= day
  BY <1>1
<1>3. q * MonthDays < (m - 1) * MonthDays
  BY <1>1, <1>2 DEF CutoffOf
<1> HIDE DEF q
<1>4. ASSUME q >= m - 1 PROVE FALSE
  <2>1. (q - (m - 1)) * MonthDays >= 0
    BY <1>1, <1>2, <1>4
  <2>2. (q - (m - 1)) * MonthDays = q * MonthDays - ((m - 1) * MonthDays)
    BY <1>1, <1>2
  <2> QED BY <1>1, <1>2, <1>3, <2>1, <2>2
<1>5. q + 1 < m
  BY <1>2, <1>4
<1> QED BY <1>5 DEF q, MonthOf

LEMMA MonthBeforeDay ==
  ASSUME NEW day \in Nat
  PROVE  CutoffOf(MonthOf(day)) <= day
<1>1. MonthDays \in Nat \ {0}
  BY WalkForwardAssumption
<1>2. (day \div MonthDays) * MonthDays <= day /\ day \div MonthDays \in Int
  BY <1>1
<1>3. ((day \div MonthDays) + 1) - 1 = day \div MonthDays
  BY <1>2
<1> QED BY <1>2, <1>3 DEF CutoffOf, MonthOf

\* What a forecast of month m rests on, and what it is about.
LEMMA ForecastOfMonth ==
  ASSUME WalkInv, NEW m \in Months, NEW r \in MonthRows(m)
  PROVE  /\ r.match \in table /\ MonthOf(r.match.start) = m
         /\ r.cutoff = CutoffOf(m)
         /\ \A x \in r.used : x \in table /\ AvailableAt(x) < CutoffOf(m)
<1>1. PICK x \in Target(m) : r = BaseForecast(x, m)
  BY DEF MonthRows
<1> QED BY <1>1 DEF BaseForecast, Target, Known

LEMMA InTable ==
  ASSUME WalkInv, NEW x \in table
  PROVE  /\ x.start \in Nat /\ x.fileYear \in Nat
         /\ AvailableAt(x) = x.start + Embargo /\ Embargo \in Nat \ {0}
         /\ \A y \in table : x.fileYear < y.fileYear
              => CutoffOf(MonthOf(x.start)) <= AvailableAt(y)
BY SeasonsAssumption, WalkForwardAssumption DEF WalkInv, AvailableAt

LEMMA MonthsAreNumbers == \A m \in Months : m \in Int /\ CutoffOf(m) \in Int
<1>1. PICK a \in Int, b \in Int : Months = a..b
  BY MonthsInterval
<1> QED BY <1>1, WalkForwardAssumption DEF CutoffOf

LEMMA UsedBefore ==
  ASSUME WalkInv, NEW m \in Months, NEW r \in MonthRows(m), NEW x \in r.used
  PROVE  x.start + Embargo < r.cutoff /\ MonthOf(x.start) < m
<1>1. /\ x \in table /\ AvailableAt(x) < CutoffOf(m) /\ r.cutoff = CutoffOf(m)
      /\ m \in Int /\ CutoffOf(m) \in Int
  BY ForecastOfMonth, MonthsAreNumbers
<1>2. x.start \in Nat /\ AvailableAt(x) = x.start + Embargo /\ Embargo \in Nat \ {0}
  BY <1>1, InTable
<1>3. x.start < CutoffOf(m)
  BY <1>1, <1>2
<1> QED BY <1>1, <1>2, <1>3, DayBeforeMonth

\* No forecast rests on its own match, nor on one whose season comes later.
LEMMA NotItsOwn ==
  ASSUME WalkInv, NEW m \in Months, NEW r \in MonthRows(m), NEW x \in table,
         x = r.match \/ r.match.fileYear < x.fileYear
  PROVE  x \notin r.used
<1> SUFFICES ASSUME x \in r.used PROVE FALSE
  OBVIOUS
<1>1. /\ AvailableAt(x) < CutoffOf(m) /\ r.match \in table /\ MonthOf(r.match.start) = m
      /\ CutoffOf(m) \in Int
  BY ForecastOfMonth, MonthsAreNumbers
<1>2. x.start \in Nat /\ AvailableAt(x) = x.start + Embargo /\ Embargo \in Nat \ {0}
  BY InTable
<1>3. CASE x = r.match
  <2>1. CutoffOf(m) <= x.start
    BY <1>1, <1>2, <1>3, MonthBeforeDay
  <2> QED BY <1>1, <1>2, <2>1
<1>4. CASE r.match.fileYear < x.fileYear
  <2>1. CutoffOf(m) <= AvailableAt(x)
    BY <1>1, <1>4, InTable
  <2> QED BY <1>1, <1>2, <2>1
<1> QED BY <1>3, <1>4

LEMMA CollectedRow ==
  ASSUME WalkInv, NEW r \in Collected
  PROVE  \E m \in Months : r \in MonthRows(m)
<1>1. PICK m \in Months : r \in parts[m].rows
  BY DEF Collected
<1>2. parts[m] = Whole(MonthRows(m))
  BY <1>1, FilesDiffer DEF WalkInv, MonthsInv, MonthFiles
<1> QED BY <1>1, <1>2, FilesDiffer

\* What the settings of an outer year rest on: files of the two years before.
LEMMA SettingsBefore ==
  ASSUME NEW rows, NEW year, NEW s \in SettingsOf(rows, year)
  PROVE  s \in rows /\ s.match.fileYear \in {year - 2, year - 1}
BY DEF SettingsOf, Integrated, OfYear

LEMMA FoldApart ==
  ASSUME WalkInv, NEW year \in OuterYears, NEW r \in Fold(Collected, year)
  PROVE  /\ r.match \notin r.used
         /\ \A x \in r.settings : x.fileYear \in {r.fold - 2, r.fold - 1}
<1> DEFINE S == SettingsOf(Collected, year)
<1>1. PICK b \in OfYear(Collected, year) :
        r = [match |-> b.match, cutoff |-> b.cutoff, fold |-> year,
             used |-> b.used \cup {s.match : s \in S} \cup UNION {s.used : s \in S},
             settings |-> {s.match : s \in S}]
  BY DEF Fold
<1> HIDE DEF S
<1>2. b \in Collected /\ b.match.fileYear = year /\ year \in Nat
  BY <1>1, WalkForwardAssumption DEF OfYear
<1>3. PICK m \in Months : b \in MonthRows(m)
  BY <1>2, CollectedRow
<1>4. b.match \in table
  BY <1>3, ForecastOfMonth
<1>5. b.match \notin b.used
  BY <1>3, <1>4, NotItsOwn
<1>6. \A s \in S : s \in Collected /\ s.match.fileYear \in {year - 2, year - 1}
  BY SettingsBefore DEF S
<1>7. \A s \in S : s.match.fileYear < b.match.fileYear
  BY <1>2, <1>6
<1>8. \A s \in S : s.match # b.match /\ b.match \notin s.used
  <2> SUFFICES ASSUME NEW s \in S PROVE s.match # b.match /\ b.match \notin s.used
    OBVIOUS
  <2>1. PICK k \in Months : s \in MonthRows(k)
    BY <1>6, CollectedRow
  <2>2. b.match \notin s.used
    BY <1>4, <1>7, <2>1, NotItsOwn
  <2>3. s.match.fileYear # b.match.fileYear
    BY <1>2, <1>6
  <2> QED BY <2>2, <2>3
<1>9. r.match = b.match /\ r.fold = year /\ r.settings = {s.match : s \in S}
      /\ r.used = b.used \cup {s.match : s \in S} \cup UNION {s.used : s \in S}
  BY <1>1
<1>10. r.match \notin r.used
  BY <1>5, <1>8, <1>9
<1>11. \A x \in r.settings : x.fileYear \in {r.fold - 2, r.fold - 1}
  BY <1>6, <1>9
<1> QED BY <1>10, <1>11

LEMMA ApartFromInv == WalkInv => FoldsApart
<1> SUFFICES ASSUME WalkInv PROVE FoldsApart OBVIOUS
<1>1. ASSUME NEW m \in Months, NEW r \in parts[m].rows, NEW x \in r.used
      PROVE  x.start + Embargo < r.cutoff /\ MonthOf(x.start) < m
  <2>1. r \in MonthRows(m)
    BY FilesDiffer DEF WalkInv, MonthsInv, MonthFiles
  <2> QED BY <2>1, UsedBefore
<1>2. ASSUME NEW r \in finished.rows
      PROVE  /\ r.match \notin r.used
             /\ \A x \in r.settings : x.fileYear \in {r.fold - 2, r.fold - 1}
  <2>1. finished # NoFile
    BY FilesDiffer
  <2>2. finished.rows = UNION {Fold(Collected, y) : y \in OuterYears}
    BY <2>1, FilesDiffer DEF WalkInv, CollectedInv
  <2>3. PICK year \in OuterYears : r \in Fold(Collected, year)
    BY <2>2
  <2> QED BY <2>3, FoldApart
<1> QED BY <1>1, <1>2 DEF FoldsApart

\* Whatever the source files hold, no base forecast rests on an event of its
\* own month or later, no setting on a match of the year it is used for, and no
\* forecast on its own match.
THEOREM FoldsAlwaysApart == WalkSpec => []FoldsApart
<1>1. WalkInit => WalkInv
  BY InvInit
<1>2. WalkInv /\ [WalkNext]_walkVars => WalkInv'
  BY WalkKeeps
<1> QED BY <1>1, <1>2, ApartFromInv, PTL DEF WalkSpec

-----------------------------------------------------------------------------
(* One snapshot, one cutoff *)

LEMMA LaterOfTwo ==
  ASSUME NEW x \in Nat, NEW y \in Nat
  PROVE  Max({x, y}) \in {x, y} /\ Max({x, y}) >= x /\ Max({x, y}) >= y
<1>1. \E m \in {x, y} : \A k \in {x, y} : m >= k
  <2>1. CASE x >= y
    BY <2>1
  <2>2. CASE y >= x
    BY <2>2
  <2> QED
    BY <2>1, <2>2
<1> QED
  BY <1>1 DEF Max

LEMMA KnownAfterBoth ==
  ASSUME NEW row, row.start \in Nat, NEW published \in Nat
  PROVE  /\ AvailableFrom(row, published) \in Nat
         /\ AvailableFrom(row, published) >= row.start + AvailabilityLag
         /\ AvailableFrom(row, published) >= published
<1>1. row.start + AvailabilityLag \in Nat
  BY IngestionAssumption
<1> QED
  BY <1>1, LaterOfTwo DEF AvailableFrom

LEMMA PairCount ==
  ASSUME NEW x, NEW y, x # y
  PROVE  Cardinality({x, y}) = 2
<1> DEFINE single == {x}
<1>1. IsFiniteSet(single) /\ Cardinality(single) = 1 /\ y \notin single
  BY FS_Singleton
<1>2. {x, y} = single \cup {y}
  OBVIOUS
<1> HIDE DEF single
<1>3. Cardinality(single \cup {y}) = Cardinality(single) + 1
  BY <1>1, FS_AddElement
<1> QED
  BY <1>1, <1>2, <1>3

\* A match is accepted once.
LEMMA AcceptedOnce ==
  ASSUME NEW rows, IsFiniteSet(DOMAIN rows), NEW read, read \subseteq DOMAIN rows,
         NEW i \in AcceptedMatches(rows, read), NEW k \in AcceptedMatches(rows, read),
         rows[i].event = rows[k].event, rows[i].number = rows[k].number
  PROVE  i = k
<1> DEFINE compared == ComparedRows(rows, read)
           group == KeyGroup(rows, compared, i)
<1>1. i \in compared /\ k \in compared /\ compared \subseteq DOMAIN rows
  BY DEF AcceptedMatches, ComparedRows, Identified
<1>2. group = KeyGroup(rows, compared, k) /\ i \in group /\ k \in group
  BY <1>1 DEF KeyGroup, SameKey
<1> SUFFICES ASSUME i # k PROVE FALSE
  OBVIOUS
<1>3. Cardinality(group) > 1
  <2>1. group \subseteq DOMAIN rows
    BY <1>1 DEF KeyGroup
  <2>2. IsFiniteSet(group) /\ IsFiniteSet({i, k}) /\ {i, k} \subseteq group
    BY <1>2, <2>1, FS_Subset, FS_AddElement, FS_Singleton
  <2>3. Cardinality({i, k}) = 2
    BY PairCount
  <2> QED
    BY <2>2, <2>3, FS_Subset, FS_CardinalityType
<1>4. ~ Duplicate(rows, compared, i) /\ ~ Duplicate(rows, compared, k)
  BY DEF AcceptedMatches
<1>5. i = Min(group) /\ k = Min(group)
  BY <1>2, <1>3, <1>4 DEF Duplicate
<1> QED
  BY <1>5

\* The rows of a match are those of its two players.
LEMMA PairOf ==
  ASSUME NEW snapshot, NEW rows, rows = snapshot.rows, IsFiniteSet(DOMAIN rows),
         NEW read, read \subseteq DOMAIN rows, NEW date, NEW all,
         all = ServiceRows(snapshot, read, date), NEW x \in all
  PROVE  \E i \in AcceptedMatches(rows, read) :
           /\ i \in read
           /\ x \in {ServiceRow(rows[i], snapshot.published, date[i], "winner"),
                    ServiceRow(rows[i], snapshot.published, date[i], "loser")}
           /\ MatchRows(all, x) =
                {ServiceRow(rows[i], snapshot.published, date[i], "winner"),
                 ServiceRow(rows[i], snapshot.published, date[i], "loser")}
<1>1. all = {ServiceRow(rows[m], snapshot.published, date[m], s) :
               m \in AcceptedMatches(rows, read), s \in {"winner", "loser"}}
  BY DEF ServiceRows
<1>2. PICK i \in AcceptedMatches(rows, read), side \in {"winner", "loser"} :
        x = ServiceRow(rows[i], snapshot.published, date[i], side)
  BY <1>1
<1> DEFINE pair == {ServiceRow(rows[i], snapshot.published, date[i], "winner"),
                    ServiceRow(rows[i], snapshot.published, date[i], "loser")}
<1>3. \A m, s : ServiceRow(rows[m], snapshot.published, date[m], s).match
                  = <<rows[m].event, rows[m].number>>
  BY DEF ServiceRow
<1>4. ASSUME NEW y \in all, y.match = x.match PROVE y \in pair
  <2>1. PICK m \in AcceptedMatches(rows, read), s \in {"winner", "loser"} :
          y = ServiceRow(rows[m], snapshot.published, date[m], s)
    BY <1>1
  <2>2. rows[m].event = rows[i].event /\ rows[m].number = rows[i].number
    <3>1. y.match = <<rows[m].event, rows[m].number>>
      BY <1>3, <2>1
    <3>2. x.match = <<rows[i].event, rows[i].number>>
      BY <1>2, <1>3
    <3>3. <<rows[m].event, rows[m].number>> = <<rows[i].event, rows[i].number>>
      BY <1>4, <3>1, <3>2, Zenon
    <3> QED
      BY <3>3
  <2>3. m = i
    BY <2>2, AcceptedOnce
  <2> QED
    BY <2>1, <2>3
<1>5. pair \subseteq all
  BY <1>1
<1>6. \A y \in pair : y.match = x.match
  BY <1>2, <1>3
<1>7. MatchRows(all, x) = pair
  BY <1>4, <1>5, <1>6 DEF MatchRows
<1>8. i \in read
  BY DEF AcceptedMatches, Identified
<1> QED
  BY <1>2, <1>7, <1>8

LEMMA BothSidesKept ==
  ASSUME NEW snapshot, NEW rows, rows = snapshot.rows, IsFiniteSet(DOMAIN rows),
         NEW read, read \subseteq DOMAIN rows, NEW date
  PROVE  Symmetric(ServiceRows(snapshot, read, date))
<1> DEFINE all == ServiceRows(snapshot, read, date)
<1> SUFFICES ASSUME NEW x \in all
             PROVE  LET pair == {y \in all : y.match = x.match}
                    IN  /\ Cardinality(pair) = 2 /\ x.player # x.opponent
                        /\ \E y \in pair : y.player = x.opponent /\ y.opponent = x.player
                                           /\ y.side # x.side
  BY DEF Symmetric
<1>1. PICK i \in AcceptedMatches(rows, read) :
        /\ x \in {ServiceRow(rows[i], snapshot.published, date[i], "winner"),
                 ServiceRow(rows[i], snapshot.published, date[i], "loser")}
        /\ MatchRows(all, x) =
             {ServiceRow(rows[i], snapshot.published, date[i], "winner"),
              ServiceRow(rows[i], snapshot.published, date[i], "loser")}
  BY PairOf
<1> DEFINE won == ServiceRow(rows[i], snapshot.published, date[i], "winner")
           lost == ServiceRow(rows[i], snapshot.published, date[i], "loser")
<1>2. {y \in all : y.match = x.match} = {won, lost}
  BY <1>1 DEF MatchRows
<1>3. /\ won.side = "winner" /\ won.player = rows[i].winner /\ won.opponent = rows[i].loser
      /\ lost.side = "loser" /\ lost.player = rows[i].loser /\ lost.opponent = rows[i].winner
  BY DEF ServiceRow
<1>4. x \in {won, lost}
  BY <1>1
<1>5. rows[i].winner # rows[i].loser
  BY DEF AcceptedMatches, Identified, IdentityKnown
<1> HIDE DEF won, lost, all
<1>6. Cardinality({won, lost}) = 2
  <2>1. won # lost
    BY <1>3
  <2> QED
    BY <2>1, PairCount
<1> QED
  BY <1>2, <1>3, <1>4, <1>5, <1>6

-----------------------------------------------------------------------------
(* The dates of a crosswalk *)

LEMMA MatchedRow ==
  ASSUME NEW first, NEW second, NEW i, JoinStatus(first, second, i) = "matched"
  PROVE  /\ ~ ListedTwice(first, i) /\ Joined(first[i], second) = "matched"
         /\ Alone(first, second, i) /\ ~ Reused(first, second, i)
<1>1. ~ ListedTwice(first, i)
  <2> SUFFICES ASSUME ListedTwice(first, i) PROVE FALSE
    OBVIOUS
  <2>1. JoinStatus(first, second, i) = "listed twice"
    BY DEF JoinStatus
  <2> QED
    BY <2>1
<1>2. ~ (Alone(first, second, i) /\ Reused(first, second, i))
  <2> SUFFICES ASSUME Alone(first, second, i), Reused(first, second, i) PROVE FALSE
    OBVIOUS
  <2>1. JoinStatus(first, second, i) = "reused"
    BY <1>1 DEF JoinStatus
  <2> QED
    BY <2>1
<1>3. Joined(first[i], second) = "matched"
  BY <1>1, <1>2 DEF JoinStatus
<1> QED
  BY <1>1, <1>2, <1>3 DEF Alone

LEMMA OneCandidate ==
  ASSUME NEW row, NEW second, Joined(row, second) = "matched"
  PROVE  /\ Cardinality(StrictCandidates(row, second)) = 1
         /\ JoinedWith(row, second) \in StrictCandidates(row, second)
<1>1. Cardinality(StrictCandidates(row, second)) = 1
  <2> DEFINE strict == StrictCandidates(row, second)
             base == BaseCandidates(row, second)
  <2> SUFFICES ASSUME Cardinality(strict) # 1 PROVE FALSE
    OBVIOUS
  <2>1. Joined(row, second) =
          IF Cardinality(strict) = 1 THEN "matched"
          ELSE IF Cardinality(strict) > 1 \/ Cardinality(base) > 1 THEN "ambiguous"
          ELSE IF strict = {} /\ Cardinality(base) = 1 THEN "conflict"
          ELSE "unmatched"
    BY DEF Joined
  <2> HIDE DEF strict, base
  <2>2. Joined(row, second) \in {"ambiguous", "conflict", "unmatched"}
    BY <2>1
  <2> QED
    BY <2>2
<1>2. StrictCandidates(row, second) # {}
  BY <1>1, FS_EmptySet
<1> QED
  BY <1>1, <1>2 DEF JoinedWith

LEMMA DatedByDay ==
  ASSUME NEW first, NEW second \in Results, NEW i \in DOMAIN first,
         JoinStatus(first, second, i) = "matched"
  PROVE  /\ ExactDate(first, second, i) \in Nat
         /\ ExactDate(first, second, i) # Unreadable
<1> DEFINE j == JoinedWith(first[i], second)
<1>1. j \in StrictCandidates(first[i], second)
  BY MatchedRow, OneCandidate
<1>2. j \in DOMAIN second /\ second[j].date # Unreadable
  BY <1>1 DEF StrictCandidates, DatedCandidates, InWindow
<1>3. ExactDate(first, second, i) = second[j].date
  BY DEF ExactDate
<1> HIDE DEF j
<1> QED
  BY <1>2, <1>3, IngestionAssumption

LEMMA CrosswalkOwnDates ==
  ASSUME NEW first, NEW second \in Results, pinned = Crosswalk(first, second)
  PROVE  DatesAreTheirOwn
<1> DEFINE Of(i) == JoinedWith(pinned.table[i], pinned.others)
           dated == {i \in DOMAIN pinned.table : pinned.date[i] # Unreadable}
<1>1. /\ pinned.table = first /\ pinned.others = second
      /\ pinned.date = [i \in DOMAIN first |-> ExactDate(first, second, i)]
  BY DEF Crosswalk
<1>2. ASSUME NEW i \in dated
      PROVE  i \in DOMAIN first /\ JoinStatus(first, second, i) = "matched"
  BY <1>1 DEF ExactDate
<1>6. \A row, other :
        MayBe(row, other) <=> SamePlayers(row, other) /\ InWindow(row, other)
                              /\ StrictMatch(row, other)
  BY DEF MayBe, StrictMatch, BaseMatch, Agree
<1>3. ASSUME NEW i \in dated, NEW k \in dated, Of(i) = Of(k) PROVE i = k
  <2>1. JoinStatus(first, second, i) = "matched" /\ JoinStatus(first, second, k) = "matched"
    BY <1>2
  <2>2. Alone(first, second, k) /\ ~ Reused(first, second, i)
    BY <2>1, MatchedRow
  <2>3. JoinedWith(first[k], second) = JoinedWith(first[i], second) /\ k \in DOMAIN first
    BY <1>1, <1>2, <1>3
  <2> QED
    BY <2>2, <2>3 DEF Reused
<1>5. ASSUME NEW i \in dated
      PROVE  /\ Of(i) \in DOMAIN pinned.others
             /\ MayBe(pinned.table[i], pinned.others[Of(i)])
             /\ pinned.date[i] = pinned.others[Of(i)].date
  <2>1. i \in DOMAIN first /\ JoinStatus(first, second, i) = "matched"
    BY <1>2
  <2>2. PICK j : j = JoinedWith(first[i], second)
    OBVIOUS
  <2>3. j \in StrictCandidates(first[i], second)
    BY <2>1, <2>2, MatchedRow, OneCandidate
  <2>4. j \in DOMAIN second /\ MayBe(first[i], second[j])
    BY <1>6, <2>3, Zenon DEF StrictCandidates, DatedCandidates
  <2>5. Of(i) = j
    BY <1>1, <2>2
  <2>6. ExactDate(first, second, i) = second[j].date
    BY <2>1, <2>2 DEF ExactDate
  <2> QED
    BY <1>1, <2>1, <2>4, <2>5, <2>6
<1>4. ASSUME NEW i \in dated, NEW j \in DOMAIN pinned.others,
             MayBe(pinned.table[i], pinned.others[j])
      PROVE  Of(i) = j
  <2> DEFINE strict == StrictCandidates(first[i], second)
  <2>1. j \in strict
    BY <1>1, <1>4, <1>6 DEF StrictCandidates, DatedCandidates
  <2>2. Cardinality(strict) = 1 /\ JoinedWith(first[i], second) \in strict
    BY <1>2, MatchedRow, OneCandidate
  <2>3. IsFiniteSet(strict)
    <3>1. IsFiniteSet(DOMAIN second)
      <4>1. DOMAIN second = 1..Len(second) /\ Len(second) \in Nat
        BY IngestionAssumption
      <4>2. IsFiniteSet(1..Len(second))
        BY <4>1, FS_Interval
      <4> QED
        BY <4>1, <4>2
    <3>2. strict \subseteq DOMAIN second
      BY DEF StrictCandidates, DatedCandidates
    <3> QED
      BY <3>1, <3>2, FS_Subset
  <2> HIDE DEF strict
  <2>4. PICK x : strict = {x}
    BY <2>2, <2>3, FS_Singleton
  <2> QED
    BY <1>1, <2>1, <2>2, <2>4
<1>7. ASSUME NEW i \in dated
      PROVE  \A j \in DOMAIN pinned.others :
               MayBe(pinned.table[i], pinned.others[j]) <=> Of(i) = j
  <2> HIDE DEF Of
  <2> QED
    BY <1>4, <1>5, Zenon
<1> QED
  BY <1>3, <1>5, <1>7 DEF DatesAreTheirOwn

LEMMA NoDatesAtAll == pinned = NoCrosswalk => DatesAreTheirOwn
BY DEF DatesAreTheirOwn

-----------------------------------------------------------------------------
(* What an ingestion gives *)

LEMMA VintageKeepsAll ==
  ASSUME NEW snapshot, NEW rows \in Seq(RawRows), rows = snapshot.rows,
         NEW published \in Nat, published = snapshot.published, NEW cutoff \in Nat,
         NEW date, NEW read, read = RawBeforeCutoff(snapshot, cutoff)
  PROVE  LET all == ServiceRows(snapshot, read, date)
         IN  /\ GuardVintage(all, cutoff) = all
             /\ \A x \in all : x.sourceDate + AvailabilityLag < cutoff /\ published < cutoff
<1> DEFINE all == ServiceRows(snapshot, read, date)
<1>1. IsFiniteSet(DOMAIN rows) /\ read \subseteq DOMAIN rows
  <2>1. DOMAIN rows = 1..Len(rows) /\ Len(rows) \in Nat
    BY LenProperties
  <2>2. IsFiniteSet(DOMAIN rows)
    <3>1. PICK n \in Int : n = Len(rows)
      BY <2>1
    <3>2. IsFiniteSet(1..n)
      BY FS_Interval
    <3> QED
      BY <2>1, <3>1, <3>2
  <2> QED
    BY <2>2 DEF RawBeforeCutoff
<1>2. ASSUME NEW i \in read
      PROVE  /\ rows[i].start \in Nat
             /\ AvailableFrom(rows[i], published) < cutoff
  <2>1. rows[i] \in RawRows
    BY <1>1, LenProperties, ElementOfSeq
  <2> QED
    BY <2>1, IngestionAssumption DEF RawBeforeCutoff
<1>3. ASSUME NEW x \in all
      PROVE  /\ \A y \in MatchRows(all, x) : y.available = x.available
             /\ x.available < cutoff
             /\ x.sourceDate + AvailabilityLag < cutoff /\ published < cutoff
  <2>1. PICK i \in read :
          /\ x \in {ServiceRow(rows[i], published, date[i], "winner"),
                   ServiceRow(rows[i], published, date[i], "loser")}
          /\ MatchRows(all, x) = {ServiceRow(rows[i], published, date[i], "winner"),
                                 ServiceRow(rows[i], published, date[i], "loser")}
    BY <1>1, PairOf
  <2>4. \A s : ServiceRow(rows[i], published, date[i], s).available
                 = AvailableFrom(rows[i], published)
    BY DEF ServiceRow
  <2>5. x.sourceDate = rows[i].start
    BY <2>1 DEF ServiceRow
  <2>6. /\ \A y \in MatchRows(all, x) : y.available = AvailableFrom(rows[i], published)
        /\ x.available = AvailableFrom(rows[i], published)
    BY <2>1, <2>4
  <2>7. x.sourceDate + AvailabilityLag < cutoff /\ published < cutoff
    <3> DEFINE known == AvailableFrom(rows[i], published)
    <3>1. rows[i].start \in Nat /\ known < cutoff
      BY <1>2
    <3>2. known \in Nat /\ known >= rows[i].start + AvailabilityLag /\ known >= published
      BY <3>1, KnownAfterBoth
    <3>3. AvailabilityLag \in Nat
      BY IngestionAssumption
    <3> HIDE DEF known
    <3> QED
      BY <2>5, <3>1, <3>2, <3>3
  <2> QED
    BY <1>2, <2>6, <2>7
<1> HIDE DEF all
<1>4. GuardVintage(all, cutoff) = all
  BY <1>3 DEF GuardVintage
<1> QED
  BY <1>3, <1>4 DEF all

LEMMA FinalizedKeepsAll ==
  ASSUME NEW snapshot, NEW rows \in Seq(RawRows), rows = snapshot.rows, NEW cutoff \in Nat,
         NEW second \in Results, NEW read,
         read = RawFinalized(Crosswalk(rows, second), cutoff),
         NEW date, date = Crosswalk(rows, second).date
  PROVE  LET all == ServiceRows(snapshot, read, date)
         IN  /\ GuardFinalized(all, cutoff) = all
             /\ \A x \in all : x.matchDate < cutoff
<1> DEFINE all == ServiceRows(snapshot, read, date)
<1>1. /\ date = [i \in DOMAIN rows |-> ExactDate(rows, second, i)]
      /\ Crosswalk(rows, second).status = [i \in DOMAIN rows |-> JoinStatus(rows, second, i)]
  BY DEF Crosswalk
<1>2. IsFiniteSet(DOMAIN rows) /\ read \subseteq DOMAIN rows
  <2>1. DOMAIN rows = 1..Len(rows) /\ Len(rows) \in Nat
    BY LenProperties
  <2>2. IsFiniteSet(DOMAIN rows)
    <3>1. PICK n \in Int : n = Len(rows)
      BY <2>1
    <3>2. IsFiniteSet(1..n)
      BY FS_Interval
    <3> QED
      BY <2>1, <3>1, <3>2
  <2> QED
    BY <1>1, <2>2 DEF RawFinalized
<1>3. ASSUME NEW i \in read
      PROVE  date[i] \in Nat /\ date[i] # Unreadable /\ CompletedBy(date[i]) <= cutoff
  <2>1. CompletedBy(date[i]) <= cutoff /\ JoinStatus(rows, second, i) = "matched"
    BY <1>1, <1>2 DEF RawFinalized
  <2>2. date[i] = ExactDate(rows, second, i)
    BY <1>1, <1>2
  <2> QED
    BY <1>2, <2>1, <2>2, DatedByDay
<1>4. ASSUME NEW x \in all
      PROVE  /\ \A y \in MatchRows(all, x) : y.matchDate = x.matchDate
             /\ x.matchDate # Unreadable /\ CompletedBy(x.matchDate) <= cutoff
             /\ x.matchDate < cutoff
  <2>1. PICK i \in read :
          /\ x \in {ServiceRow(rows[i], snapshot.published, date[i], "winner"),
                   ServiceRow(rows[i], snapshot.published, date[i], "loser")}
          /\ MatchRows(all, x) = {ServiceRow(rows[i], snapshot.published, date[i], "winner"),
                                 ServiceRow(rows[i], snapshot.published, date[i], "loser")}
    BY <1>2, PairOf
  <2>4. \A s : ServiceRow(rows[i], snapshot.published, date[i], s).matchDate = date[i]
    BY DEF ServiceRow
  <2>5. (\A y \in MatchRows(all, x) : y.matchDate = date[i]) /\ x.matchDate = date[i]
    BY <2>1, <2>4
  <2>6. date[i] < cutoff
    BY <1>3 DEF CompletedBy
  <2> QED
    BY <1>3, <2>5, <2>6
<1> HIDE DEF all
<1>5. GuardFinalized(all, cutoff) = all
  BY <1>4 DEF GuardFinalized
<1> QED
  BY <1>4, <1>5 DEF all

\* What is known of a dataset whatever has happened since: it was made from a
\* snapshot and, where it is dated in retrospect, from a crosswalk of it.
Ingested(d) ==
  /\ d.snapshot = [rows |-> d.snapshot.rows, published |-> d.snapshot.published]
  /\ d.snapshot.rows \in Seq(RawRows) /\ d.snapshot.published \in Nat
  /\ d.cutoff \in Nat /\ d.policy \in {"vintage", "finalized"}
  /\ \E second \in Results :
       d = Dataset(d.snapshot, d.cutoff, d.policy,
                   IF d.policy = "finalized" THEN Crosswalk(d.snapshot.rows, second)
                                             ELSE NoCrosswalk)

LEMMA FiniteTable ==
  ASSUME NEW rows \in Seq(RawRows)
  PROVE  IsFiniteSet(DOMAIN rows)
<1>1. DOMAIN rows = 1..Len(rows) /\ Len(rows) \in Nat
  BY LenProperties
<1> QED
  BY <1>1, FS_Interval

LEMMA IngestedKeeps ==
  ASSUME NEW d, Ingested(d)
  PROVE  /\ ~ d.refused
         /\ \A x \in d.rows :
              /\ d.policy = "vintage" =>
                   /\ x.sourceDate + AvailabilityLag < d.cutoff
                   /\ d.snapshot.published < d.cutoff
              /\ d.policy = "finalized" => x.matchDate < d.cutoff
<1> DEFINE snapshot == d.snapshot
           rows == snapshot.rows
           cutoff == d.cutoff
<1>0. /\ rows \in Seq(RawRows) /\ snapshot.published \in Nat /\ cutoff \in Nat
      /\ IsFiniteSet(DOMAIN rows)
  BY FiniteTable DEF Ingested
<1>1. CASE d.policy = "vintage"
  <2> DEFINE read == RawBeforeCutoff(snapshot, cutoff)
             date == [i \in DOMAIN rows |-> Unreadable]
             all == ServiceRows(snapshot, read, date)
  <2>1. d = Dataset(snapshot, cutoff, "vintage", NoCrosswalk)
    BY <1>1 DEF Ingested
  <2>2. d.rows = GuardVintage(all, cutoff) /\ d.refused = (all # d.rows \/ ~ Symmetric(all))
    <3>1. /\ Read(snapshot, cutoff, "vintage", NoCrosswalk) = read
          /\ DatesOf(snapshot, "vintage", NoCrosswalk) = date
          /\ \A set : Guarded(set, cutoff, "vintage") = GuardVintage(set, cutoff)
      BY DEF Read, DatesOf, Guarded
    <3> HIDE DEF read, date, snapshot, cutoff
    <3>2. Dataset(snapshot, cutoff, "vintage", NoCrosswalk) =
            [snapshot |-> snapshot, cutoff |-> cutoff, policy |-> "vintage",
             rows |-> GuardVintage(all, cutoff),
             refused |-> all # GuardVintage(all, cutoff) \/ ~ Symmetric(all)]
      BY <3>1 DEF Dataset
    <3> HIDE DEF all
    <3> QED
      BY <2>1, <3>2
  <2>3. read \subseteq DOMAIN rows
    BY DEF RawBeforeCutoff
  <2>4. Symmetric(all)
    BY <1>0, <2>3, BothSidesKept
  <2>5. /\ GuardVintage(all, cutoff) = all
        /\ \A x \in all : x.sourceDate + AvailabilityLag < cutoff
                          /\ snapshot.published < cutoff
    BY <1>0, VintageKeepsAll
  <2> HIDE DEF read, date, all
  <2> QED
    BY <1>1, <2>2, <2>4, <2>5
<1>2. CASE d.policy = "finalized"
  <2>1. PICK second \in Results :
          d = Dataset(snapshot, cutoff, "finalized", Crosswalk(rows, second))
    BY <1>2 DEF Ingested
  <2>2. PICK read : read = RawFinalized(Crosswalk(rows, second), cutoff)
    OBVIOUS
  <2>3. PICK date : date = Crosswalk(rows, second).date
    OBVIOUS
  <2> DEFINE all == ServiceRows(snapshot, read, date)
  <2>4. d.rows = GuardFinalized(all, cutoff) /\ d.refused = (all # d.rows \/ ~ Symmetric(all))
    <3>1. /\ Read(snapshot, cutoff, "finalized", Crosswalk(rows, second)) = read
          /\ DatesOf(snapshot, "finalized", Crosswalk(rows, second)) = date
          /\ \A set : Guarded(set, cutoff, "finalized") = GuardFinalized(set, cutoff)
      BY <2>2, <2>3 DEF Read, DatesOf, Guarded
    <3> HIDE DEF snapshot, cutoff
    <3>2. Dataset(snapshot, cutoff, "finalized", Crosswalk(rows, second)) =
            [snapshot |-> snapshot, cutoff |-> cutoff, policy |-> "finalized",
             rows |-> GuardFinalized(all, cutoff),
             refused |-> all # GuardFinalized(all, cutoff) \/ ~ Symmetric(all)]
      BY <3>1 DEF Dataset
    <3> HIDE DEF all
    <3> QED
      BY <2>1, <3>2
  <2>5. read \subseteq DOMAIN rows
    BY <2>2 DEF RawFinalized, Crosswalk
  <2>6. Symmetric(all)
    BY <1>0, <2>5, BothSidesKept
  <2>7. GuardFinalized(all, cutoff) = all /\ \A x \in all : x.matchDate < cutoff
    BY <1>0, <2>2, <2>3, FinalizedKeepsAll
  <2> HIDE DEF all
  <2> QED
    BY <1>2, <2>4, <2>6, <2>7
<1> QED
  BY <1>1, <1>2 DEF Ingested

-----------------------------------------------------------------------------
(* Rows that are not read *)

\* Nothing but the rows that are read has a part in what is accepted.
LEMMA ReadDecides ==
  ASSUME NEW a, NEW b, NEW read, read \subseteq DOMAIN a, read \subseteq DOMAIN b,
         \A i \in read : a[i] = b[i]
  PROVE  AcceptedMatches(a, read) = AcceptedMatches(b, read)
<1>1. Identified(a, read) = Identified(b, read) /\ Identified(a, read) \subseteq read
  BY DEF Identified
<1> DEFINE compared == Identified(a, read)
<1>2. ASSUME NEW i \in compared
      PROVE  Duplicate(a, compared, i) <=> Duplicate(b, compared, i)
  <2>1. KeyGroup(a, compared, i) = KeyGroup(b, compared, i)
    BY <1>1 DEF KeyGroup, SameKey
  <2>2. KeyGroup(a, compared, i) \subseteq read
    BY <1>1 DEF KeyGroup
  <2> DEFINE group == KeyGroup(a, compared, i)
  <2>3. ExactRepetition(a, group) <=> ExactRepetition(b, group)
    BY <2>2 DEF ExactRepetition
  <2> HIDE DEF group
  <2> QED
    BY <2>1, <2>3 DEF Duplicate, group
<1>3. ASSUME NEW i \in compared
      PROVE  /\ ~ Duplicate(a, ComparedRows(a, read), i) <=> ~ Duplicate(b, ComparedRows(b, read), i)
             /\ a[i] = b[i]
  BY <1>1, <1>2 DEF ComparedRows
<1> HIDE DEF compared
<1> QED
  BY <1>1, <1>3 DEF AcceptedMatches, compared

LEMMA SameReadSameRows ==
  ASSUME NEW a, NEW b, NEW cutoff, a.published = b.published,
         RawBeforeCutoff(a, cutoff) = RawBeforeCutoff(b, cutoff),
         \A i \in RawBeforeCutoff(a, cutoff) : a.rows[i] = b.rows[i]
  PROVE  Dataset(a, cutoff, "vintage", NoCrosswalk).rows
           = Dataset(b, cutoff, "vintage", NoCrosswalk).rows
<1> DEFINE read == RawBeforeCutoff(a, cutoff)
           dateA == [i \in DOMAIN a.rows |-> Unreadable]
           dateB == [i \in DOMAIN b.rows |-> Unreadable]
<1>1. read \subseteq DOMAIN a.rows /\ read \subseteq DOMAIN b.rows
  BY DEF RawBeforeCutoff
<1>2. AcceptedMatches(a.rows, read) = AcceptedMatches(b.rows, read)
  BY <1>1, ReadDecides
<1>3. ASSUME NEW i \in AcceptedMatches(a.rows, read)
      PROVE  a.rows[i] = b.rows[i] /\ dateA[i] = dateB[i]
  <2>1. i \in read
    BY DEF AcceptedMatches, Identified
  <2> QED
    BY <1>1, <2>1
<1> HIDE DEF read, dateA, dateB
<1>4. ServiceRows(a, read, dateA) = ServiceRows(b, read, dateB)
  BY <1>2, <1>3 DEF ServiceRows
<1>5. ASSUME NEW s \in {a, b}
      PROVE  Dataset(s, cutoff, "vintage", NoCrosswalk).rows =
               GuardVintage(ServiceRows(s, RawBeforeCutoff(s, cutoff),
                                        [i \in DOMAIN s.rows |-> Unreadable]), cutoff)
  BY DEF Dataset, Read, DatesOf, Guarded
<1> QED
  BY <1>4, <1>5 DEF read, dateA, dateB

LEMMA EarlyAlone ==
  ASSUME NEW d, Ingested(d), d.policy = "vintage"
  PROVE  LET Early(row) == row.start # Unreadable
                           /\ AvailableFrom(row, d.snapshot.published) < d.cutoff
             given == d.snapshot.rows
             early == Restrict(given, {i \in DOMAIN given : Early(given[i])})
         IN  d.rows = Dataset([d.snapshot EXCEPT !.rows = early], d.cutoff, "vintage",
                              NoCrosswalk).rows
<1> DEFINE Early(row) == row.start # Unreadable
                         /\ AvailableFrom(row, d.snapshot.published) < d.cutoff
           given == d.snapshot.rows
           early == Restrict(given, {i \in DOMAIN given : Early(given[i])})
           alone == [d.snapshot EXCEPT !.rows = early]
<1>1. alone.rows = early /\ alone.published = d.snapshot.published
  BY DEF Ingested
<1>2. /\ DOMAIN early = {i \in DOMAIN given : Early(given[i])}
      /\ \A i \in DOMAIN early : early[i] = given[i]
  BY DEF Restrict
<1>3. d = Dataset(d.snapshot, d.cutoff, "vintage", NoCrosswalk)
  BY DEF Ingested
<1> HIDE DEF early, alone
<1>4. RawBeforeCutoff(alone, d.cutoff) = RawBeforeCutoff(d.snapshot, d.cutoff)
  BY <1>1, <1>2 DEF RawBeforeCutoff
<1>5. \A i \in RawBeforeCutoff(alone, d.cutoff) : alone.rows[i] = d.snapshot.rows[i]
  BY <1>1, <1>2 DEF RawBeforeCutoff
<1>6. d.rows = Dataset(alone, d.cutoff, "vintage", NoCrosswalk).rows
  BY <1>1, <1>3, <1>4, <1>5, SameReadSameRows
<1> QED
  BY <1>6 DEF early, alone

LEMMA LaterAdded ==
  ASSUME NEW d, Ingested(d), d.policy = "vintage", NEW rows,
         DOMAIN d.snapshot.rows \subseteq DOMAIN rows,
         \A i \in DOMAIN d.snapshot.rows : rows[i] = d.snapshot.rows[i],
         \A i \in DOMAIN rows \ DOMAIN d.snapshot.rows :
           ~ (/\ rows[i].start # Unreadable
              /\ AvailableFrom(rows[i], d.snapshot.published) < d.cutoff)
  PROVE  d.rows = Dataset([d.snapshot EXCEPT !.rows = rows], d.cutoff, "vintage",
                          NoCrosswalk).rows
<1> DEFINE later == [d.snapshot EXCEPT !.rows = rows]
<1>1. later.rows = rows /\ later.published = d.snapshot.published
  BY DEF Ingested
<1>2. d = Dataset(d.snapshot, d.cutoff, "vintage", NoCrosswalk)
  BY DEF Ingested
<1> HIDE DEF later
<1>3. RawBeforeCutoff(later, d.cutoff) = RawBeforeCutoff(d.snapshot, d.cutoff)
  BY <1>1 DEF RawBeforeCutoff
<1>4. \A i \in RawBeforeCutoff(later, d.cutoff) : later.rows[i] = d.snapshot.rows[i]
  BY <1>1, <1>3 DEF RawBeforeCutoff
<1>5. d.rows = Dataset(later, d.cutoff, "vintage", NoCrosswalk).rows
  BY <1>1, <1>2, <1>3, <1>4, SameReadSameRows
<1> QED
  BY <1>5 DEF later

-----------------------------------------------------------------------------
(* Every ingestion *)

\* A pinned crosswalk is one of a table the source was once, with the second
\* source; a dataset is of a table that the source still begins with.
IngestInv ==
  /\ today \in Nat /\ source \in Seq(RawRows) /\ others \in Results
  /\ pinned = NoCrosswalk \/ \E first : pinned = Crosswalk(first, others)
  /\ \A d \in datasets :
       /\ Ingested(d)
       /\ Len(d.snapshot.rows) <= Len(source)
       /\ \A i \in DOMAIN d.snapshot.rows : source[i] = d.snapshot.rows[i]

LEMMA IngestStarts == IngestionInit => IngestInv
<1> SUFFICES ASSUME IngestionInit PROVE IngestInv
  OBVIOUS
<1>1. <<>> \in Seq(RawRows)
  BY EmptySeq
<1> QED
  BY <1>1 DEF IngestionInit, IngestInv

LEMMA IngestAdds ==
  ASSUME IngestInv, NEW published \in {0, today}, NEW cutoff \in 1..(today + 1),
         NEW policy \in {"vintage", "finalized"}, Ingest(published, cutoff, policy)
  PROVE  IngestInv'
<1> DEFINE snapshot == [rows |-> source, published |-> published]
           crosswalk == IF policy = "finalized" THEN pinned ELSE NoCrosswalk
           new == Dataset(snapshot, cutoff, policy, crosswalk)
<1>1. datasets' = datasets \cup {new} /\ UNCHANGED <<today, source, others, pinned>>
  BY DEF Ingest
<1>2. new.snapshot = snapshot /\ new.cutoff = cutoff /\ new.policy = policy
  BY DEF Dataset
<1>3. \E second \in Results :
        crosswalk = IF policy = "finalized" THEN Crosswalk(source, second) ELSE NoCrosswalk
  <2>1. CASE policy = "finalized"
    <3>1. pinned # NoCrosswalk /\ pinned.table = source
      BY <2>1 DEF Ingest
    <3>2. PICK first : pinned = Crosswalk(first, others)
      BY <3>1 DEF IngestInv
    <3>3. pinned.table = first
      BY <3>2 DEF Crosswalk
    <3>4. pinned = Crosswalk(source, others) /\ others \in Results
      BY <3>1, <3>2, <3>3 DEF IngestInv
    <3> QED
      BY <2>1, <3>4
  <2>2. CASE policy # "finalized"
    BY <2>2 DEF IngestInv
  <2> QED
    BY <2>1, <2>2
<1>4. published \in Nat /\ cutoff \in Nat /\ source \in Seq(RawRows)
  BY DEF IngestInv
<1>5. Ingested(new)
  <2>1. snapshot.rows = source /\ snapshot.published = published
    BY <1>4
  <2>2. PICK second \in Results :
          crosswalk = IF policy = "finalized" THEN Crosswalk(source, second) ELSE NoCrosswalk
    BY <1>3
  <2>3. new = Dataset(snapshot, cutoff, policy,
                      IF policy = "finalized" THEN Crosswalk(snapshot.rows, second)
                                              ELSE NoCrosswalk)
    BY <2>1, <2>2
  <2>4. snapshot = [rows |-> snapshot.rows, published |-> snapshot.published]
    OBVIOUS
  <2> HIDE DEF snapshot, crosswalk, new
  <2> QED
    BY <1>2, <1>4, <2>1, <2>3, <2>4 DEF Ingested
<1>6. Len(source) <= Len(source)
  BY <1>4, LenProperties
<1>7. new.snapshot.rows = source
  BY <1>2, <1>4
<1> HIDE DEF new, snapshot, crosswalk
<1> QED
  BY <1>1, <1>5, <1>6, <1>7 DEF IngestInv

LEMMA PublishAdds ==
  ASSUME IngestInv, NEW row \in RawRows, Publish(row)
  PROVE  IngestInv'
<1>1. source' = Append(source, row) /\ UNCHANGED <<today, others, pinned, datasets>>
  BY DEF Publish
<1>2. /\ source' \in Seq(RawRows) /\ Len(source') = Len(source) + 1 /\ Len(source) \in Nat
      /\ \A i \in 1..Len(source) : source'[i] = source[i]
  BY <1>1, AppendProperties, LenProperties DEF IngestInv
<1>3. ASSUME NEW d \in datasets
      PROVE  /\ Len(d.snapshot.rows) <= Len(source')
             /\ \A i \in DOMAIN d.snapshot.rows : source'[i] = d.snapshot.rows[i]
  <2>1. /\ d.snapshot.rows \in Seq(RawRows) /\ Len(d.snapshot.rows) <= Len(source)
        /\ \A i \in DOMAIN d.snapshot.rows : source[i] = d.snapshot.rows[i]
    BY DEF IngestInv, Ingested
  <2>2. DOMAIN d.snapshot.rows = 1..Len(d.snapshot.rows) /\ Len(d.snapshot.rows) \in Nat
    BY <2>1, LenProperties
  <2> QED
    BY <1>2, <2>1, <2>2
<1> QED
  BY <1>1, <1>2, <1>3 DEF IngestInv

LEMMA IngestKeeps == IngestInv /\ [IngestionNext]_ingestionVars => IngestInv'
<1> SUFFICES ASSUME IngestInv, [IngestionNext]_ingestionVars PROVE IngestInv'
  OBVIOUS
<1>1. CASE NextDay
  BY <1>1 DEF NextDay, IngestInv
<1>2. ASSUME NEW row \in RawRows, Publish(row) PROVE IngestInv'
  BY <1>2, PublishAdds
<1>3. CASE PinCrosswalk
  BY <1>3 DEF PinCrosswalk, IngestInv
<1>4. ASSUME NEW published \in {0, today}, NEW cutoff \in 1..(today + 1),
             NEW policy \in {"vintage", "finalized"}, Ingest(published, cutoff, policy)
      PROVE  IngestInv'
  BY <1>4, IngestAdds
<1>5. CASE UNCHANGED ingestionVars
  BY <1>5 DEF ingestionVars, IngestInv
<1> QED
  BY <1>1, <1>2, <1>3, <1>4, <1>5 DEF IngestionNext

\* For any rows, corrections and repetitions of a source, any second source and
\* any policy of names: a dataset keeps to its cutoff, every match in it has
\* both its players, and what passes the first filter passes the second guard.
THEOREM IngestionKeepsToCutoff == IngestionSpec => []TrainingKeepsToCutoff
<1>1. IngestInv => TrainingKeepsToCutoff
  BY IngestedKeeps DEF IngestInv, TrainingKeepsToCutoff
<1> QED
  BY <1>1, IngestStarts, IngestKeeps, PTL DEF IngestionSpec

\* And what is published after a vintage cutoff changes nothing of the matches
\* that were known before it.
THEOREM HistoryIsStable == IngestionSpec => []EarlierHistoryStable
<1>1. IngestInv => EarlierHistoryStable
  <2> SUFFICES ASSUME IngestInv, NEW d \in datasets, d.policy = "vintage"
               PROVE  LET Early(row) == row.start # Unreadable
                            /\ AvailableFrom(row, d.snapshot.published) < d.cutoff
                          From(rows) == Dataset([d.snapshot EXCEPT !.rows = rows],
                                                d.cutoff, "vintage", NoCrosswalk).rows
                          given == d.snapshot.rows
                      IN  /\ d.rows = From(Restrict(given,
                                             {i \in DOMAIN given : Early(given[i])}))
                          /\ (\A i \in DOMAIN source :
                                i > Len(given) => ~ Early(source[i]))
                               => d.rows = From(source)
    BY DEF EarlierHistoryStable
  <2> DEFINE Early(row) == row.start # Unreadable
                           /\ AvailableFrom(row, d.snapshot.published) < d.cutoff
             given == d.snapshot.rows
  <2>1. /\ Ingested(d) /\ Len(given) <= Len(source) /\ source \in Seq(RawRows)
        /\ \A i \in DOMAIN given : source[i] = given[i]
    BY DEF IngestInv
  <2>2. /\ DOMAIN given = 1..Len(given) /\ Len(given) \in Nat
        /\ DOMAIN source = 1..Len(source) /\ Len(source) \in Nat
    <3>1. given \in Seq(RawRows)
      BY <2>1 DEF Ingested
    <3> QED
      BY <2>1, <3>1, LenProperties
  <2>3. d.rows = Dataset([d.snapshot EXCEPT !.rows =
                            Restrict(given, {i \in DOMAIN given : Early(given[i])})],
                         d.cutoff, "vintage", NoCrosswalk).rows
    BY <2>1, EarlyAlone
  <2>4. ASSUME \A i \in DOMAIN source : i > Len(given) => ~ Early(source[i])
        PROVE  d.rows = Dataset([d.snapshot EXCEPT !.rows = source], d.cutoff, "vintage",
                                NoCrosswalk).rows
    <3>1. DOMAIN given \subseteq DOMAIN source
      BY <2>1, <2>2
    <3>2. \A i \in DOMAIN source \ DOMAIN given : ~ Early(source[i])
      BY <2>2, <2>4
    <3> QED
      BY <2>1, <3>1, <3>2, LaterAdded
  <2> QED
    BY <2>3, <2>4
<1> QED
  BY <1>1, IngestStarts, IngestKeeps, PTL DEF IngestionSpec

\* Whatever the second source says, and however often its tables are joined: no
\* row of it dates two matches, and a match is dated by the only row that may
\* be of it (build_exact_date_crosswalk).
THEOREM DatesNeverShared == IngestionSpec => []DatesAreTheirOwn
<1>1. IngestInv => DatesAreTheirOwn
  <2> SUFFICES ASSUME IngestInv PROVE DatesAreTheirOwn
    OBVIOUS
  <2>1. CASE pinned = NoCrosswalk
    BY <2>1, NoDatesAtAll
  <2>2. CASE pinned # NoCrosswalk
    BY <2>2, CrosswalkOwnDates DEF IngestInv
  <2> QED
    BY <2>1, <2>2
<1> QED
  BY <1>1, IngestStarts, IngestKeeps, PTL DEF IngestionSpec

-----------------------------------------------------------------------------
(* The design of a serve component *)

\* Things with a place each can be put in order,
Ascending(s, place) == \A k, l \in DOMAIN s : k < l => place[s[k]] < place[s[l]]
Placed(S, place) ==
  /\ \A x \in S : place[x] \in Nat
  /\ \A x, y \in S : place[x] = place[y] => x = y

LEMMA OrderExists ==
  ASSUME NEW S, IsFiniteSet(S), NEW place, Placed(S, place)
  PROVE  \E s \in [1..Cardinality(S) -> S] : Ascending(s, place)
<1> DEFINE G == {T \in SUBSET S : \E s \in [1..Cardinality(T) -> T] : Ascending(s, place)}
<1>1. ASSUME NEW T \in SUBSET S, \A r \in SUBSET T : r # T => r \in G
      PROVE  T \in G
  <2>1. IsFiniteSet(T) /\ Cardinality(T) \in Nat
    BY FS_Subset, FS_CardinalityType
  <2>2. CASE T = {}
    <3>1. Cardinality(T) = 0
      BY <2>2, FS_EmptySet
    <3>2. PICK s : s = [i \in 1..0 |-> 0]
      OBVIOUS
    <3>3. s \in [1..Cardinality(T) -> T] /\ Ascending(s, place)
      BY <3>1, <3>2 DEF Ascending
    <3> QED
      BY <3>3
  <2>3. CASE T # {}
    <3>1. PICK x \in T : \A y \in T : place[y] <= place[x]
      <4> DEFINE P == {place[y] : y \in T}
      <4>1. IsFiniteSet(P)
        <5>1. PICK f : f = [y \in T |-> place[y]]
          OBVIOUS
        <5>2. f \in Surjection(T, P)
          BY <5>1 DEF Surjection
        <5> QED
          BY <2>1, <5>2, FS_Surjection
      <4>2. P \in SUBSET Int /\ P # {}
        BY <2>3 DEF Placed
      <4>3. Max(P) \in P /\ \A n \in P : n <= Max(P)
        BY <4>1, <4>2, MaxOfFinite
      <4> QED
        BY <4>3
    <3> DEFINE U == T \ {x}
    <3>2. U \in G
      BY <1>1
    <3>3. IsFiniteSet(U) /\ Cardinality(U) = Cardinality(T) - 1 /\ Cardinality(U) \in Nat
      BY <2>1, FS_RemoveElement, FS_CardinalityType
    <3>4. PICK n \in Nat : n = Cardinality(U) /\ Cardinality(T) = n + 1
      BY <2>1, <3>3
    <3>5. PICK s \in [1..n -> U] : Ascending(s, place)
      BY <3>2, <3>4
    <3> DEFINE t == [i \in 1..(n + 1) |-> IF i = n + 1 THEN x ELSE s[i]]
    <3>6. t \in [1..(n + 1) -> T]
      BY <3>5
    <3>7. ASSUME NEW k \in 1..(n + 1), NEW l \in 1..(n + 1), k < l
          PROVE  place[t[k]] < place[t[l]]
      <4>1. k \in 1..n /\ t[k] = s[k] /\ s[k] \in U
        BY <3>5, <3>7
      <4>2. CASE l = n + 1
        <5>1. place[s[k]] <= place[x] /\ place[s[k]] # place[x]
          BY <3>1, <4>1 DEF Placed
        <5>2. place[s[k]] \in Nat /\ place[x] \in Nat
          BY <4>1 DEF Placed
        <5> QED
          BY <4>1, <4>2, <5>1, <5>2
      <4>3. CASE l # n + 1
        BY <3>5, <3>7, <4>1, <4>3 DEF Ascending
      <4> QED
        BY <4>2, <4>3
    <3>8. Ascending(t, place)
      BY <3>6, <3>7 DEF Ascending
    <3> QED
      BY <3>4, <3>6, <3>8
  <2> QED
    BY <2>2, <2>3
<1>2. SUBSET S \subseteq G
  <2> HIDE DEF G
  <2> QED
    BY <1>1, SmallerFirst
<1> QED
  BY <1>2

\* and InOrder does: each is there once.
LEMMA OrderIs ==
  ASSUME NEW S, IsFiniteSet(S), NEW place, Placed(S, place), NEW s, s = InOrder(S, place)
  PROVE  /\ s \in Seq(S) /\ Len(s) = Cardinality(S) /\ Cardinality(S) \in Nat
         /\ Ascending(s, place) /\ Range(s) = S
         /\ \A k, l \in DOMAIN s : s[k] = s[l] => k = l
<1>1. PICK n \in Nat : n = Cardinality(S)
  BY FS_CardinalityType
<1>2. s \in [1..n -> S] /\ Ascending(s, place)
  <2>1. \E t \in [1..n -> S] : \A k, l \in DOMAIN t : k < l => place[t[k]] < place[t[l]]
    BY <1>1, OrderExists DEF Ascending
  <2>2. s = CHOOSE t \in [1..n -> S] : \A k, l \in DOMAIN t : k < l => place[t[k]] < place[t[l]]
    BY <1>1 DEF InOrder
  <2> QED
    BY <2>1, <2>2 DEF Ascending
<1>3. s \in Seq(S) /\ Len(s) = n
  BY <1>2
<1>4. ASSUME NEW k \in 1..n, NEW l \in 1..n, s[k] = s[l] PROVE k = l
  <2>1. ~ (k < l) /\ ~ (l < k)
    BY <1>2, <1>4 DEF Ascending, Placed
  <2> QED
    BY <2>1
<1>5. s \in Injection(1..n, S)
  BY <1>2, <1>4 DEF Injection, IsInjective
<1>6. IsFiniteSet(1..n) /\ Cardinality(1..n) = n
  BY FS_Interval
<1>7. s \in Surjection(1..n, S)
  BY <1>1, <1>5, <1>6, FS_Injection
<1>8. Range(s) = S
  BY <1>2, <1>7 DEF Surjection, Range
<1> QED
  BY <1>1, <1>2, <1>3, <1>4, <1>8

\* FlattenSeq, by which it goes from one sequence to the next.
Flattens(f, s, n) == f = [i \in 1..n |-> IF i = 1 THEN s[i] ELSE f[i - 1] \o s[i]]

LEMMA FlattensExists ==
  ASSUME NEW n \in Nat, NEW s
  PROVE  \E f : Flattens(f, s, n)
<1> DEFINE S == {m \in 0..n : \E f : Flattens(f, s, m)}
<1>1. 0 \in S
  <2>1. PICK f : f = [i \in 1..0 |-> 0]
    OBVIOUS
  <2>2. Flattens(f, s, 0)
    BY <2>1 DEF Flattens
  <2> QED
    BY <2>2
<1>2. ASSUME NEW m \in 0..n, m < n, m \in S PROVE m + 1 \in S
  <2>1. PICK f : Flattens(f, s, m)
    BY <1>2
  <2>2. PICK g : g = [i \in 1..(m + 1) |->
                        IF i = m + 1 THEN (IF i = 1 THEN s[i] ELSE f[i - 1] \o s[i]) ELSE f[i]]
    OBVIOUS
  <2>3. ASSUME NEW i \in 1..(m + 1)
        PROVE  g[i] = IF i = 1 THEN s[i] ELSE g[i - 1] \o s[i]
    <3>1. i # 1 => i - 1 \in 1..m /\ i - 1 # m + 1 /\ i - 1 \in 1..(m + 1)
      BY <1>2
    <3>2. i # 1 => g[i - 1] = f[i - 1]
      BY <2>2, <3>1
    <3>3. CASE i = m + 1
      BY <2>2, <3>2, <3>3
    <3>4. CASE i # m + 1
      <4>1. i \in 1..m
        BY <1>2, <3>4
      <4>2. f[i] = IF i = 1 THEN s[i] ELSE f[i - 1] \o s[i]
        BY <2>1, <4>1 DEF Flattens
      <4>3. g[i] = f[i]
        BY <2>2, <3>4
      <4> QED
        BY <3>2, <4>2, <4>3
    <3> QED
      BY <3>3, <3>4
  <2>4. g = [i \in 1..(m + 1) |-> g[i]]
    BY <2>2
  <2>5. Flattens(g, s, m + 1)
    BY <2>3, <2>4 DEF Flattens
  <2>6. m + 1 \in 0..n
    BY <1>2
  <2> QED
    BY <2>5, <2>6
<1>3. 0..n \subseteq S
  <2> HIDE DEF S
  <2> QED
    BY <1>1, <1>2, InductionTo
<1> QED
  BY <1>3

LEMMA FlattensAgree ==
  \A n \in Nat : \A m \in Nat : \A s, t, f, g :
    /\ n <= m /\ \A i \in 1..n : s[i] = t[i]
    /\ Flattens(f, s, n) /\ Flattens(g, t, m)
    => \A i \in 1..n : f[i] = g[i]
<1> SUFFICES ASSUME NEW n \in Nat, NEW m \in Nat, n <= m, NEW s, NEW t,
                    \A i \in 1..n : s[i] = t[i],
                    NEW f, Flattens(f, s, n), NEW g, Flattens(g, t, m)
             PROVE  \A i \in 1..n : f[i] = g[i]
  OBVIOUS
<1> DEFINE S == {k \in 0..n : \A i \in 1..k : f[i] = g[i]}
<1>1. 0 \in S
  OBVIOUS
<1>2. ASSUME NEW k \in 0..n, k < n, k \in S PROVE k + 1 \in S
  <2>1. k + 1 \in 1..n /\ k + 1 \in 1..m /\ (k + 1 # 1 => k \in 1..k) /\ (k + 1) - 1 = k
    BY <1>2
  <2>2. f[k + 1] = IF k + 1 = 1 THEN s[k + 1] ELSE f[(k + 1) - 1] \o s[k + 1]
    BY <2>1 DEF Flattens
  <2>3. g[k + 1] = IF k + 1 = 1 THEN t[k + 1] ELSE g[(k + 1) - 1] \o t[k + 1]
    BY <2>1 DEF Flattens
  <2>4. f[k + 1] = g[k + 1]
    BY <1>2, <2>1, <2>2, <2>3
  <2>5. \A i \in 1..(k + 1) : i \in 1..k \/ i = k + 1
    BY <1>2
  <2> QED
    BY <1>2, <2>1, <2>4, <2>5
<1>3. n \in S
  <2> HIDE DEF S
  <2> QED
    BY <1>1, <1>2, InductionTo
<1> QED
  BY <1>3

LEMMA FlattenIs ==
  ASSUME NEW s, Len(s) \in Nat, Len(s) # 0, NEW f, Flattens(f, s, Len(s))
  PROVE  FlattenSeq(s) = f[Len(s)]
<1>1. PICK g : g = CHOOSE h : Flattens(h, s, Len(s))
  OBVIOUS
<1>2. Flattens(g, s, Len(s))
  BY <1>1
<1>3. FlattenSeq(s) = g[Len(s)]
  BY <1>1 DEF FlattenSeq, Flattens
<1>4. PICK n \in Nat : n = Len(s)
  OBVIOUS
<1>5. g[n] = f[n]
  BY <1>2, <1>4, FlattensAgree
<1> QED
  BY <1>3, <1>4, <1>5

LEMMA FlattenNone == FlattenSeq(<<>>) = <<>>
BY DEF FlattenSeq

LEMMA FlattenAppend ==
  ASSUME NEW X, NEW s \in Seq(Seq(X)), NEW x \in Seq(X)
  PROVE  FlattenSeq(Append(s, x)) = FlattenSeq(s) \o x
<1>1. PICK n \in Nat : n = Len(s)
  OBVIOUS
<1>2. PICK t : t = Append(s, x)
  OBVIOUS
<1>3. PICK m \in Nat : m = n + 1
  OBVIOUS
<1>4. Len(t) = m /\ t[m] = x /\ (\A i \in 1..n : t[i] = s[i]) /\ m # 0 /\ m \in 1..m /\ n <= m
  BY <1>1, <1>2, <1>3
<1>5. PICK g : Flattens(g, t, m)
  BY FlattensExists
<1>6. FlattenSeq(t) = g[m]
  BY <1>4, <1>5, FlattenIs
<1>7. g[m] = IF m = 1 THEN x ELSE g[m - 1] \o x
  BY <1>4, <1>5 DEF Flattens
<1>8. CASE n = 0
  <2>1. s = <<>>
    <3>1. Len(s) = 0
      BY <1>1, <1>8
    <3> QED
      BY <3>1, EmptySeq, s \in Seq(Seq(X))
  <2>2. <<>> \o x = x
    OBVIOUS
  <2>3. g[m] = x
    BY <1>3, <1>7, <1>8
  <2> QED
    BY <1>2, <1>6, <2>1, <2>2, <2>3, FlattenNone
<1>9. CASE n # 0
  <2>1. PICK f : Flattens(f, s, n)
    BY FlattensExists
  <2>2. FlattenSeq(s) = f[n]
    BY <1>1, <1>9, <2>1, FlattenIs
  <2>3. n \in 1..n /\ m - 1 = n /\ m # 1
    BY <1>3, <1>9
  <2>4. \A i \in 1..n : s[i] = t[i]
    BY <1>4
  <2>5. \A i \in 1..n : f[i] = g[i]
    BY <1>4, <1>5, <2>1, <2>4, FlattensAgree
  <2> QED
    BY <1>2, <1>6, <1>7, <2>2, <2>3, <2>5
<1> QED
  BY <1>8, <1>9

\* The blocks of a design: one for each key, and no other.
KeyOf(b) == <<b.role, b.surface>>
IsListing(bs, K, X, rows) ==
  /\ bs \in Seq(X)
  /\ \A i \in DOMAIN bs : KeyOf(bs[i]) \in K /\ bs[i] = BlockOver(rows, bs[i].role, bs[i].surface)
  /\ \A i, j \in DOMAIN bs : KeyOf(bs[i]) = KeyOf(bs[j]) => i = j
  /\ \A k \in K : \E i \in DOMAIN bs : KeyOf(bs[i]) = k

LEMMA ListingOfOne ==
  ASSUME NEW rows, NEW X, NEW role, NEW surface, BlockOver(rows, role, surface) \in X
  PROVE  IsListing(<<BlockOver(rows, role, surface)>>, {<<role, surface>>}, X, rows)
<1>1. PICK b : b = BlockOver(rows, role, surface)
  OBVIOUS
<1>2. b.role = role /\ b.surface = surface
  BY <1>1 DEF BlockOver
<1>3. <<b>> \in Seq(X) /\ DOMAIN <<b>> = {1} /\ <<b>>[1] = b
  BY <1>1
<1> QED
  BY <1>1, <1>2, <1>3 DEF IsListing, KeyOf

LEMMA ListingOfNone == \A X, rows : IsListing(<<>>, {}, X, rows)
BY DEF IsListing

LEMMA ListingJoins ==
  ASSUME NEW rows, NEW X, NEW K, NEW L, K \cap L = {},
         NEW a, IsListing(a, K, X, rows), NEW b, IsListing(b, L, X, rows)
  PROVE  IsListing(a \o b, K \cup L, X, rows)
<1>1. PICK n \in Nat : n = Len(a)
  BY DEF IsListing
<1>2. PICK m \in Nat : m = Len(b)
  BY DEF IsListing
<1>3. PICK s : s = a \o b
  OBVIOUS
<1>4. /\ s \in Seq(X) /\ DOMAIN s = 1..(n + m) /\ DOMAIN a = 1..n /\ DOMAIN b = 1..m
      /\ \A i \in 1..(n + m) : s[i] = IF i <= n THEN a[i] ELSE b[i - n]
  BY <1>1, <1>2, <1>3 DEF IsListing
<1>5. ASSUME NEW i \in 1..(n + m)
      PROVE  \/ i \in 1..n /\ s[i] = a[i] /\ KeyOf(s[i]) \in K
             \/ i - n \in 1..m /\ i \notin 1..n /\ s[i] = b[i - n] /\ KeyOf(s[i]) \in L
  <2>1. CASE i <= n
    <3>1. i \in 1..n /\ s[i] = a[i]
      BY <1>4, <2>1
    <3>2. KeyOf(a[i]) \in K
      BY <1>4, <3>1 DEF IsListing
    <3> QED
      BY <3>1, <3>2
  <2>2. CASE ~ i <= n
    <3>1. i - n \in 1..m /\ i \notin 1..n /\ s[i] = b[i - n]
      BY <1>4, <2>2
    <3>2. KeyOf(b[i - n]) \in L
      BY <1>4, <3>1 DEF IsListing
    <3> QED
      BY <3>1, <3>2
  <2> QED
    BY <2>1, <2>2
<1>6. ASSUME NEW i \in 1..(n + m)
      PROVE  KeyOf(s[i]) \in K \cup L /\ s[i] = BlockOver(rows, s[i].role, s[i].surface)
  BY <1>4, <1>5 DEF IsListing
<1>7. ASSUME NEW i \in 1..(n + m), NEW j \in 1..(n + m), KeyOf(s[i]) = KeyOf(s[j]) PROVE i = j
  <2>1. CASE i \in 1..n
    <3>1. j \in 1..n /\ s[i] = a[i] /\ s[j] = a[j]
      BY <1>5, <1>7, <2>1
    <3> QED
      BY <1>4, <1>7, <2>1, <3>1 DEF IsListing
  <2>2. CASE i \notin 1..n
    <3>1. i - n \in 1..m /\ j - n \in 1..m /\ s[i] = b[i - n] /\ s[j] = b[j - n]
      BY <1>5, <1>7, <2>2
    <3>2. i - n = j - n
      BY <1>4, <1>7, <3>1 DEF IsListing
    <3> QED
      BY <3>2
  <2> QED
    BY <2>1, <2>2
<1>8. ASSUME NEW k \in K \cup L PROVE \E i \in 1..(n + m) : KeyOf(s[i]) = k
  <2>1. CASE k \in K
    <3>1. PICK i \in 1..n : KeyOf(a[i]) = k
      BY <1>4, <2>1 DEF IsListing
    <3>2. i \in 1..(n + m) /\ s[i] = a[i]
      BY <1>4
    <3> QED
      BY <3>1, <3>2
  <2>2. CASE k \in L
    <3>1. PICK i \in 1..m : KeyOf(b[i]) = k
      BY <1>4, <2>2 DEF IsListing
    <3>2. n + i \in 1..(n + m) /\ ~ (n + i <= n) /\ (n + i) - n = i
      OBVIOUS
    <3>3. s[n + i] = b[i]
      BY <1>4, <3>2
    <3> QED
      BY <3>1, <3>2, <3>3
  <2> QED
    BY <2>1, <2>2
<1> QED
  BY <1>3, <1>4, <1>6, <1>7, <1>8 DEF IsListing

\* The blocks of the two sides of a match.
SideBlocks(rows, c, server, returner, surface) ==
  <<BlockOver(rows, server, surface)>>
    \o (IF c \in OpponentComponents THEN <<BlockOver(rows, returner, surface)>> ELSE <<>>)
SideKeys(c, server, returner, surface) ==
  {<<server, surface>>} \cup (IF c \in OpponentComponents THEN {<<returner, surface>>} ELSE {})

LEMMA SidesListed ==
  ASSUME NEW rows, NEW X, NEW c, NEW server, NEW returner, server # returner, NEW surface,
         BlockOver(rows, server, surface) \in X, BlockOver(rows, returner, surface) \in X
  PROVE  IsListing(SideBlocks(rows, c, server, returner, surface),
                   SideKeys(c, server, returner, surface), X, rows)
<1>1. PICK a : a = <<BlockOver(rows, server, surface)>>
  OBVIOUS
<1>2. PICK b : b = IF c \in OpponentComponents
                   THEN <<BlockOver(rows, returner, surface)>> ELSE <<>>
  OBVIOUS
<1>3. PICK K : K = {<<server, surface>>}
  OBVIOUS
<1>4. PICK L : L = IF c \in OpponentComponents THEN {<<returner, surface>>} ELSE {}
  OBVIOUS
<1>5. IsListing(a, K, X, rows)
  BY <1>1, <1>3, ListingOfOne
<1>6. IsListing(b, L, X, rows)
  BY <1>2, <1>4, ListingOfOne, ListingOfNone
<1>7. K \cap L = {}
  BY <1>3, <1>4
<1>8. IsListing(a \o b, K \cup L, X, rows)
  BY <1>5, <1>6, <1>7, ListingJoins
<1> QED
  BY <1>1, <1>2, <1>3, <1>4, <1>8 DEF SideBlocks, SideKeys

\* The rows of a fit.
GoodRows(rows) ==
  /\ IsFiniteSet(rows) /\ rows # {}
  /\ \A r \in rows : /\ {r.player, r.opponent, r.surface} \subseteq DOMAIN Rank \ {NotKnown}
                     /\ r.event \in DOMAIN Rank \cup {NotKnown}
SurfacesOf(rows) == {r.surface : r \in rows}
BlockSet(rows) ==
  {BlockOver(rows, role, surface) :
     role \in {"server_global", "returner_global", "server_surface", "returner_surface",
               "event_year"},
     surface \in SurfacesOf(rows) \cup {NotKnown}}
GlobalKeys(c) == SideKeys(c, "server_global", "returner_global", NotKnown)
SurfaceKeys(c, surface) == SideKeys(c, "server_surface", "returner_surface", surface)
EventKeys(rows, c) ==
  IF c \in EventComponents /\ BlockOver(rows, "event_year", NotKnown).levels # <<>>
  THEN {<<"event_year", NotKnown>>} ELSE {}
BlockKeys(rows, c) ==
  GlobalKeys(c) \cup (UNION {SurfaceKeys(c, s) : s \in SurfacesOf(rows)}) \cup EventKeys(rows, c)

LEMMA NamesSorted ==
  ASSUME NEW S, IsFiniteSet(S), S \subseteq DOMAIN Rank, NEW s, s = Sorted(S)
  PROVE  /\ s \in Seq(S) /\ Len(s) = Cardinality(S) /\ Cardinality(S) \in Nat
         /\ Ascending(s, Rank) /\ Range(s) = S
         /\ \A k, l \in DOMAIN s : s[k] = s[l] => k = l
<1>1. Placed(S, Rank)
  BY DesignAssumption DEF Placed
<1>2. s = InOrder(S, Rank)
  BY DEF Sorted
<1> QED
  BY <1>1, <1>2, OrderIs

LEMMA SurfacesSorted ==
  ASSUME NEW rows, GoodRows(rows)
  PROVE  IsFiniteSet(SurfacesOf(rows)) /\ SurfacesOf(rows) \subseteq DOMAIN Rank
         /\ NotKnown \notin SurfacesOf(rows)
<1>1. PICK f : f = [r \in rows |-> r.surface]
  OBVIOUS
<1>2. f \in Surjection(rows, SurfacesOf(rows))
  BY <1>1 DEF Surjection, SurfacesOf
<1>3. IsFiniteSet(SurfacesOf(rows))
  BY <1>2, FS_Surjection DEF GoodRows
<1> QED
  BY <1>3 DEF GoodRows, SurfacesOf

LEMMA SurfacesListed ==
  ASSUME NEW rows, GoodRows(rows), NEW c, NEW surfaces, surfaces = Sorted(SurfacesOf(rows))
  PROVE  IsListing(FlattenSeq([i \in DOMAIN surfaces |->
                                 SideBlocks(rows, c, "server_surface", "returner_surface",
                                            surfaces[i])]),
                   UNION {SurfaceKeys(c, s) : s \in SurfacesOf(rows)}, BlockSet(rows), rows)
<1>1. PICK n \in Nat : n = Len(surfaces)
  BY SurfacesSorted, NamesSorted
<1>2. /\ DOMAIN surfaces = 1..n /\ Range(surfaces) = SurfacesOf(rows)
      /\ \A i \in 1..n : surfaces[i] \in SurfacesOf(rows)
      /\ \A i, j \in 1..n : surfaces[i] = surfaces[j] => i = j
  BY <1>1, SurfacesSorted, NamesSorted
<1> DEFINE Sides == [i \in 1..n |-> SideBlocks(rows, c, "server_surface", "returner_surface",
                                              surfaces[i])]
           Upto(m) == [i \in 1..m |-> Sides[i]]
           Keys(m) == UNION {SurfaceKeys(c, surfaces[i]) : i \in 1..m}
           S == {m \in 0..n : /\ Upto(m) \in Seq(Seq(BlockSet(rows)))
                              /\ IsListing(FlattenSeq(Upto(m)), Keys(m), BlockSet(rows), rows)}
<1>3. \A i \in 1..n : IsListing(Sides[i], SurfaceKeys(c, surfaces[i]), BlockSet(rows), rows)
  <2>1. SUFFICES ASSUME NEW i \in 1..n
                 PROVE  IsListing(Sides[i], SurfaceKeys(c, surfaces[i]), BlockSet(rows), rows)
    OBVIOUS
  <2>2. /\ BlockOver(rows, "server_surface", surfaces[i]) \in BlockSet(rows)
        /\ BlockOver(rows, "returner_surface", surfaces[i]) \in BlockSet(rows)
    BY <1>2 DEF BlockSet
  <2>3. "server_surface" # "returner_surface"
    OBVIOUS
  <2> QED
    BY <2>2, <2>3, SidesListed DEF SurfaceKeys
<1>4. 0 \in S
  <2>1. Upto(0) = <<>> /\ Keys(0) = {}
    OBVIOUS
  <2>2. FlattenSeq(Upto(0)) = <<>>
    BY <2>1, FlattenNone
  <2>3. Upto(0) \in Seq(Seq(BlockSet(rows)))
    BY <2>1
  <2>4. IsListing(FlattenSeq(Upto(0)), Keys(0), BlockSet(rows), rows)
    BY <2>1, <2>2, ListingOfNone
  <2> QED
    BY <2>3, <2>4
<1> HIDE DEF Sides
<1>5. ASSUME NEW m \in 0..n, m < n, m \in S PROVE m + 1 \in S
  <2>1. m + 1 \in 1..n /\ m \in Nat
    BY <1>5
  <2>2. Sides[m + 1] \in Seq(BlockSet(rows))
    BY <1>3, <2>1 DEF IsListing
  <2>3. Upto(m + 1) = Append(Upto(m), Sides[m + 1])
    BY <2>1
  <2>4. Upto(m + 1) \in Seq(Seq(BlockSet(rows)))
    BY <1>5, <2>2, <2>3
  <2>5. FlattenSeq(Upto(m + 1)) = FlattenSeq(Upto(m)) \o Sides[m + 1]
    BY <1>5, <2>2, <2>3, FlattenAppend
  <2>6. Keys(m + 1) = Keys(m) \cup SurfaceKeys(c, surfaces[m + 1])
    BY <2>1
  <2>7. Keys(m) \cap SurfaceKeys(c, surfaces[m + 1]) = {}
    <3>1. \A i \in 1..m : surfaces[i] # surfaces[m + 1]
      BY <1>2, <1>5, <2>1
    <3> QED
      BY <3>1 DEF SurfaceKeys, SideKeys
  <2>8. IsListing(FlattenSeq(Upto(m)), Keys(m), BlockSet(rows), rows)
    BY <1>5
  <2>9. IsListing(Sides[m + 1], SurfaceKeys(c, surfaces[m + 1]), BlockSet(rows), rows)
    BY <1>3, <2>1
  <2> HIDE DEF Upto, Keys
  <2>10. IsListing(FlattenSeq(Upto(m + 1)), Keys(m + 1), BlockSet(rows), rows)
    <3>1. PICK K : K = Keys(m)
      OBVIOUS
    <3>2. PICK L : L = SurfaceKeys(c, surfaces[m + 1])
      OBVIOUS
    <3>3. PICK a : a = FlattenSeq(Upto(m))
      OBVIOUS
    <3>4. PICK b : b = Sides[m + 1]
      OBVIOUS
    <3>5. IsListing(a \o b, K \cup L, BlockSet(rows), rows)
      BY <2>7, <2>8, <2>9, <3>1, <3>2, <3>3, <3>4, ListingJoins
    <3> QED
      BY <2>5, <2>6, <3>1, <3>2, <3>3, <3>4, <3>5
  <2> QED
    BY <2>1, <2>4, <2>10
<1>6. n \in S
  <2> HIDE DEF S
  <2> QED
    BY <1>4, <1>5, InductionTo
<1>7. Upto(n) = [i \in DOMAIN surfaces |->
                  SideBlocks(rows, c, "server_surface", "returner_surface", surfaces[i])]
  BY <1>2 DEF Sides
<1>8. Keys(n) = UNION {SurfaceKeys(c, s) : s \in SurfacesOf(rows)}
  BY <1>2 DEF Range
<1> QED
  BY <1>6, <1>7, <1>8

LEMMA BlocksListed ==
  ASSUME NEW rows, GoodRows(rows), NEW c
  PROVE  IsListing(BlocksOf(rows, c), BlockKeys(rows, c), BlockSet(rows), rows)
<1>1. PICK surfaces : surfaces = Sorted(SurfacesOf(rows))
  OBVIOUS
<1>2. PICK x : x = SideBlocks(rows, c, "server_global", "returner_global", NotKnown)
  OBVIOUS
<1>3. PICK y : y = FlattenSeq([i \in DOMAIN surfaces |->
                                SideBlocks(rows, c, "server_surface", "returner_surface",
                                           surfaces[i])])
  OBVIOUS
<1>4. PICK z : z = IF c \in EventComponents
                      /\ BlockOver(rows, "event_year", NotKnown).levels # <<>>
                   THEN <<BlockOver(rows, "event_year", NotKnown)>> ELSE <<>>
  OBVIOUS
<1>5. PICK K : K = UNION {SurfaceKeys(c, s) : s \in SurfacesOf(rows)}
  OBVIOUS
<1>6. BlocksOf(rows, c) = x \o y \o z
  BY <1>1, <1>2, <1>3, <1>4 DEF BlocksOf, SideBlocks, SurfacesOf
<1>7. IsListing(x, GlobalKeys(c), BlockSet(rows), rows)
  <2>1. /\ BlockOver(rows, "server_global", NotKnown) \in BlockSet(rows)
        /\ BlockOver(rows, "returner_global", NotKnown) \in BlockSet(rows)
    BY DEF BlockSet
  <2>2. "server_global" # "returner_global"
    OBVIOUS
  <2> QED
    BY <1>2, <2>1, <2>2, SidesListed DEF GlobalKeys
<1>8. IsListing(y, K, BlockSet(rows), rows)
  BY <1>1, <1>3, <1>5, SurfacesListed
<1>9. IsListing(z, EventKeys(rows, c), BlockSet(rows), rows)
  <2>1. BlockOver(rows, "event_year", NotKnown) \in BlockSet(rows)
    BY DEF BlockSet
  <2> QED
    BY <1>4, <2>1, ListingOfOne, ListingOfNone DEF EventKeys
<1>10. GlobalKeys(c) \cap K = {} /\ (GlobalKeys(c) \cup K) \cap EventKeys(rows, c) = {}
  BY <1>5 DEF GlobalKeys, SurfaceKeys, SideKeys, EventKeys
<1>11. IsListing(x \o y, GlobalKeys(c) \cup K, BlockSet(rows), rows)
  BY <1>7, <1>8, <1>10, ListingJoins
<1>12. IsListing((x \o y) \o z, (GlobalKeys(c) \cup K) \cup EventKeys(rows, c),
                 BlockSet(rows), rows)
  BY <1>9, <1>10, <1>11, ListingJoins
<1>13. BlockKeys(rows, c) = (GlobalKeys(c) \cup K) \cup EventKeys(rows, c)
  BY <1>5 DEF BlockKeys
<1> QED
  BY <1>6, <1>12, <1>13

\* The levels of a block are those of its rows, each once and in order; it has one.
RowsOn(rows, surface) == {r \in rows : surface # NotKnown => r.surface = surface}
LevelSet(rows, role, surface) ==
  {LevelOf(role, r) : r \in RowsOn(rows, surface)} \ {NotKnown}
Roles == {"server_global", "returner_global", "server_surface", "returner_surface", "event_year"}

LEMMA KeyKinds ==
  ASSUME NEW rows, NEW c, NEW role, NEW surface, <<role, surface>> \in BlockKeys(rows, c)
  PROVE  \/ role \in {"server_global", "returner_global"} /\ surface = NotKnown
         \/ role \in {"server_surface", "returner_surface"} /\ surface \in SurfacesOf(rows)
         \/ /\ role = "event_year" /\ surface = NotKnown
            /\ BlockOver(rows, "event_year", NotKnown).levels # <<>>
<1>1. CASE <<role, surface>> \in GlobalKeys(c)
  BY <1>1 DEF GlobalKeys, SideKeys
<1>2. CASE <<role, surface>> \in UNION {SurfaceKeys(c, s) : s \in SurfacesOf(rows)}
  <2>1. PICK s \in SurfacesOf(rows) : <<role, surface>> \in SurfaceKeys(c, s)
    BY <1>2
  <2> QED
    BY <2>1 DEF SurfaceKeys, SideKeys
<1>3. CASE <<role, surface>> \in EventKeys(rows, c)
  BY <1>3 DEF EventKeys
<1> QED
  BY <1>1, <1>2, <1>3 DEF BlockKeys

LEMMA LevelIs ==
  ASSUME NEW role \in Roles, NEW r
  PROVE  LevelOf(role, r) =
           IF role \in {"server_global", "server_surface"} THEN r.player
           ELSE IF role \in {"returner_global", "returner_surface"} THEN r.opponent
           ELSE r.event
BY DEF LevelOf, Roles

AreLevels(levels, S) ==
  /\ levels \in Seq(DOMAIN Rank) /\ Len(levels) \in Nat
  /\ Ascending(levels, Rank) /\ Range(levels) = S /\ Len(levels) = Cardinality(S)
  /\ IsFiniteSet(S)
  /\ \A k, l \in DOMAIN levels : levels[k] = levels[l] => k = l

LEMMA LevelsSorted ==
  ASSUME NEW rows, GoodRows(rows), NEW role \in Roles, NEW surface,
         NEW levels, levels = BlockOver(rows, role, surface).levels
  PROVE  AreLevels(levels, LevelSet(rows, role, surface))
<1>1. PICK on : on = RowsOn(rows, surface)
  OBVIOUS
<1>2. IsFiniteSet(on)
  BY <1>1, FS_Subset DEF GoodRows, RowsOn
<1>3. PICK f : f = [r \in on |-> LevelOf(role, r)]
  OBVIOUS
<1>4. f \in Surjection(on, {LevelOf(role, r) : r \in on})
  BY <1>3 DEF Surjection
<1>5. IsFiniteSet({LevelOf(role, r) : r \in on})
  BY <1>2, <1>4, FS_Surjection
<1>6. PICK S : S = LevelSet(rows, role, surface)
  OBVIOUS
<1>7. IsFiniteSet(S)
  BY <1>1, <1>5, <1>6, FS_Subset DEF LevelSet
<1>8. S \subseteq DOMAIN Rank
  <2>1. ASSUME NEW r \in on PROVE LevelOf(role, r) \in DOMAIN Rank \cup {NotKnown}
    <3>1. r \in rows
      BY <1>1 DEF RowsOn
    <3> QED
      BY <3>1, LevelIs DEF GoodRows
  <2> QED
    BY <1>1, <1>6, <2>1 DEF LevelSet
<1>9. levels = Sorted(S)
  BY <1>6 DEF BlockOver, LevelSet, RowsOn
<1>10. /\ levels \in Seq(S) /\ Len(levels) \in Nat
       /\ Ascending(levels, Rank) /\ Range(levels) = S /\ Len(levels) = Cardinality(S)
       /\ \A k, l \in DOMAIN levels : levels[k] = levels[l] => k = l
  BY <1>7, <1>8, <1>9, NamesSorted
<1> QED
  BY <1>6, <1>7, <1>8, <1>10 DEF AreLevels

LEMMA LevelsThere ==
  ASSUME NEW rows, GoodRows(rows), NEW c, NEW role, NEW surface,
         <<role, surface>> \in BlockKeys(rows, c)
  PROVE  role \in Roles /\ BlockOver(rows, role, surface).levels # <<>>
<1>1. role \in Roles
  BY KeyKinds DEF Roles
<1>2. PICK levels : levels = BlockOver(rows, role, surface).levels
  OBVIOUS
<1>3. Range(levels) = LevelSet(rows, role, surface)
  BY <1>1, <1>2, LevelsSorted DEF AreLevels
<1>4. Range(<<>>) = {}
  BY DEF Range
<1>5. ASSUME NEW r \in RowsOn(rows, surface), role # "event_year" PROVE levels # <<>>
  <2>1. LevelOf(role, r) # NotKnown
    <3>1. r \in rows
      BY <1>5 DEF RowsOn
    <3> QED
      BY <1>1, <1>5, <3>1, LevelIs DEF GoodRows, Roles
  <2> QED
    BY <1>3, <1>4, <1>5, <2>1 DEF LevelSet
<1>6. CASE role \in {"server_global", "returner_global"} /\ surface = NotKnown
  <2>1. PICK r : r \in RowsOn(rows, surface)
    BY <1>6 DEF GoodRows, RowsOn
  <2> QED
    BY <1>1, <1>2, <1>5, <1>6, <2>1
<1>7. CASE role \in {"server_surface", "returner_surface"} /\ surface \in SurfacesOf(rows)
  <2>1. PICK r : r \in RowsOn(rows, surface)
    BY <1>7 DEF SurfacesOf, RowsOn
  <2> QED
    BY <1>1, <1>2, <1>5, <1>7, <2>1
<1>8. CASE /\ role = "event_year" /\ surface = NotKnown
           /\ BlockOver(rows, "event_year", NotKnown).levels # <<>>
  BY <1>1, <1>8
<1> QED
  BY <1>6, <1>7, <1>8, KeyKinds

\* Where the parts of a flattened sequence are.
FlatUpto(g, m) == FlattenSeq([i \in 1..m |-> g[i]])

LEMMA FlatSteps ==
  ASSUME NEW X, NEW n \in Nat, NEW g, \A i \in 1..n : g[i] \in Seq(X)
  PROVE  /\ FlatUpto(g, 0) = <<>>
         /\ \A m \in 0..n : FlatUpto(g, m) \in Seq(X)
         /\ \A m \in 0..n : m < n => FlatUpto(g, m + 1) = FlatUpto(g, m) \o g[m + 1]
<1> DEFINE Upto(m) == [i \in 1..m |-> g[i]]
           S == {m \in 0..n : FlatUpto(g, m) \in Seq(X)}
<1>1. Upto(0) = <<>>
  OBVIOUS
<1>2. FlatUpto(g, 0) = <<>>
  BY <1>1, FlattenNone DEF FlatUpto
<1>3. ASSUME NEW m \in 0..n, m < n
      PROVE  FlatUpto(g, m + 1) = FlatUpto(g, m) \o g[m + 1]
  <2>1. m + 1 \in 1..n /\ m \in Nat
    BY <1>3
  <2>2. Upto(m) \in Seq(Seq(X)) /\ g[m + 1] \in Seq(X)
    BY <2>1
  <2>3. Upto(m + 1) = Append(Upto(m), g[m + 1])
    BY <2>1
  <2> HIDE DEF Upto
  <2>4. FlattenSeq(Upto(m + 1)) = FlattenSeq(Upto(m)) \o g[m + 1]
    BY <2>2, <2>3, FlattenAppend
  <2> QED
    BY <2>4 DEF FlatUpto, Upto
<1>4. 0 \in S
  <2>1. <<>> \in Seq(X) /\ 0 \in 0..n
    OBVIOUS
  <2> QED
    BY <1>2, <2>1
<1>5. ASSUME NEW m \in 0..n, m < n, m \in S PROVE m + 1 \in S
  <2>1. m + 1 \in 1..n /\ m + 1 \in 0..n
    BY <1>5
  <2>2. PICK a \in Seq(X) : a = FlatUpto(g, m)
    BY <1>5
  <2>3. PICK b \in Seq(X) : b = g[m + 1]
    BY <2>1
  <2>4. a \o b \in Seq(X)
    OBVIOUS
  <2> QED
    BY <1>3, <1>5, <2>1, <2>2, <2>3, <2>4
<1>6. 0..n \subseteq S
  <2> HIDE DEF S
  <2> QED
    BY <1>4, <1>5, InductionTo
<1> QED
  BY <1>2, <1>3, <1>6

Offsets(o, g, n) ==
  /\ o \in [0..n -> Nat] /\ o[0] = 0
  /\ \A m \in 0..n : o[m] = Len(FlatUpto(g, m))
  /\ \A i \in 1..n : o[i] = o[i - 1] + Len(g[i])
  /\ \A i, j \in 0..n : i <= j => o[i] <= o[j]
  /\ \A i \in 1..n : \A k \in 1..Len(g[i]) : FlatUpto(g, n)[o[i - 1] + k] = g[i][k]
  /\ \A p \in 1..o[n] : \E i \in 1..n : \E k \in 1..Len(g[i]) : p = o[i - 1] + k

LEMMA FlatPlaces ==
  ASSUME NEW X, NEW n \in Nat, NEW g, \A i \in 1..n : g[i] \in Seq(X)
  PROVE  \E o : Offsets(o, g, n)
<1>1. PICK fl : fl = [m \in 0..n |-> FlatUpto(g, m)]
  OBVIOUS
<1>2. /\ fl[0] = <<>> /\ \A m \in 0..n : fl[m] \in Seq(X)
      /\ \A m \in 0..n : m < n => fl[m + 1] = fl[m] \o g[m + 1]
  <2>1. /\ FlatUpto(g, 0) = <<>>
        /\ \A m \in 0..n : FlatUpto(g, m) \in Seq(X)
        /\ \A m \in 0..n : m < n => FlatUpto(g, m + 1) = FlatUpto(g, m) \o g[m + 1]
    BY FlatSteps
  <2>2. 0 \in 0..n /\ \A m \in 0..n : m < n => m + 1 \in 0..n
    OBVIOUS
  <2> QED
    BY <1>1, <2>1, <2>2
<1>3. PICK o : o = [m \in 0..n |-> Len(fl[m])]
  OBVIOUS
<1>4. o \in [0..n -> Nat] /\ o[0] = 0 /\ \A m \in 0..n : o[m] = Len(fl[m])
  BY <1>2, <1>3
<1>5. ASSUME NEW m \in 0..n, m < n
      PROVE  /\ o[m + 1] = o[m] + Len(g[m + 1]) /\ Len(g[m + 1]) \in Nat
             /\ \A p \in 1..o[m] : fl[m + 1][p] = fl[m][p]
             /\ \A k \in 1..Len(g[m + 1]) : fl[m + 1][o[m] + k] = g[m + 1][k]
  <2>1. PICK a \in Seq(X) : a = fl[m]
    BY <1>2
  <2>2. PICK b \in Seq(X) : b = g[m + 1]
    BY <1>5
  <2>3. PICK h \in 0..n : h = m + 1
    BY <1>5
  <2>4. PICK c : c = a \o b
    OBVIOUS
  <2>5. fl[h] = c
    BY <1>2, <1>5, <2>1, <2>2, <2>3, <2>4
  <2>6. o[m] = Len(a) /\ o[h] = Len(c) /\ Len(b) \in Nat
    BY <1>4, <1>5, <2>1, <2>5
  <2>7. /\ Len(c) = Len(a) + Len(b)
        /\ \A p \in 1..Len(a) : c[p] = a[p]
        /\ \A k \in 1..Len(b) : c[Len(a) + k] = b[k]
    BY <2>4
  <2> QED
    BY <2>1, <2>2, <2>3, <2>5, <2>6, <2>7
<1> DEFINE P(m) ==
      /\ \A i, j \in 0..m : i <= j => o[i] <= o[j]
      /\ \A i \in 1..m : \A k \in 1..Len(g[i]) : fl[m][o[i - 1] + k] = g[i][k]
      /\ \A p \in 1..o[m] : \E i \in 1..m : \E k \in 1..Len(g[i]) : p = o[i - 1] + k
           S == {m \in 0..n : P(m)}
<1>6. 0 \in S
  BY <1>4
<1>7. ASSUME NEW m \in 0..n, m < n, m \in S PROVE m + 1 \in S
  <2>1. PICK h \in 1..n : h = m + 1 /\ h - 1 = m /\ h \in 0..n
    BY <1>7
  <2>2. PICK w \in Nat : w = Len(g[h]) /\ o[h] = o[m] + w
    BY <1>5, <1>7, <2>1
  <2>3. o[m] \in Nat /\ o[h] \in Nat
    BY <1>4, <1>7, <2>1
  <2>4. \A i, j \in 0..h : i <= j => o[i] <= o[j]
    <3>1. SUFFICES ASSUME NEW i \in 0..h, NEW j \in 0..h, i <= j PROVE o[i] <= o[j]
      OBVIOUS
    <3>2. o[i] \in Nat /\ o[j] \in Nat
      BY <1>4, <2>1, <3>1
    <3>3. CASE j \in 0..m
      BY <1>7, <3>1, <3>3
    <3>4. CASE j = h /\ i \in 0..m
      <4>1. o[i] <= o[m]
        BY <1>7, <3>4
      <4> QED
        BY <2>2, <2>3, <3>2, <3>4, <4>1
    <3>5. CASE i = j
      BY <3>2, <3>5
    <3> QED
      BY <2>1, <3>1, <3>3, <3>4, <3>5
  <2>5. ASSUME NEW i \in 1..h, NEW k \in 1..Len(g[i]) PROVE fl[h][o[i - 1] + k] = g[i][k]
    <3>1. CASE i = h
      BY <1>5, <1>7, <2>1, <2>5, <3>1
    <3>2. CASE i # h
      <4>1. i \in 1..m /\ i - 1 \in 0..m /\ i \in 1..n /\ i - 1 \in 0..n /\ i - 1 < n
            /\ (i - 1) + 1 = i
        BY <1>7, <2>1, <3>2
      <4>2. o[i] = o[i - 1] + Len(g[i]) /\ Len(g[i]) \in Nat
        BY <1>5, <4>1
      <4>3. o[i] <= o[m] /\ o[i - 1] \in Nat /\ o[i] \in Nat
        BY <1>4, <1>7, <4>1
      <4>4. o[i - 1] + k \in 1..o[m]
        BY <2>3, <2>5, <4>2, <4>3
      <4>5. fl[h][o[i - 1] + k] = fl[m][o[i - 1] + k]
        BY <1>5, <1>7, <2>1, <4>4
      <4> QED
        BY <1>7, <2>5, <4>1, <4>5
    <3> QED
      BY <3>1, <3>2
  <2>6. ASSUME NEW p \in 1..o[h]
        PROVE  \E i \in 1..h : \E k \in 1..Len(g[i]) : p = o[i - 1] + k
    <3>1. CASE p <= o[m]
      <4>1. PICK i \in 1..m : \E k \in 1..Len(g[i]) : p = o[i - 1] + k
        BY <1>7, <2>3, <2>6, <3>1
      <4>2. i \in 1..h
        BY <2>1
      <4> QED
        BY <4>1, <4>2
    <3>2. CASE ~ p <= o[m]
      <4>1. p - o[m] \in 1..w /\ p = o[m] + (p - o[m])
        BY <2>2, <2>3, <2>6, <3>2
      <4>2. h \in 1..h
        BY <2>1
      <4> QED
        BY <2>1, <2>2, <4>1, <4>2
    <3> QED
      BY <3>1, <3>2
  <2>7. P(h)
    BY <2>4, <2>5, <2>6
  <2> HIDE DEF P
  <2> QED
    BY <2>1, <2>7
<1>8. 0..n \subseteq S
  <2> HIDE DEF S
  <2> QED
    BY <1>6, <1>7, InductionTo
<1>9. \A i \in 1..n : o[i] = o[i - 1] + Len(g[i])
  <2>1. SUFFICES ASSUME NEW i \in 1..n PROVE o[i] = o[i - 1] + Len(g[i])
    OBVIOUS
  <2>2. i - 1 \in 0..n /\ i - 1 < n /\ (i - 1) + 1 = i
    OBVIOUS
  <2> QED
    BY <1>5, <2>2
<1>10. \A m \in 0..n : o[m] = Len(FlatUpto(g, m))
  BY <1>1, <1>4
<1>11. fl[n] = FlatUpto(g, n) /\ n \in 0..n
  BY <1>1
<1>12. Offsets(o, g, n)
  BY <1>4, <1>8, <1>9, <1>10, <1>11 DEF Offsets
<1> QED
  BY <1>12

\* The names of the parameters: each once.
NamesOnce(s, S, Y) ==
  /\ s \in Seq(Y) /\ Range(s) = S
  /\ \A k, l \in DOMAIN s : s[k] = s[l] => k = l

LEMMA JoinPlaces ==
  \A Y : \A a \in Seq(Y) : \A b \in Seq(Y) :
    /\ a \o b \in Seq(Y) /\ Len(a \o b) = Len(a) + Len(b)
    /\ Len(a) \in Nat /\ Len(b) \in Nat
    /\ \A k \in 1..Len(a) : (a \o b)[k] = a[k]
    /\ \A k \in 1..Len(b) : (a \o b)[Len(a) + k] = b[k]
OBVIOUS

LEMMA ListedJoins ==
  ASSUME NEW Y, NEW S, NEW T, S \cap T = {},
         NEW a, NamesOnce(a, S, Y), NEW b, NamesOnce(b, T, Y)
  PROVE  NamesOnce(a \o b, S \cup T, Y)
<1>1. PICK n \in Nat : n = Len(a)
  BY DEF NamesOnce
<1>2. PICK m \in Nat : m = Len(b)
  BY DEF NamesOnce
<1>3. PICK s : s = a \o b
  OBVIOUS
<1>4. /\ s \in Seq(Y) /\ DOMAIN s = 1..(n + m) /\ DOMAIN a = 1..n /\ DOMAIN b = 1..m
      /\ \A i \in 1..(n + m) : s[i] = IF i <= n THEN a[i] ELSE b[i - n]
  BY <1>1, <1>2, <1>3 DEF NamesOnce
<1>5. (\A i \in 1..n : a[i] \in S) /\ (\A i \in 1..m : b[i] \in T)
  BY <1>4 DEF NamesOnce, Range
<1>6. ASSUME NEW i \in 1..(n + m)
      PROVE  \/ i \in 1..n /\ s[i] = a[i] /\ s[i] \in S
             \/ i - n \in 1..m /\ i \notin 1..n /\ s[i] = b[i - n] /\ s[i] \in T
  <2>1. CASE i <= n
    BY <1>4, <1>5, <2>1
  <2>2. CASE ~ i <= n
    <3>1. i - n \in 1..m /\ i \notin 1..n /\ s[i] = b[i - n]
      BY <1>4, <2>2
    <3> QED
      BY <1>5, <3>1
  <2> QED
    BY <2>1, <2>2
<1>7. ASSUME NEW i \in 1..(n + m), NEW j \in 1..(n + m), s[i] = s[j] PROVE i = j
  <2>1. CASE i \in 1..n
    <3>1. j \in 1..n /\ s[i] = a[i] /\ s[j] = a[j]
      BY <1>6, <1>7, <2>1
    <3> QED
      BY <1>4, <1>7, <2>1, <3>1 DEF NamesOnce
  <2>2. CASE i \notin 1..n
    <3>1. i - n \in 1..m /\ j - n \in 1..m /\ s[i] = b[i - n] /\ s[j] = b[j - n]
      BY <1>6, <1>7, <2>2
    <3>2. i - n = j - n
      BY <1>4, <1>7, <3>1 DEF NamesOnce
    <3> QED
      BY <3>2
  <2> QED
    BY <2>1, <2>2
<1>8. ASSUME NEW x \in S \cup T PROVE \E i \in 1..(n + m) : s[i] = x
  <2>1. CASE x \in S
    <3>1. PICK i \in 1..n : a[i] = x
      BY <1>4, <2>1 DEF NamesOnce, Range
    <3>2. i \in 1..(n + m) /\ s[i] = a[i]
      BY <1>4
    <3> QED
      BY <3>1, <3>2
  <2>2. CASE x \in T
    <3>1. PICK i \in 1..m : b[i] = x
      BY <1>4, <2>2 DEF NamesOnce, Range
    <3>2. n + i \in 1..(n + m) /\ ~ (n + i <= n) /\ (n + i) - n = i
      OBVIOUS
    <3>3. s[n + i] = b[i]
      BY <1>4, <3>2
    <3> QED
      BY <3>1, <3>2, <3>3
  <2> QED
    BY <1>8, <2>1, <2>2
<1>9. Range(s) = S \cup T
  BY <1>4, <1>6, <1>8 DEF Range
<1> QED
  BY <1>3, <1>4, <1>7, <1>9 DEF NamesOnce

LEMMA ListedOne ==
  ASSUME NEW Y, NEW x \in Y
  PROVE  NamesOnce(<<x>>, {x}, Y)
BY DEF NamesOnce, Range

LEMMA ListedNone == \A Y : NamesOnce(<<>>, {}, Y)
BY DEF NamesOnce, Range

FixedSet(rows) ==
  ({<<"intercept">>} \cup {<<"surface_fixed", s>> : s \in SurfacesOf(rows) \ {"Hard"}})
    \cup (IF IndoorHard THEN {<<"indoor_hard">>} ELSE {})

LEMMA FixedListed ==
  ASSUME NEW rows, GoodRows(rows), NEW Y, FixedSet(rows) \subseteq Y
  PROVE  NamesOnce(FixedNames(rows), FixedSet(rows), Y)
<1>1. PICK surfaces : surfaces = Sorted(SurfacesOf(rows) \ {"Hard"})
  OBVIOUS
<1>2. PICK n \in Nat : /\ n = Len(surfaces) /\ DOMAIN surfaces = 1..n
                       /\ Range(surfaces) = SurfacesOf(rows) \ {"Hard"}
                       /\ \A k, l \in 1..n : surfaces[k] = surfaces[l] => k = l
  <2>1. PICK S : S = SurfacesOf(rows) \ {"Hard"}
    OBVIOUS
  <2>2. IsFiniteSet(S) /\ S \subseteq DOMAIN Rank
    BY <2>1, SurfacesSorted, FS_Subset
  <2>3. surfaces = Sorted(S)
    BY <1>1, <2>1
  <2>4. /\ surfaces \in Seq(S) /\ Range(surfaces) = S
        /\ \A k, l \in DOMAIN surfaces : surfaces[k] = surfaces[l] => k = l
    BY <2>2, <2>3, NamesSorted
  <2>5. Len(surfaces) \in Nat /\ DOMAIN surfaces = 1..Len(surfaces)
    BY <2>4
  <2> QED
    BY <2>1, <2>4, <2>5
<1>3. PICK x : x = <<<<"intercept">>>>
  OBVIOUS
<1>4. PICK y : y = [i \in 1..n |-> <<"surface_fixed", surfaces[i]>>]
  OBVIOUS
<1>5. PICK z : z = IF IndoorHard THEN <<<<"indoor_hard">>>> ELSE <<>>
  OBVIOUS
<1>6. PICK A : A = {<<"intercept">>}
  OBVIOUS
<1>7. PICK B : B = {<<"surface_fixed", s>> : s \in SurfacesOf(rows) \ {"Hard"}}
  OBVIOUS
<1>8. PICK C : C = IF IndoorHard THEN {<<"indoor_hard">>} ELSE {}
  OBVIOUS
<1>9. FixedSet(rows) = (A \cup B) \cup C /\ A \subseteq Y /\ B \subseteq Y /\ C \subseteq Y
  BY <1>6, <1>7, <1>8 DEF FixedSet
<1>10. FixedNames(rows) = (x \o y) \o z
  BY <1>1, <1>2, <1>3, <1>4, <1>5 DEF FixedNames, SurfacesOf
<1>11. NamesOnce(x, A, Y)
  BY <1>3, <1>6, <1>9, ListedOne
<1>12. NamesOnce(y, B, Y)
  <2>1. \A i \in 1..n : surfaces[i] \in SurfacesOf(rows) \ {"Hard"}
    BY <1>2 DEF Range
  <2>2. \A i \in 1..n : y[i] \in B
    BY <1>4, <1>7, <2>1
  <2>3. y \in Seq(Y) /\ DOMAIN y = 1..n
    BY <1>4, <1>9, <2>2
  <2>4. \A k, l \in 1..n : y[k] = y[l] => k = l
    BY <1>2, <1>4
  <2>5. ASSUME NEW v \in B PROVE \E i \in 1..n : y[i] = v
    <3>1. PICK s \in SurfacesOf(rows) \ {"Hard"} : v = <<"surface_fixed", s>>
      BY <1>7, <2>5
    <3>2. PICK i \in 1..n : surfaces[i] = s
      BY <1>2, <3>1 DEF Range
    <3> QED
      BY <1>4, <3>1, <3>2
  <2>6. Range(y) = B
    BY <2>2, <2>3, <2>5 DEF Range
  <2> QED
    BY <2>3, <2>4, <2>6 DEF NamesOnce
<1>13. NamesOnce(z, C, Y)
  <2>1. CASE IndoorHard
    BY <1>5, <1>8, <1>9, <2>1, ListedOne
  <2>2. CASE ~ IndoorHard
    BY <1>5, <1>8, <2>2, ListedNone
  <2> QED
    BY <2>1, <2>2
<1>14. A \cap B = {} /\ (A \cup B) \cap C = {}
  BY <1>6, <1>7, <1>8
<1>15. NamesOnce(x \o y, A \cup B, Y)
  BY <1>11, <1>12, <1>14, ListedJoins
<1>16. NamesOnce((x \o y) \o z, (A \cup B) \cup C, Y)
  BY <1>13, <1>14, <1>15, ListedJoins
<1> QED
  BY <1>9, <1>10, <1>16

LEMMA MinOfFinite ==
  ASSUME NEW S \in SUBSET Int, IsFiniteSet(S), S # {}
  PROVE  Min(S) \in S /\ \A y \in S : Min(S) <= y
<1> DEFINE N == {0 - x : x \in S}
<1>1. IsFiniteSet(N)
  <2>1. PICK f : f = [x \in S |-> 0 - x]
    OBVIOUS
  <2>2. f \in Surjection(S, N)
    BY <2>1 DEF Surjection
  <2> QED
    BY <2>2, FS_Surjection
<1>2. N \in SUBSET Int /\ N # {}
  <2>1. PICK x \in S : TRUE
    OBVIOUS
  <2>2. 0 - x \in N
    BY <2>1
  <2>3. \A y \in S : 0 - y \in Int
    OBVIOUS
  <2> QED
    BY <2>2, <2>3
<1>3. Max(N) \in N /\ \A y \in N : y <= Max(N)
  BY <1>1, <1>2, MaxOfFinite
<1>4. PICK x \in S : Max(N) = 0 - x
  BY <1>3
<1>5. \A y \in S : x <= y
  <2>1. SUFFICES ASSUME NEW y \in S PROVE x <= y
    OBVIOUS
  <2>2. 0 - y <= 0 - x
    BY <1>3, <1>4
  <2>3. x \in Int /\ y \in Int
    OBVIOUS
  <2> QED
    BY <2>2, <2>3
<1> QED
  BY <1>5 DEF Min

\* The scales: one for each group of blocks.
LEMMA GroupsOrdered ==
  ASSUME NEW X, NEW blocks \in Seq(X), NEW s, s = GroupsOf(blocks),
         NEW S, S = {b.group : b \in Range(blocks)}
  PROVE  NamesOnce(s, S, S) /\ Len(s) \in Nat
<1>1. PICK n \in Nat : n = Len(blocks) /\ DOMAIN blocks = 1..n
  OBVIOUS
<1>0. IsFiniteSet(1..n)
  BY FS_Interval
<1>2. PICK at : at = [g \in S |-> {i \in 1..n : blocks[i].group = g}]
  OBVIOUS
<1>3. PICK place : place = [g \in S |-> Min(at[g])]
  OBVIOUS
<1>4. s = InOrder(S, place)
  <2>1. place = [g \in S |-> Min({i \in DOMAIN blocks : blocks[i].group = g})]
    BY <1>1, <1>2, <1>3
  <2> QED
    BY <2>1 DEF GroupsOf
<1>5. IsFiniteSet(S)
  <2>1. PICK f : f = [i \in 1..n |-> blocks[i].group]
    OBVIOUS
  <2>2. f \in Surjection(1..n, S)
    BY <1>1, <2>1 DEF Surjection, Range
  <2> QED
    BY <1>0, <2>2, FS_Surjection
<1>6. ASSUME NEW g \in S PROVE place[g] \in 1..n /\ blocks[place[g]].group = g
  <2>1. PICK P : P = at[g]
    OBVIOUS
  <2>2. P \subseteq 1..n /\ P # {} /\ \A i \in P : blocks[i].group = g
    BY <1>1, <1>2, <2>1 DEF Range
  <2>3. IsFiniteSet(P)
    BY <1>0, <2>2, FS_Subset
  <2>4. Min(P) \in P
    BY <2>2, <2>3, MinOfFinite
  <2> QED
    BY <1>3, <2>1, <2>2, <2>4
<1>7. Placed(S, place)
  BY <1>6 DEF Placed
<1>8. /\ s \in Seq(S) /\ Range(s) = S
      /\ \A k, l \in DOMAIN s : s[k] = s[l] => k = l
  BY <1>4, <1>5, <1>7, OrderIs
<1> QED
  BY <1>8 DEF NamesOnce

\* The blocks, one by one.
BlockIs(b, rows) ==
  /\ b = BlockOver(rows, b.role, b.surface)
  /\ b.role \in Roles /\ b.group = GroupOf(b.role)
  /\ AreLevels(b.levels, LevelSet(rows, b.role, b.surface)) /\ Len(b.levels) # 0

LEMMA BlocksAre ==
  ASSUME NEW rows, GoodRows(rows), NEW c, NEW bs, bs = BlocksOf(rows, c)
  PROVE  /\ bs \in Seq(BlockSet(rows)) /\ Len(bs) \in Nat
         /\ \A i \in 1..Len(bs) : BlockIs(bs[i], rows) /\ KeyOf(bs[i]) \in BlockKeys(rows, c)
         /\ \A i, j \in 1..Len(bs) : KeyOf(bs[i]) = KeyOf(bs[j]) => i = j
         /\ \A k \in BlockKeys(rows, c) : \E i \in 1..Len(bs) : KeyOf(bs[i]) = k
<1>1. IsListing(bs, BlockKeys(rows, c), BlockSet(rows), rows)
  BY BlocksListed
<1>2. PICK n \in Nat : n = Len(bs) /\ DOMAIN bs = 1..n
  BY <1>1 DEF IsListing
<1>3. ASSUME NEW i \in 1..n PROVE BlockIs(bs[i], rows) /\ KeyOf(bs[i]) \in BlockKeys(rows, c)
  <2>1. PICK b : b = bs[i]
    OBVIOUS
  <2>2. KeyOf(b) \in BlockKeys(rows, c) /\ b = BlockOver(rows, b.role, b.surface)
    BY <1>1, <1>2, <2>1 DEF IsListing
  <2>3. <<b.role, b.surface>> \in BlockKeys(rows, c)
    BY <2>2 DEF KeyOf
  <2>4. PICK levels : levels = BlockOver(rows, b.role, b.surface).levels
    OBVIOUS
  <2>5. b.role \in Roles /\ levels # <<>>
    BY <2>3, <2>4, LevelsThere
  <2>6. AreLevels(levels, LevelSet(rows, b.role, b.surface))
    BY <2>4, <2>5, LevelsSorted
  <2>7. Len(levels) # 0
    BY <2>5, <2>6, EmptySeq DEF AreLevels
  <2>8. b.levels = levels
    BY <2>2, <2>4
  <2>9. b.group = GroupOf(b.role)
    BY <2>2 DEF BlockOver
  <2> QED
    BY <2>1, <2>2, <2>5, <2>6, <2>7, <2>8, <2>9 DEF BlockIs
<1> QED
  BY <1>1, <1>2, <1>3 DEF IsListing

\* Where the design has what.
Laid(d, c, bs, fx, gs, o) ==
  /\ d.component = c /\ d.fixed = 1..Len(fx)
  /\ o \in [0..Len(bs) -> Nat] /\ o[0] = 0
  /\ \A i \in 1..Len(bs) : o[i] = o[i - 1] + (Len(bs[i].levels) - 1)
  /\ \A i, j \in 0..Len(bs) : i <= j => o[i] <= o[j]
  /\ \A p \in 1..o[Len(bs)] :
       \E i \in 1..Len(bs) : \E k \in 1..(Len(bs[i].levels) - 1) : p = o[i - 1] + k
  /\ DOMAIN d.blocks = 1..Len(bs)
  /\ \A i \in 1..Len(bs) :
       /\ d.blocks[i].role = bs[i].role /\ d.blocks[i].surface = bs[i].surface
       /\ d.blocks[i].group = bs[i].group /\ d.blocks[i].levels = bs[i].levels
       /\ d.blocks[i].free = [k \in 1..(Len(bs[i].levels) - 1) |-> Len(fx) + o[i - 1] + k]
       /\ \E j \in 1..Len(gs) : /\ gs[j] = bs[i].group
                                /\ d.blocks[i].scale = Len(fx) + o[Len(bs)] + j
Named(d, bs, fx, gs, o) ==
  /\ DOMAIN d.names = 1..(Len(fx) + o[Len(bs)] + Len(gs) + 1)
  /\ \A i \in 1..Len(fx) : d.names[i] = fx[i]
  /\ \A i \in 1..Len(bs) : \A k \in 1..(Len(bs[i].levels) - 1) :
       d.names[Len(fx) + o[i - 1] + k] = <<"z", bs[i].role, bs[i].surface, bs[i].levels[k]>>
  /\ \A j \in 1..Len(gs) : d.names[Len(fx) + o[Len(bs)] + j] = <<"log_scale", gs[j]>>
  /\ d.names[Len(fx) + o[Len(bs)] + Len(gs) + 1] = <<"log_kappa">>

LEMMA DesignLaid ==
  ASSUME NEW rows, GoodRows(rows), NEW c, NEW d, d = Design(rows, c),
         NEW bs, bs = BlocksOf(rows, c), NEW fx, fx = FixedNames(rows),
         NEW gs, gs = GroupsOf(bs)
  PROVE  \E o : Laid(d, c, bs, fx, gs, o) /\ Named(d, bs, fx, gs, o)
<1>1. PICK n \in Nat : n = Len(bs)
  BY BlocksAre
<1>2. \A i \in 1..n : BlockIs(bs[i], rows)
  BY <1>1, BlocksAre
<1>3. PICK G : G = {b.group : b \in Range(bs)}
  OBVIOUS
<1>4. NamesOnce(gs, G, G) /\ Len(gs) \in Nat
  <2>1. bs \in Seq(BlockSet(rows))
    BY BlocksAre
  <2> QED
    BY <1>3, <2>1, GroupsOrdered
<1>5. PICK z : z = [i \in 1..n |-> FreeNames(bs[i])]
  OBVIOUS
<1>6. PICK w : w = [i \in 1..n |-> Len(bs[i].levels) - 1]
  OBVIOUS
<1>7. PICK logs : logs = [j \in DOMAIN gs |-> <<"log_scale", gs[j]>>]
  OBVIOUS
<1>8. PICK Y : Y = ((FixedSet(rows) \cup UNION {Range(z[i]) : i \in 1..n})
                      \cup Range(logs)) \cup {<<"log_kappa">>}
  OBVIOUS
<1>9. fx \in Seq(Y)
  <2>1. FixedSet(rows) \subseteq Y
    BY <1>8
  <2> QED
    BY <2>1, FixedListed DEF NamesOnce
<1>10. ASSUME NEW i \in 1..n
       PROVE  /\ z[i] \in Seq(Y) /\ Len(z[i]) = w[i] /\ w[i] \in Nat
              /\ \A k \in 1..w[i] :
                   z[i][k] = <<"z", bs[i].role, bs[i].surface, bs[i].levels[k]>>
  <2>1. w[i] \in Nat
    BY <1>2, <1>6 DEF BlockIs, AreLevels
  <2>2. PICK f : f = FreeNames(bs[i])
    OBVIOUS
  <2>3. f = [k \in 1..w[i] |-> <<"z", bs[i].role, bs[i].surface, bs[i].levels[k]>>]
    BY <1>6, <2>2 DEF FreeNames
  <2>4. f \in Seq(Range(f)) /\ Len(f) = w[i]
    <3>1. DOMAIN f = 1..w[i] /\ \A k \in 1..w[i] : f[k] \in Range(f)
      BY <2>3 DEF Range
    <3>2. f \in [1..w[i] -> Range(f)]
      BY <2>3, <3>1
    <3> QED
      BY <2>1, <3>2
  <2>5. z[i] = f /\ Range(f) \subseteq Y
    BY <1>5, <1>8, <2>2
  <2>6. f \in Seq(Y)
    BY <2>4, <2>5
  <2> QED
    BY <2>1, <2>3, <2>4, <2>5, <2>6
<1>11. PICK o : Offsets(o, z, n)
  <2>1. \A i \in 1..n : z[i] \in Seq(Y)
    BY <1>10
  <2> QED
    BY <2>1, FlatPlaces
<1>12. \A m \in 0..n : FlatUpto(z, m) \in Seq(Y)
  <2>1. \A i \in 1..n : z[i] \in Seq(Y)
    BY <1>10
  <2> QED
    BY <2>1, FlatSteps
<1>13. ASSUME NEW m \in 0..n
       PROVE  FlattenSeq([i \in 1..m |-> FreeNames(bs[i])]) = FlatUpto(z, m)
  <2>1. [i \in 1..m |-> FreeNames(bs[i])] = [i \in 1..m |-> z[i]]
    BY <1>5
  <2> QED
    BY <2>1 DEF FlatUpto
<1>14. ASSUME NEW m \in 0..n
       PROVE  Len(fx \o FlattenSeq([i \in 1..m |-> FreeNames(bs[i])])) = Len(fx) + o[m]
  <2>1. PICK f \in Seq(Y) : f = FlatUpto(z, m)
    BY <1>12
  <2>2. Len(fx \o f) = Len(fx) + Len(f)
    BY <1>9, JoinPlaces
  <2>3. Len(f) = o[m]
    BY <1>11, <2>1 DEF Offsets
  <2> QED
    BY <1>13, <2>1, <2>2, <2>3
<1>15. PICK all : all = fx \o FlatUpto(z, n)
  OBVIOUS
<1>16. PICK f \in Seq(Y) : f = FlatUpto(z, n) /\ Len(f) = o[n]
  BY <1>11, <1>12 DEF Offsets
<1>17. /\ all \in Seq(Y) /\ Len(all) = Len(fx) + o[n] /\ Len(fx) \in Nat
       /\ \A k \in 1..Len(fx) : all[k] = fx[k]
       /\ \A k \in 1..o[n] : all[Len(fx) + k] = f[k]
  BY <1>9, <1>15, <1>16, JoinPlaces
<1>18. /\ logs \in Seq(Y) /\ Len(logs) = Len(gs)
       /\ \A j \in 1..Len(gs) : logs[j] = <<"log_scale", gs[j]>>
  <2>1. DOMAIN gs = 1..Len(gs)
    BY <1>4 DEF NamesOnce
  <2>2. logs \in Seq(Range(logs)) /\ Len(logs) = Len(gs)
    BY <1>4, <1>7, <2>1 DEF Range
  <2>3. Range(logs) \subseteq Y
    BY <1>8
  <2>4. logs \in Seq(Y)
    BY <2>2, <2>3
  <2>5. \A j \in 1..Len(gs) : logs[j] = <<"log_scale", gs[j]>>
    BY <1>7, <2>1
  <2> QED
    BY <2>2, <2>4, <2>5
<1>19. PICK kappa : /\ kappa = <<<<"log_kappa">>>> /\ kappa \in Seq(Y) /\ Len(kappa) = 1
                    /\ kappa[1] = <<"log_kappa">>
  <2>1. <<"log_kappa">> \in Y
    BY <1>8
  <2>2. PICK x \in Y : x = <<"log_kappa">>
    BY <2>1
  <2>3. <<x>> \in Seq(Y) /\ Len(<<x>>) = 1 /\ <<x>>[1] = x
    OBVIOUS
  <2> QED
    BY <2>2, <2>3
<1>20. PICK both : both = all \o logs
  OBVIOUS
<1>21. /\ both \in Seq(Y) /\ Len(both) = Len(all) + Len(gs)
       /\ \A k \in 1..Len(all) : both[k] = all[k]
       /\ \A k \in 1..Len(gs) : both[Len(all) + k] = <<"log_scale", gs[k]>>
  <2>1. /\ both \in Seq(Y) /\ Len(both) = Len(all) + Len(logs)
        /\ \A k \in 1..Len(all) : both[k] = all[k]
        /\ \A k \in 1..Len(logs) : both[Len(all) + k] = logs[k]
    <3>1. all \in Seq(Y)
      BY <1>17
    <3>2. logs \in Seq(Y)
      BY <1>18
    <3> QED
      BY <1>20, <3>1, <3>2, JoinPlaces
  <2> QED
    BY <1>18, <2>1
<1>22. PICK names : names = both \o kappa
  OBVIOUS
<1>23. /\ names \in Seq(Y) /\ Len(names) = Len(both) + 1 /\ Len(both) \in Nat
       /\ \A k \in 1..Len(both) : names[k] = both[k]
       /\ names[Len(both) + 1] = <<"log_kappa">>
  <2>1. /\ names \in Seq(Y) /\ Len(names) = Len(both) + Len(kappa) /\ Len(both) \in Nat
        /\ \A k \in 1..Len(both) : names[k] = both[k]
        /\ \A k \in 1..Len(kappa) : names[Len(both) + k] = kappa[k]
    BY <1>19, <1>21, <1>22, JoinPlaces
  <2> QED
    BY <1>19, <2>1
<1>24. d = [component |-> c, names |-> names, fixed |-> DOMAIN fx,
            blocks |-> [i \in DOMAIN bs |->
              [role |-> bs[i].role, surface |-> bs[i].surface,
               group |-> bs[i].group, levels |-> bs[i].levels,
               free |-> [k \in 1..(Len(bs[i].levels) - 1) |->
                  Len(fx \o FlattenSeq([j \in 1..(i - 1) |-> FreeNames(bs[j])])) + k],
               scale |-> Len(all) + CHOOSE j \in DOMAIN gs : gs[j] = bs[i].group]]]
  <2>1. all = fx \o FlattenSeq([i \in 1..Len(bs) |-> FreeNames(bs[i])])
    <3>1. n \in 0..n
      OBVIOUS
    <3> QED
      BY <1>1, <1>13, <1>15, <3>1
  <2>2. names = all \o [i \in DOMAIN gs |-> <<"log_scale", gs[i]>>] \o <<<<"log_kappa">>>>
    BY <1>7, <1>19, <1>20, <1>22
  <2> QED
    BY <2>1, <2>2 DEF Design
<1>25. Named(d, bs, fx, gs, o)
  <2>1. d.names = names
    BY <1>24
  <2>2. o[n] \in Nat /\ Len(gs) \in Nat /\ Len(fx) \in Nat
    BY <1>4, <1>11, <1>17 DEF Offsets
  <2>8. Len(all) = Len(fx) + o[n] /\ Len(both) = Len(fx) + o[n] + Len(gs)
    BY <1>17, <1>21
  <2>3. DOMAIN names = 1..(Len(fx) + o[n] + Len(gs) + 1)
    BY <1>17, <1>21, <1>23, <2>2
  <2>4. ASSUME NEW i \in 1..Len(fx) PROVE names[i] = fx[i]
    <3>1. i \in 1..Len(all) /\ i \in 1..Len(both)
      BY <1>17, <1>21, <2>2
    <3> QED
      BY <1>17, <1>21, <1>23, <3>1
  <2>5. ASSUME NEW i \in 1..n, NEW k \in 1..(Len(bs[i].levels) - 1)
        PROVE  names[Len(fx) + o[i - 1] + k]
                 = <<"z", bs[i].role, bs[i].surface, bs[i].levels[k]>>
    <3>1. w[i] = Len(bs[i].levels) - 1 /\ k \in 1..w[i] /\ w[i] \in Nat /\ Len(z[i]) = w[i]
      BY <1>6, <1>10, <2>5
    <3>2. o[i] = o[i - 1] + w[i] /\ o[i] <= o[n] /\ o[i - 1] \in Nat /\ o[i] \in Nat
      <4>1. i \in 0..n /\ n \in 0..n /\ i <= n /\ i - 1 \in 0..n
        OBVIOUS
      <4> QED
        BY <1>11, <3>1, <4>1 DEF Offsets
    <3>3. o[i - 1] + k \in 1..o[n]
      <4>1. PICK u \in Nat : u = o[i - 1]
        BY <3>2
      <4>2. PICK v \in Nat : v = w[i]
        BY <3>1
      <4>3. u + v <= o[n] /\ k \in 1..v
        BY <3>1, <3>2, <4>1, <4>2
      <4>4. u + k \in 1..o[n]
        BY <2>2, <4>3
      <4> QED
        BY <4>1, <4>4
    <3>4. f[o[i - 1] + k] = <<"z", bs[i].role, bs[i].surface, bs[i].levels[k]>>
      BY <1>10, <1>11, <1>16, <3>1 DEF Offsets
    <3>5. PICK p \in 1..o[n] : p = o[i - 1] + k
      BY <3>3
    <3>6. Len(fx) + p \in 1..Len(all) /\ Len(fx) + p \in 1..Len(both)
      BY <2>2, <2>8
    <3>7. names[Len(fx) + p] = f[p]
      BY <1>17, <1>21, <1>23, <3>6
    <3>8. Len(fx) + o[i - 1] + k = Len(fx) + p
      BY <2>2, <3>2, <3>5
    <3> QED
      BY <3>4, <3>5, <3>7, <3>8
  <2>6. ASSUME NEW j \in 1..Len(gs)
        PROVE  names[Len(fx) + o[n] + j] = <<"log_scale", gs[j]>>
    <3>1. Len(fx) + o[n] + j = Len(all) + j /\ Len(all) + j \in 1..Len(both)
      BY <2>2, <2>8
    <3> QED
      BY <1>21, <1>23, <3>1
  <2>7. names[Len(fx) + o[n] + Len(gs) + 1] = <<"log_kappa">>
    <3>1. Len(fx) + o[n] + Len(gs) + 1 = Len(both) + 1
      BY <1>17, <1>21, <2>2
    <3> QED
      BY <1>23, <3>1
  <2> QED
    BY <1>1, <2>1, <2>3, <2>4, <2>5, <2>6, <2>7 DEF Named
<1>26. ASSUME NEW i \in 1..n
       PROVE  /\ d.blocks[i].role = bs[i].role /\ d.blocks[i].surface = bs[i].surface
              /\ d.blocks[i].group = bs[i].group /\ d.blocks[i].levels = bs[i].levels
              /\ d.blocks[i].free = [k \in 1..(Len(bs[i].levels) - 1) |-> Len(fx) + o[i - 1] + k]
              /\ \E j \in 1..Len(gs) : /\ gs[j] = bs[i].group
                                       /\ d.blocks[i].scale = Len(fx) + o[n] + j
  <2>1. DOMAIN bs = 1..n
    BY <1>1, BlocksAre
  <2>2. PICK v : v = Len(fx \o FlattenSeq([j \in 1..(i - 1) |-> FreeNames(bs[j])]))
    OBVIOUS
  <2>3. v = Len(fx) + o[i - 1]
    <3>1. i - 1 \in 0..n
      OBVIOUS
    <3> QED
      BY <1>14, <2>2, <3>1
  <2>4. PICK j : j = CHOOSE h \in DOMAIN gs : gs[h] = bs[i].group
    OBVIOUS
  <2>5. bs[i].group \in Range(gs)
    <3>1. bs[i] \in Range(bs)
      BY <2>1 DEF Range
    <3> QED
      BY <1>3, <1>4, <3>1 DEF NamesOnce
  <2>6. j \in 1..Len(gs) /\ gs[j] = bs[i].group
    <3>1. DOMAIN gs = 1..Len(gs)
      BY <1>4 DEF NamesOnce
    <3>2. \E h \in DOMAIN gs : gs[h] = bs[i].group
      BY <2>5 DEF Range
    <3> QED
      BY <2>4, <3>1, <3>2
  <2>7. d.blocks[i] = [role |-> bs[i].role, surface |-> bs[i].surface,
                       group |-> bs[i].group, levels |-> bs[i].levels,
                       free |-> [k \in 1..(Len(bs[i].levels) - 1) |-> v + k],
                       scale |-> Len(all) + j]
    <3>1. d.blocks = [h \in DOMAIN bs |->
              [role |-> bs[h].role, surface |-> bs[h].surface,
               group |-> bs[h].group, levels |-> bs[h].levels,
               free |-> [k \in 1..(Len(bs[h].levels) - 1) |->
                  Len(fx \o FlattenSeq([j1 \in 1..(h - 1) |-> FreeNames(bs[j1])])) + k],
               scale |-> Len(all) + CHOOSE j1 \in DOMAIN gs : gs[j1] = bs[h].group]]
      BY <1>24
    <3>2. i \in DOMAIN bs
      BY <2>1
    <3> QED
      BY <2>2, <2>4, <3>1, <3>2
  <2>8. d.blocks[i].scale = Len(fx) + o[n] + j
    BY <1>17, <2>7
  <2> QED
    BY <2>3, <2>6, <2>7, <2>8
<1>27. Laid(d, c, bs, fx, gs, o)
  <2>1. d.component = c /\ d.fixed = 1..Len(fx) /\ DOMAIN d.blocks = 1..n
    <3>1. DOMAIN fx = 1..Len(fx)
      BY <1>9
    <3>2. DOMAIN bs = 1..n
      BY <1>1, BlocksAre
    <3> QED
      BY <1>24, <3>1, <3>2
  <2>2. \A i \in 1..n : Len(z[i]) = Len(bs[i].levels) - 1
    BY <1>6, <1>10
  <2>3. \A i \in 1..n : o[i] = o[i - 1] + (Len(bs[i].levels) - 1)
    BY <1>11, <2>2 DEF Offsets
  <2>4. ASSUME NEW p \in 1..o[n]
        PROVE  \E i \in 1..n : \E k \in 1..(Len(bs[i].levels) - 1) : p = o[i - 1] + k
    <3>1. PICK i \in 1..n : \E k \in 1..Len(z[i]) : p = o[i - 1] + k
      BY <1>11, <2>4 DEF Offsets
    <3> QED
      BY <2>2, <3>1
  <2>5. /\ o \in [0..n -> Nat] /\ o[0] = 0
        /\ \A i, j \in 0..n : i <= j => o[i] <= o[j]
    BY <1>11 DEF Offsets
  <2> QED
    BY <1>1, <1>26, <2>1, <2>3, <2>4, <2>5 DEF Laid
<1> QED
  BY <1>25, <1>27

\* What a name says of its place.
LaidOut(d, rows, c, bs, fx, gs, o) ==
  /\ GoodRows(rows) /\ d = Design(rows, c)
  /\ bs = BlocksOf(rows, c) /\ fx = FixedNames(rows) /\ gs = GroupsOf(bs)
  /\ Laid(d, c, bs, fx, gs, o) /\ Named(d, bs, fx, gs, o)

LEMMA PartsAre ==
  ASSUME NEW d, NEW rows, NEW c, NEW bs, NEW fx, NEW gs, NEW o,
         LaidOut(d, rows, c, bs, fx, gs, o)
  PROVE  /\ Len(fx) \in Nat /\ Len(bs) \in Nat /\ Len(gs) \in Nat /\ o[Len(bs)] \in Nat
         /\ \A i \in 1..Len(fx) : fx[i] \in FixedSet(rows)
         /\ \A x \in FixedSet(rows) : \E i \in 1..Len(fx) : fx[i] = x
         /\ \A i, j \in 1..Len(fx) : fx[i] = fx[j] => i = j
         /\ \A i, j \in 1..Len(gs) : gs[i] = gs[j] => i = j
         /\ \A j \in 1..Len(gs) : \E i \in 1..Len(bs) : bs[i].group = gs[j]
         /\ \A i \in 1..Len(bs) : o[i - 1] \in Nat /\ o[i] \in Nat /\ o[i] <= o[Len(bs)]
<1>1. /\ GoodRows(rows) /\ bs = BlocksOf(rows, c) /\ fx = FixedNames(rows) /\ gs = GroupsOf(bs)
      /\ Laid(d, c, bs, fx, gs, o)
  BY DEF LaidOut
<1>2. PICK n \in Nat : n = Len(bs)
  BY <1>1, BlocksAre
<1>3. bs \in Seq(BlockSet(rows)) /\ DOMAIN bs = 1..n
  <2>1. bs \in Seq(BlockSet(rows))
    BY <1>1, BlocksAre
  <2> QED
    BY <1>2, <2>1
<1>4. PICK S : S = FixedSet(rows)
  OBVIOUS
<1>5. NamesOnce(fx, S, S)
  <2>1. FixedSet(rows) \subseteq S
    BY <1>4
  <2> QED
    BY <1>1, <1>4, <2>1, FixedListed
<1>6. PICK G : G = {b.group : b \in Range(bs)}
  OBVIOUS
<1>7. NamesOnce(gs, G, G)
  BY <1>1, <1>3, <1>6, GroupsOrdered
<1>8. /\ Len(fx) \in Nat /\ DOMAIN fx = 1..Len(fx) /\ Len(gs) \in Nat /\ DOMAIN gs = 1..Len(gs)
  BY <1>5, <1>7 DEF NamesOnce
<1>9. ASSUME NEW j \in 1..Len(gs) PROVE \E i \in 1..n : bs[i].group = gs[j]
  <2>1. gs[j] \in G
    BY <1>7, <1>8 DEF NamesOnce, Range
  <2> QED
    BY <1>3, <1>6, <2>1 DEF Range
<1>10. ASSUME NEW i \in 1..n PROVE o[i - 1] \in Nat /\ o[i] \in Nat /\ o[i] <= o[n]
  <2>1. i - 1 \in 0..n /\ i \in 0..n /\ n \in 0..n /\ i <= n
    OBVIOUS
  <2> QED
    BY <1>1, <1>2, <2>1 DEF Laid
<1>11. o[n] \in Nat
  <2>1. n \in 0..n
    OBVIOUS
  <2> QED
    BY <1>1, <1>2, <2>1 DEF Laid
<1>12. /\ \A i \in 1..Len(fx) : fx[i] \in S
       /\ \A x \in S : \E i \in 1..Len(fx) : fx[i] = x
       /\ \A i, j \in 1..Len(fx) : fx[i] = fx[j] => i = j
  BY <1>5, <1>8 DEF NamesOnce, Range
<1>13. \A i, j \in 1..Len(gs) : gs[i] = gs[j] => i = j
  BY <1>7, <1>8 DEF NamesOnce
<1> QED
  BY <1>2, <1>4, <1>8, <1>9, <1>10, <1>11, <1>12, <1>13

LEMMA FixedTags ==
  ASSUME NEW rows, NEW x \in FixedSet(rows)
  PROVE  x[1] \in {"intercept", "surface_fixed", "indoor_hard"}
BY DEF FixedSet

\* Each place is one of the four kinds, and its name says which.
FixedAt(d, rows, fx, p) ==
  p \in 1..Len(fx) /\ d.names[p] = fx[p] /\ d.names[p] \in FixedSet(rows)
    /\ d.names[p][1] \in {"intercept", "surface_fixed", "indoor_hard"}
FreeAt(d, bs, fx, o, p, i, k) ==
  /\ i \in 1..Len(bs) /\ k \in 1..(Len(bs[i].levels) - 1) /\ p = Len(fx) + o[i - 1] + k
  /\ d.names[p] = <<"z", bs[i].role, bs[i].surface, bs[i].levels[k]>> /\ d.names[p][1] = "z"
ScaleAt(d, bs, fx, gs, o, p, j) ==
  /\ j \in 1..Len(gs) /\ p = Len(fx) + o[Len(bs)] + j
  /\ d.names[p] = <<"log_scale", gs[j]>> /\ d.names[p][1] = "log_scale"
KappaAt(d, bs, fx, gs, o, p) ==
  /\ p = Len(fx) + o[Len(bs)] + Len(gs) + 1
  /\ d.names[p] = <<"log_kappa">> /\ d.names[p][1] = "log_kappa"

LEMMA PlacesAre ==
  ASSUME NEW d, NEW rows, NEW c, NEW bs, NEW fx, NEW gs, NEW o,
         LaidOut(d, rows, c, bs, fx, gs, o)
  PROVE  /\ \A p \in DOMAIN d.names :
              \/ FixedAt(d, rows, fx, p)
              \/ \E i, k : FreeAt(d, bs, fx, o, p, i, k)
              \/ \E j : ScaleAt(d, bs, fx, gs, o, p, j)
              \/ KappaAt(d, bs, fx, gs, o, p)
         /\ \A i \in 1..Len(fx) : i \in DOMAIN d.names /\ FixedAt(d, rows, fx, i)
         /\ \A i \in 1..Len(bs) : \A k \in 1..(Len(bs[i].levels) - 1) :
              /\ Len(fx) + o[i - 1] + k \in DOMAIN d.names
              /\ FreeAt(d, bs, fx, o, Len(fx) + o[i - 1] + k, i, k)
         /\ \A j \in 1..Len(gs) :
              /\ Len(fx) + o[Len(bs)] + j \in DOMAIN d.names
              /\ ScaleAt(d, bs, fx, gs, o, Len(fx) + o[Len(bs)] + j, j)
<1>1. PICK n \in Nat : n = Len(bs)
  BY PartsAre
<1>2. PICK F \in Nat : F = Len(fx)
  BY PartsAre
<1>3. PICK N \in Nat : N = o[n]
  BY <1>1, PartsAre
<1>4. PICK g \in Nat : g = Len(gs)
  BY PartsAre
<1>5. DOMAIN d.names = 1..(F + N + g + 1) /\ Named(d, bs, fx, gs, o)
  BY <1>1, <1>2, <1>3, <1>4 DEF LaidOut, Named
<1>6. ASSUME NEW p \in 1..F PROVE FixedAt(d, rows, fx, p)
  <2>1. d.names[p] = fx[p]
    BY <1>2, <1>5 DEF Named
  <2>2. d.names[p] \in FixedSet(rows)
    BY <1>2, <2>1, PartsAre
  <2> QED
    BY <1>2, <2>1, <2>2, FixedTags DEF FixedAt
<1>7. ASSUME NEW i \in 1..n, NEW k \in 1..(Len(bs[i].levels) - 1)
      PROVE  FreeAt(d, bs, fx, o, F + o[i - 1] + k, i, k) /\ F + o[i - 1] + k \in DOMAIN d.names
  <2>1. d.names[F + o[i - 1] + k] = <<"z", bs[i].role, bs[i].surface, bs[i].levels[k]>>
    BY <1>1, <1>2, <1>5 DEF Named
  <2>2. PICK nm : nm = d.names[F + o[i - 1] + k]
    OBVIOUS
  <2>3. nm[1] = "z"
    BY <2>1, <2>2
  <2>4. FreeAt(d, bs, fx, o, F + o[i - 1] + k, i, k)
    BY <1>1, <1>2, <2>1, <2>2, <2>3 DEF FreeAt
  <2>5. PICK u \in Nat : u = o[i - 1]
    BY <1>1, PartsAre
  <2>6. PICK v \in Nat : v = o[i] /\ v <= N
    BY <1>1, <1>3, PartsAre
  <2>7. v = u + (Len(bs[i].levels) - 1)
    BY <1>1, <2>5, <2>6 DEF LaidOut, Laid
  <2>8. Len(bs[i].levels) \in Nat
    BY <1>1, BlocksAre DEF LaidOut, BlockIs, AreLevels
  <2>9. F + u + k \in 1..(F + N + g + 1)
    BY <2>6, <2>7, <2>8
  <2> QED
    BY <1>5, <2>4, <2>5, <2>9
<1>8. ASSUME NEW j \in 1..g
      PROVE  ScaleAt(d, bs, fx, gs, o, F + N + j, j) /\ F + N + j \in DOMAIN d.names
  <2>1. d.names[F + N + j] = <<"log_scale", gs[j]>>
    BY <1>1, <1>2, <1>3, <1>4, <1>5 DEF Named
  <2>2. F + N + j \in 1..(F + N + g + 1)
    OBVIOUS
  <2>3. PICK nm : nm = d.names[F + N + j]
    OBVIOUS
  <2>4. nm[1] = "log_scale"
    BY <2>1, <2>3
  <2> QED
    BY <1>1, <1>2, <1>3, <1>4, <1>5, <2>1, <2>2, <2>3, <2>4 DEF ScaleAt
<1>9. KappaAt(d, bs, fx, gs, o, F + N + g + 1)
  <2>1. PICK p : p = F + N + g + 1
    OBVIOUS
  <2>2. d.names[p] = <<"log_kappa">>
    BY <1>1, <1>2, <1>3, <1>4, <1>5, <2>1 DEF Named
  <2>3. PICK nm : nm = d.names[p]
    OBVIOUS
  <2>4. nm[1] = "log_kappa"
    BY <2>2, <2>3
  <2> QED
    BY <1>1, <1>2, <1>3, <1>4, <2>1, <2>2, <2>3, <2>4 DEF KappaAt
<1>10. ASSUME NEW p \in 1..(F + N + g + 1)
       PROVE  \/ FixedAt(d, rows, fx, p)
              \/ \E i, k : FreeAt(d, bs, fx, o, p, i, k)
              \/ \E j : ScaleAt(d, bs, fx, gs, o, p, j)
              \/ KappaAt(d, bs, fx, gs, o, p)
  <2>1. CASE p \in 1..F
    BY <1>6, <2>1
  <2>2. CASE p \in (F + 1)..(F + N)
    <3>1. PICK q \in 1..N : p = F + q
      <4>1. p - F \in 1..N /\ p = F + (p - F)
        BY <2>2
      <4> QED
        BY <4>1
    <3>5. PICK i \in 1..n : \E k \in 1..(Len(bs[i].levels) - 1) : q = o[i - 1] + k
      BY <1>1, <1>3 DEF LaidOut, Laid
    <3>2. PICK k \in 1..(Len(bs[i].levels) - 1) : q = o[i - 1] + k
      BY <3>5
    <3>3. o[i - 1] \in Nat
      BY <1>1, PartsAre
    <3>4. p = F + o[i - 1] + k
      BY <3>1, <3>2, <3>3
    <3> QED
      BY <1>7, <3>4
  <2>3. CASE p \in (F + N + 1)..(F + N + g)
    <3>1. PICK j \in 1..g : p = F + N + j
      <4>1. p - (F + N) \in 1..g /\ p = F + N + (p - (F + N))
        BY <2>3
      <4> QED
        BY <4>1
    <3> QED
      BY <1>8, <3>1
  <2>4. CASE p = F + N + g + 1
    BY <1>9, <2>4
  <2> QED
    BY <2>1, <2>2, <2>3, <2>4
<1>11. \A i \in 1..F : i \in DOMAIN d.names
  BY <1>5
<1> QED
  BY <1>1, <1>2, <1>3, <1>4, <1>5, <1>6, <1>7, <1>8, <1>10, <1>11

LEMMA NamesDiffer ==
  ASSUME NEW d, NEW rows, NEW c, NEW bs, NEW fx, NEW gs, NEW o,
         LaidOut(d, rows, c, bs, fx, gs, o),
         NEW p \in DOMAIN d.names, NEW q \in DOMAIN d.names, d.names[p] = d.names[q]
  PROVE  p = q
<1>1. PICK t : t = d.names[p][1]
  OBVIOUS
<1>2. t = d.names[q][1]
  BY <1>1
<1>7. \/ FixedAt(d, rows, fx, q)
      \/ \E j, l : FreeAt(d, bs, fx, o, q, j, l)
      \/ \E l : ScaleAt(d, bs, fx, gs, o, q, l)
      \/ KappaAt(d, bs, fx, gs, o, q)
  BY PlacesAre
<1>8. /\ FixedAt(d, rows, fx, q) => t \in {"intercept", "surface_fixed", "indoor_hard"}
      /\ \A j, l : FreeAt(d, bs, fx, o, q, j, l) => t = "z"
      /\ \A l : ScaleAt(d, bs, fx, gs, o, q, l) => t = "log_scale"
      /\ KappaAt(d, bs, fx, gs, o, q) => t = "log_kappa"
  BY <1>2 DEF FixedAt, FreeAt, ScaleAt, KappaAt
<1>3. CASE FixedAt(d, rows, fx, p)
  <2>1. t \in {"intercept", "surface_fixed", "indoor_hard"}
    BY <1>1, <1>3 DEF FixedAt
  <2>2. FixedAt(d, rows, fx, q)
    BY <1>7, <1>8, <2>1
  <2>3. fx[p] = fx[q] /\ p \in 1..Len(fx) /\ q \in 1..Len(fx)
    BY <1>3, <2>2 DEF FixedAt
  <2> QED
    BY <2>3, PartsAre
<1>4. ASSUME NEW i, NEW k, FreeAt(d, bs, fx, o, p, i, k) PROVE p = q
  <2>1. t = "z"
    BY <1>1, <1>4 DEF FreeAt
  <2>2. PICK j, l : FreeAt(d, bs, fx, o, q, j, l)
    BY <1>7, <1>8, <2>1
  <2>3. <<"z", bs[i].role, bs[i].surface, bs[i].levels[k]>>
          = <<"z", bs[j].role, bs[j].surface, bs[j].levels[l]>>
    BY <1>4, <2>2 DEF FreeAt
  <2>4. KeyOf(bs[i]) = KeyOf(bs[j]) /\ bs[i].levels[k] = bs[j].levels[l]
    BY <2>3 DEF KeyOf
  <2>5. i \in 1..Len(bs) /\ j \in 1..Len(bs)
    BY <1>4, <2>2 DEF FreeAt
  <2>6. i = j
    BY <2>4, <2>5, BlocksAre DEF LaidOut
  <2>7. PICK levels : levels = bs[i].levels
    OBVIOUS
  <2>8. BlockIs(bs[i], rows)
    BY <2>5, BlocksAre DEF LaidOut
  <2>9. Len(levels) \in Nat /\ DOMAIN levels = 1..Len(levels)
        /\ \A x, y \in DOMAIN levels : levels[x] = levels[y] => x = y
    BY <2>7, <2>8 DEF BlockIs, AreLevels
  <2>10. k \in 1..(Len(levels) - 1) /\ l \in 1..(Len(levels) - 1)
    BY <1>4, <2>2, <2>6, <2>7 DEF FreeAt
  <2>11. k \in DOMAIN levels /\ l \in DOMAIN levels
    BY <2>9, <2>10
  <2>12. k = l
    BY <2>4, <2>6, <2>7, <2>9, <2>11
  <2> QED
    BY <1>4, <2>2, <2>6, <2>12 DEF FreeAt
<1>5. ASSUME NEW j, ScaleAt(d, bs, fx, gs, o, p, j) PROVE p = q
  <2>1. t = "log_scale"
    BY <1>1, <1>5 DEF ScaleAt
  <2>2. PICK l : ScaleAt(d, bs, fx, gs, o, q, l)
    BY <1>7, <1>8, <2>1
  <2>3. <<"log_scale", gs[j]>> = <<"log_scale", gs[l]>>
    BY <1>5, <2>2 DEF ScaleAt
  <2>4. gs[j] = gs[l] /\ j \in 1..Len(gs) /\ l \in 1..Len(gs)
    BY <1>5, <2>2, <2>3 DEF ScaleAt
  <2>5. j = l
    BY <2>4, PartsAre
  <2> QED
    BY <1>5, <2>2, <2>5 DEF ScaleAt
<1>6. CASE KappaAt(d, bs, fx, gs, o, p)
  <2>1. t = "log_kappa"
    BY <1>1, <1>6 DEF KappaAt
  <2>2. KappaAt(d, bs, fx, gs, o, q)
    BY <1>7, <1>8, <2>1
  <2> QED
    BY <1>6, <2>2 DEF KappaAt
<1> QED
  BY <1>3, <1>4, <1>5, <1>6, PlacesAre

\* The free places of a block.
LEMMA FreePlaces ==
  ASSUME NEW d, NEW rows, NEW c, NEW bs, NEW fx, NEW gs, NEW o,
         LaidOut(d, rows, c, bs, fx, gs, o), NEW i \in 1..Len(bs)
  PROVE  /\ DOMAIN d.blocks = 1..Len(bs)
         /\ d.blocks[i].role = bs[i].role /\ d.blocks[i].surface = bs[i].surface
         /\ d.blocks[i].group = bs[i].group /\ d.blocks[i].levels = bs[i].levels
         /\ Len(bs[i].levels) - 1 \in Nat /\ Len(d.blocks[i].free) = Len(bs[i].levels) - 1
         /\ DOMAIN d.blocks[i].free = 1..(Len(bs[i].levels) - 1)
         /\ \A k \in 1..(Len(bs[i].levels) - 1) :
              /\ d.blocks[i].free[k] = Len(fx) + o[i - 1] + k
              /\ d.blocks[i].free[k] \in DOMAIN d.names
              /\ FreeAt(d, bs, fx, o, d.blocks[i].free[k], i, k)
         /\ \A p \in Range(d.blocks[i].free) :
              p \in DOMAIN d.names /\ \E k : FreeAt(d, bs, fx, o, p, i, k)
         /\ \A p, k : FreeAt(d, bs, fx, o, p, i, k) => p \in Range(d.blocks[i].free)
<1>1. Laid(d, c, bs, fx, gs, o)
  BY DEF LaidOut
<1>2. PICK b : b = d.blocks[i]
  OBVIOUS
<1>3. PICK w : w = Len(bs[i].levels) - 1
  OBVIOUS
<1>4. w \in Nat
  <2>1. BlockIs(bs[i], rows)
    BY BlocksAre DEF LaidOut
  <2> QED
    BY <1>3, <2>1 DEF BlockIs, AreLevels
<1>5. /\ b.role = bs[i].role /\ b.surface = bs[i].surface
      /\ b.group = bs[i].group /\ b.levels = bs[i].levels
      /\ b.free = [k \in 1..w |-> Len(fx) + o[i - 1] + k]
  BY <1>1, <1>2, <1>3 DEF Laid
<1>6. DOMAIN b.free = 1..w /\ Len(b.free) = w
  BY <1>4, <1>5
<1>7. ASSUME NEW k \in 1..w
      PROVE  /\ b.free[k] = Len(fx) + o[i - 1] + k /\ b.free[k] \in DOMAIN d.names
             /\ FreeAt(d, bs, fx, o, b.free[k], i, k)
  BY <1>3, <1>5, PlacesAre
<1>8. \A p \in Range(b.free) : p \in DOMAIN d.names /\ \E k : FreeAt(d, bs, fx, o, p, i, k)
  BY <1>6, <1>7 DEF Range
<1>9. ASSUME NEW p, NEW k, FreeAt(d, bs, fx, o, p, i, k) PROVE p \in Range(b.free)
  <2>1. k \in 1..w /\ p = b.free[k]
    BY <1>3, <1>7, <1>9 DEF FreeAt
  <2> QED
    BY <1>6, <2>1 DEF Range
<1>10. DOMAIN d.blocks = 1..Len(bs)
  BY <1>1 DEF Laid
<1> QED
  BY <1>2, <1>3, <1>4, <1>5, <1>6, <1>7, <1>8, <1>9, <1>10

LEMMA ScalePlaces ==
  ASSUME NEW d, NEW rows, NEW c, NEW bs, NEW fx, NEW gs, NEW o,
         LaidOut(d, rows, c, bs, fx, gs, o), NEW i \in 1..Len(bs)
  PROVE  \E j : /\ ScaleAt(d, bs, fx, gs, o, d.blocks[i].scale, j) /\ gs[j] = bs[i].group
                /\ d.blocks[i].scale \in DOMAIN d.names
<1>1. PICK j \in 1..Len(gs) : /\ gs[j] = bs[i].group
                              /\ d.blocks[i].scale = Len(fx) + o[Len(bs)] + j
  BY DEF LaidOut, Laid
<1> QED
  BY <1>1, PlacesAre

LEMMA FirstThree ==
  \A a, b, c, x : SubSeq(<<a, b, c, x>>, 1, 3) = <<a, b, c>>
<1> SUFFICES ASSUME NEW a, NEW b, NEW c, NEW x
             PROVE  SubSeq(<<a, b, c, x>>, 1, 3) = <<a, b, c>>
  OBVIOUS
<1>1. PICK s : s = <<a, b, c, x>>
  OBVIOUS
<1>2. PICK S : S = {a, b, c, x}
  OBVIOUS
<1>3. \A i \in 1..4 : s[i] \in S
  <2>1. \A i \in 1..4 : i = 1 \/ i = 2 \/ i = 3 \/ i = 4
    OBVIOUS
  <2>2. s[1] \in S /\ s[2] \in S /\ s[3] \in S /\ s[4] \in S
    BY <1>1, <1>2
  <2> QED
    BY <2>1, <2>2
<1>4. PICK t : t = SubSeq(s, 1, 3)
  OBVIOUS
<1>5. t \in Seq(S) /\ Len(t) = 3 /\ \A i \in 1..3 : t[i] = s[i]
  <2>1. PICK m \in Int : m = 1
    OBVIOUS
  <2>2. PICK n \in Int : n = 3
    OBVIOUS
  <2>3. \A i \in m..n : s[i] \in S
    <3>1. SUFFICES ASSUME NEW i \in m..n PROVE s[i] \in S
      OBVIOUS
    <3>2. i \in 1..4
      BY <2>1, <2>2
    <3> QED
      BY <1>3, <3>2
  <2>4. /\ SubSeq(s, m, n) \in Seq(S)
        /\ Len(SubSeq(s, m, n)) = IF m <= n THEN n - m + 1 ELSE 0
        /\ \A i \in 1..(n - m + 1) : SubSeq(s, m, n)[i] = s[m + i - 1]
    BY <2>3, SubSeqProperties
  <2>5. \A i \in 1..3 : i \in 1..(n - m + 1) /\ m + i - 1 = i
    BY <2>1, <2>2
  <2> QED
    BY <1>4, <2>1, <2>2, <2>4, <2>5
<1>6. t = <<t[1], t[2], t[3]>>
  BY <1>5
<1>7. t[1] = a /\ t[2] = b /\ t[3] = c
  BY <1>1, <1>5
<1> QED
  BY <1>1, <1>4, <1>6, <1>7

LEMMA OneOfRole ==
  ASSUME NEW d, NEW rows, NEW c, NEW bs, NEW fx, NEW gs, NEW o,
         LaidOut(d, rows, c, bs, fx, gs, o), NEW role \in {"server_global", "returner_global"}
  PROVE  Cardinality({i \in DOMAIN d.blocks : d.blocks[i].role = role})
           = IF <<role, NotKnown>> \in BlockKeys(rows, c) THEN 1 ELSE 0
<1>1. PICK S : S = {i \in DOMAIN d.blocks : d.blocks[i].role = role}
  OBVIOUS
<1>2. \A i \in S : i \in 1..Len(bs) /\ bs[i].role = role
  BY <1>1, FreePlaces DEF LaidOut, Laid
<1>3. \A i \in 1..Len(bs) : bs[i].role = role => i \in S
  BY <1>1, FreePlaces
<1>4. ASSUME NEW i \in S
      PROVE  KeyOf(bs[i]) = <<role, NotKnown>> /\ KeyOf(bs[i]) \in BlockKeys(rows, c)
  <2>1. KeyOf(bs[i]) \in BlockKeys(rows, c)
    BY <1>2, BlocksAre DEF LaidOut
  <2>2. PICK surface : surface = bs[i].surface
    OBVIOUS
  <2>3. KeyOf(bs[i]) = <<role, surface>>
    BY <1>2, <2>2 DEF KeyOf
  <2>4. surface = NotKnown
    BY <2>1, <2>3, KeyKinds
  <2> QED
    BY <2>1, <2>3, <2>4
<1>5. CASE <<role, NotKnown>> \in BlockKeys(rows, c)
  <2>1. PICK i \in 1..Len(bs) : KeyOf(bs[i]) = <<role, NotKnown>>
    BY <1>5, BlocksAre DEF LaidOut
  <2>2. i \in S
    BY <1>3, <2>1 DEF KeyOf
  <2>3. S = {i}
    BY <1>2, <1>4, <2>1, <2>2, BlocksAre DEF LaidOut
  <2>4. Cardinality(S) = 1
    BY <2>3, FS_Singleton
  <2> QED
    BY <1>1, <1>5, <2>4
<1>6. CASE <<role, NotKnown>> \notin BlockKeys(rows, c)
  <2>1. S = {}
    BY <1>4, <1>6
  <2>2. Cardinality(S) = 0
    BY <2>1, FS_EmptySet
  <2> QED
    BY <1>1, <1>6, <2>2
<1> QED
  BY <1>5, <1>6

LEMMA BlockCoherent ==
  ASSUME NEW d, NEW rows, NEW c, NEW bs, NEW fx, NEW gs, NEW o,
         LaidOut(d, rows, c, bs, fx, gs, o), NEW b \in Range(d.blocks)
  PROVE  /\ b.levels # <<>> /\ Len(b.free) = Len(b.levels) - 1
         /\ \A k, l \in DOMAIN b.levels : k < l => Rank[b.levels[k]] < Rank[b.levels[l]]
         /\ d.names[b.scale] = <<"log_scale", b.group>>
         /\ \A i \in Range(b.free) : SubSeq(d.names[i], 1, 3) = <<"z", b.role, b.surface>>
<1>1. PICK i \in 1..Len(bs) : b = d.blocks[i]
  <2>1. DOMAIN d.blocks = 1..Len(bs)
    BY DEF LaidOut, Laid
  <2> QED
    BY <2>1 DEF Range
<1>2. BlockIs(bs[i], rows) /\ b.levels = bs[i].levels
  <2>1. BlockIs(bs[i], rows)
    BY BlocksAre DEF LaidOut
  <2>2. b.levels = bs[i].levels
    BY <1>1, FreePlaces
  <2> QED
    BY <2>1, <2>2
<1>3. b.levels # <<>>
  <2>1. Len(b.levels) # 0
    BY <1>2 DEF BlockIs
  <2> QED
    BY <2>1
<1>4. Len(b.free) = Len(b.levels) - 1
  BY <1>1, <1>2, FreePlaces
<1>5. \A k, l \in DOMAIN b.levels : k < l => Rank[b.levels[k]] < Rank[b.levels[l]]
  <2>1. Ascending(b.levels, Rank)
    BY <1>2 DEF BlockIs, AreLevels
  <2> QED
    BY <2>1 DEF Ascending
<1>6. d.names[b.scale] = <<"log_scale", b.group>>
  <2>1. PICK j : ScaleAt(d, bs, fx, gs, o, b.scale, j) /\ gs[j] = bs[i].group
    BY <1>1, ScalePlaces
  <2>2. b.group = bs[i].group
    BY <1>1, FreePlaces
  <2>3. d.names[b.scale] = <<"log_scale", gs[j]>>
    BY <2>1 DEF ScaleAt
  <2> QED
    BY <2>1, <2>2, <2>3
<1>7. ASSUME NEW p \in Range(b.free)
      PROVE  SubSeq(d.names[p], 1, 3) = <<"z", b.role, b.surface>>
  <2>1. PICK k : FreeAt(d, bs, fx, o, p, i, k)
    BY <1>1, FreePlaces
  <2>2. d.names[p] = <<"z", bs[i].role, bs[i].surface, bs[i].levels[k]>>
    BY <2>1 DEF FreeAt
  <2>3. SubSeq(d.names[p], 1, 3) = <<"z", bs[i].role, bs[i].surface>>
    BY <2>2, FirstThree
  <2>4. b.role = bs[i].role /\ b.surface = bs[i].surface
    BY <1>1, FreePlaces
  <2> QED
    BY <2>3, <2>4
<1> QED
  BY <1>3, <1>4, <1>5, <1>6, <1>7

\* Every free place is a block's, and a block's alone.
LEMMA FreeApart ==
  ASSUME NEW d, NEW rows, NEW c, NEW bs, NEW fx, NEW gs, NEW o,
         LaidOut(d, rows, c, bs, fx, gs, o)
  PROVE  /\ \A x, y \in DOMAIN d.blocks :
              x # y => Range(d.blocks[x].free) \cap Range(d.blocks[y].free) = {}
         /\ \A p \in UNION {Range(b.free) : b \in Range(d.blocks)} :
              p \in DOMAIN d.names /\ \E i, k : FreeAt(d, bs, fx, o, p, i, k)
         /\ \A p, i, k : FreeAt(d, bs, fx, o, p, i, k) =>
              p \in UNION {Range(b.free) : b \in Range(d.blocks)}
         /\ \A p \in {b.scale : b \in Range(d.blocks)} :
              p \in DOMAIN d.names /\ \E j : ScaleAt(d, bs, fx, gs, o, p, j)
         /\ \A p, j : ScaleAt(d, bs, fx, gs, o, p, j) =>
              p \in {b.scale : b \in Range(d.blocks)}
<1>1. DOMAIN d.blocks = 1..Len(bs)
  BY DEF LaidOut, Laid
<1>2. ASSUME NEW x \in 1..Len(bs), NEW y \in 1..Len(bs), x # y,
             NEW p \in Range(d.blocks[x].free), p \in Range(d.blocks[y].free)
      PROVE  FALSE
  <2>1. PICK k : FreeAt(d, bs, fx, o, p, x, k)
    BY FreePlaces
  <2>2. PICK l : FreeAt(d, bs, fx, o, p, y, l)
    BY <1>2, FreePlaces
  <2>3. <<"z", bs[x].role, bs[x].surface, bs[x].levels[k]>>
          = <<"z", bs[y].role, bs[y].surface, bs[y].levels[l]>>
    BY <2>1, <2>2 DEF FreeAt
  <2>4. KeyOf(bs[x]) = KeyOf(bs[y])
    BY <2>3 DEF KeyOf
  <2> QED
    BY <1>2, <2>4, BlocksAre DEF LaidOut
<1>3. ASSUME NEW p \in UNION {Range(b.free) : b \in Range(d.blocks)}
      PROVE  p \in DOMAIN d.names /\ \E i, k : FreeAt(d, bs, fx, o, p, i, k)
  <2>1. PICK i \in 1..Len(bs) : p \in Range(d.blocks[i].free)
    BY <1>1 DEF Range
  <2> QED
    BY <2>1, FreePlaces
<1>4. ASSUME NEW p, NEW i, NEW k, FreeAt(d, bs, fx, o, p, i, k)
      PROVE  p \in UNION {Range(b.free) : b \in Range(d.blocks)}
  <2>1. i \in 1..Len(bs)
    BY <1>4 DEF FreeAt
  <2>2. p \in Range(d.blocks[i].free)
    BY <1>4, <2>1, FreePlaces
  <2>3. d.blocks[i] \in Range(d.blocks)
    BY <1>1, <2>1 DEF Range
  <2> QED
    BY <2>2, <2>3
<1>5. ASSUME NEW p \in {b.scale : b \in Range(d.blocks)}
      PROVE  p \in DOMAIN d.names /\ \E j : ScaleAt(d, bs, fx, gs, o, p, j)
  <2>1. PICK i \in 1..Len(bs) : p = d.blocks[i].scale
    BY <1>1 DEF Range
  <2> QED
    BY <2>1, ScalePlaces
<1>6. ASSUME NEW p, NEW j, ScaleAt(d, bs, fx, gs, o, p, j)
      PROVE  p \in {b.scale : b \in Range(d.blocks)}
  <2>1. j \in 1..Len(gs) /\ p = Len(fx) + o[Len(bs)] + j
    BY <1>6 DEF ScaleAt
  <2>2. PICK i \in 1..Len(bs) : bs[i].group = gs[j]
    BY <2>1, PartsAre
  <2>3. PICK l : ScaleAt(d, bs, fx, gs, o, d.blocks[i].scale, l) /\ gs[l] = bs[i].group
    BY ScalePlaces
  <2>4. l \in 1..Len(gs) /\ d.blocks[i].scale = Len(fx) + o[Len(bs)] + l
    BY <2>3 DEF ScaleAt
  <2>5. l = j
    BY <2>1, <2>2, <2>3, <2>4, PartsAre
  <2>6. d.blocks[i] \in Range(d.blocks)
    BY <1>1 DEF Range
  <2> QED
    BY <2>1, <2>4, <2>5, <2>6
<1> QED
  BY <1>1, <1>2, <1>3, <1>4, <1>5, <1>6

LEMMA DesignCoherent ==
  ASSUME NEW d, NEW rows, NEW c, NEW bs, NEW fx, NEW gs, NEW o,
         LaidOut(d, rows, c, bs, fx, gs, o)
  PROVE  Coherent(d)
<1>1. PICK kappa : kappa = {i \in DOMAIN d.names : d.names[i] = <<"log_kappa">>}
  OBVIOUS
<1>2. PICK free : free = UNION {Range(b.free) : b \in Range(d.blocks)}
  OBVIOUS
<1>3. PICK scales : scales = {b.scale : b \in Range(d.blocks)}
  OBVIOUS
<1>4. IsInjective(d.names)
  BY NamesDiffer DEF IsInjective
<1>5. \A p \in d.fixed : p \in DOMAIN d.names /\ FixedAt(d, rows, fx, p)
  <2>1. d.fixed = 1..Len(fx)
    BY DEF LaidOut, Laid
  <2>2. \A i \in 1..Len(fx) : i \in DOMAIN d.names /\ FixedAt(d, rows, fx, i)
    BY PlacesAre
  <2> QED
    BY <2>1, <2>2
<1>6. \A p \in free : p \in DOMAIN d.names /\ \E i, k : FreeAt(d, bs, fx, o, p, i, k)
  BY <1>2, FreeApart
<1>7. \A p \in scales : p \in DOMAIN d.names /\ \E j : ScaleAt(d, bs, fx, gs, o, p, j)
  BY <1>3, FreeApart
<1>8. /\ \A p \in d.fixed : d.names[p][1] \in {"intercept", "surface_fixed", "indoor_hard"}
      /\ \A p \in free : d.names[p][1] = "z"
      /\ \A p \in scales : d.names[p][1] = "log_scale"
  BY <1>5, <1>6, <1>7 DEF FixedAt, FreeAt, ScaleAt
<1>9. d.fixed \cap free = {} /\ d.fixed \cap scales = {} /\ free \cap scales = {}
  BY <1>8
<1>10. ASSUME NEW p \in DOMAIN d.names PROVE p \in d.fixed \cup free \cup scales \cup kappa
  <2>1. CASE FixedAt(d, rows, fx, p)
    BY <2>1 DEF LaidOut, Laid, FixedAt
  <2>2. ASSUME NEW i, NEW k, FreeAt(d, bs, fx, o, p, i, k) PROVE p \in free
    BY <1>2, <2>2, FreeApart
  <2>3. ASSUME NEW j, ScaleAt(d, bs, fx, gs, o, p, j) PROVE p \in scales
    BY <1>3, <2>3, FreeApart
  <2>4. CASE KappaAt(d, bs, fx, gs, o, p)
    BY <1>1, <2>4 DEF KappaAt
  <2> QED
    BY <2>1, <2>2, <2>3, <2>4, PlacesAre
<1>11. d.fixed \cup free \cup scales \cup kappa = DOMAIN d.names
  BY <1>1, <1>5, <1>6, <1>7, <1>10
<1>12. \A x, y \in DOMAIN d.blocks :
         x # y => Range(d.blocks[x].free) \cap Range(d.blocks[y].free) = {}
  BY FreeApart
<1>13. d.component = c
  BY DEF LaidOut, Laid
<1>14. Cardinality({i \in DOMAIN d.blocks : d.blocks[i].role = "server_global"}) = 1
  <2>1. <<"server_global", NotKnown>> \in BlockKeys(rows, c)
    BY DEF BlockKeys, GlobalKeys, SideKeys
  <2>2. PICK role : role = "server_global" /\ role \in {"server_global", "returner_global"}
    OBVIOUS
  <2> QED
    BY <2>1, <2>2, OneOfRole
<1>15. Cardinality({i \in DOMAIN d.blocks : d.blocks[i].role = "returner_global"})
         = IF d.component \in OpponentComponents THEN 1 ELSE 0
  <2>1. PICK role : role = "returner_global" /\ role \in {"server_global", "returner_global"}
    OBVIOUS
  <2>2. <<role, NotKnown>> \in BlockKeys(rows, c) <=> c \in OpponentComponents
    <3>1. c \in OpponentComponents => <<role, NotKnown>> \in BlockKeys(rows, c)
      BY <2>1 DEF BlockKeys, GlobalKeys, SideKeys
    <3>2. ASSUME c \notin OpponentComponents PROVE <<role, NotKnown>> \notin BlockKeys(rows, c)
      <4>1. <<role, NotKnown>> \notin GlobalKeys(c)
        BY <2>1, <3>2 DEF GlobalKeys, SideKeys
      <4>2. \A s : <<role, NotKnown>> \notin SurfaceKeys(c, s)
        BY <2>1, <3>2 DEF SurfaceKeys, SideKeys
      <4>3. <<role, NotKnown>> \notin EventKeys(rows, c)
        BY <2>1 DEF EventKeys
      <4> QED
        BY <4>1, <4>2, <4>3 DEF BlockKeys
    <3> QED
      BY <3>1, <3>2
  <2> QED
    BY <1>13, <2>1, <2>2, OneOfRole
<1>16. \A b \in Range(d.blocks) :
         /\ b.levels # <<>> /\ Len(b.free) = Len(b.levels) - 1
         /\ \A k, l \in DOMAIN b.levels : k < l => Rank[b.levels[k]] < Rank[b.levels[l]]
         /\ d.names[b.scale] = <<"log_scale", b.group>>
         /\ \A i \in Range(b.free) : SubSeq(d.names[i], 1, 3) = <<"z", b.role, b.surface>>
  BY BlockCoherent
<1> QED
  BY <1>1, <1>2, <1>3, <1>4, <1>9, <1>11, <1>12, <1>14, <1>15, <1>16 DEF Coherent

\* What is subtracted of every level is what is added for one.
LEMMA SumOfLess ==
  ASSUME NEW S, IsFiniteSet(S), NEW g, \A x \in S : g[x] = -1
  PROVE  SumOf(g, S) = 0 - Cardinality(S) /\ Cardinality(S) \in Nat
<1>1. PICK G : G = {T \in SUBSET S : SumOf(g, T) = 0 - Cardinality(T)}
  OBVIOUS
<1>2. ASSUME NEW T \in SUBSET S, \A r \in SUBSET T : r # T => r \in G PROVE T \in G
  <2>1. IsFiniteSet(T) /\ \A x \in T : g[x] \in Int
    BY FS_Subset
  <2>2. CASE T = {}
    <3>1. SumOf(g, T) = 0 /\ Cardinality(T) = 0
      BY <2>1, <2>2, SumOfTake, FS_EmptySet
    <3> QED
      BY <1>1, <3>1
  <2>3. CASE T # {}
    <3>1. PICK x \in T : TRUE
      BY <2>3
    <3>2. PICK U : U = T \ {x}
      OBVIOUS
    <3>3. SumOf(g, T) = g[x] + SumOf(g, U)
      BY <2>1, <3>1, <3>2, SumOfTake
    <3>4. IsFiniteSet(U) /\ Cardinality(U) = Cardinality(T) - 1
      BY <2>1, <3>1, <3>2, FS_RemoveElement
    <3>5. SumOf(g, U) = 0 - Cardinality(U)
      <4>1. U \in SUBSET T /\ U # T
        BY <3>1, <3>2
      <4> QED
        BY <1>1, <1>2, <4>1
    <3>6. Cardinality(T) \in Nat
      BY <2>1, FS_CardinalityType
    <3>7. g[x] = -1
      BY <3>1
    <3>8. SumOf(g, T) = 0 - Cardinality(T)
      BY <3>3, <3>4, <3>5, <3>6, <3>7
    <3> QED
      BY <1>1, <3>8
  <2> QED
    BY <2>2, <2>3
<1>3. SUBSET S \subseteq G
  BY <1>2, SmallerFirst
<1>4. S \in SUBSET S
  OBVIOUS
<1>5. SumOf(g, S) = 0 - Cardinality(S)
  BY <1>1, <1>3, <1>4
<1> QED
  BY <1>5, FS_CardinalityType

LEMMA SumOfCentred ==
  ASSUME NEW S, IsFiniteSet(S), NEW x \in S, NEW n, n = Cardinality(S),
         NEW g, \A y \in S : g[y] = (IF y = x THEN n ELSE 0) - 1
  PROVE  SumOf(g, S) = 0
<1>1. n \in Nat
  BY FS_CardinalityType
<1>2. PICK T : T = S \ {x}
  OBVIOUS
<1>3. IsFiniteSet(T) /\ Cardinality(T) = n - 1
  BY <1>2, FS_RemoveElement
<1>4. \A y \in T : g[y] = -1
  BY <1>2
<1>5. SumOf(g, T) = 0 - (n - 1)
  BY <1>1, <1>3, <1>4, SumOfLess
<1>6. \A y \in S : g[y] \in Int
  BY <1>1
<1>7. SumOf(g, S) = g[x] + SumOf(g, T)
  BY <1>2, <1>6, SumOfTake
<1>8. g[x] = n - 1
  BY <1>1
<1> QED
  BY <1>1, <1>5, <1>7, <1>8

SumOfEffects(b, i) == MapThenSumSet(LAMBDA level : LevelEffect(b, level)[i], Range(b.levels))

LEMMA SumOfEffectsIsSum ==
  ASSUME NEW b, NEW i, NEW S, S = Range(b.levels), IsFiniteSet(S),
         NEW g, \A x \in S : g[x] = LevelEffect(b, x)[i]
  PROVE  SumOfEffects(b, i) = SumOf(g, S)
<1>1. PICK jt : SumsOver(jt, g, S) /\ SumOf(g, S) = jt[S]
  BY SumOfSums
<1>2. ASSUME NEW s \in SUBSET S, s # {} PROVE g[OneOf(s)] = LevelEffect(b, OneOf(s))[i]
  BY <1>2 DEF OneOf
<1> DEFINE SumsTo(f) == f = [s \in SUBSET S |-> IF s = {} THEN 0
                                ELSE LevelEffect(b, OneOf(s))[i] + f[s \ {OneOf(s)}]]
<1>3. ASSUME NEW f PROVE SumsTo(f) <=> SumsOver(f, g, S)
  <2>1. [s \in SUBSET S |-> IF s = {} THEN 0
                            ELSE LevelEffect(b, OneOf(s))[i] + f[s \ {OneOf(s)}]]
        = [s \in SUBSET S |-> IF s = {} THEN 0 ELSE g[OneOf(s)] + f[s \ {OneOf(s)}]]
    BY <1>2
  <2> QED
    BY <2>1 DEF SumsOver
<1>4. PICK it : it = CHOOSE f : SumsTo(f)
  OBVIOUS
<1>5. SumOfEffects(b, i) = it[S]
  BY <1>4 DEF SumOfEffects, MapThenSumSet, MapThenFoldSet, OneOf
<1>6. SumsOver(it, g, S)
  BY <1>1, <1>3, <1>4
<1> HIDE DEF SumsTo
<1>7. it = jt
  BY <1>1, <1>6, SumsAgree
<1> QED
  BY <1>1, <1>5, <1>7

LEMMA EffectsCentred ==
  ASSUME NEW d, NEW rows, NEW c, NEW bs, NEW fx, NEW gs, NEW o,
         LaidOut(d, rows, c, bs, fx, gs, o),
         NEW b \in Range(d.blocks), NEW p \in Range(b.free)
  PROVE  SumOfEffects(b, p) = 0
<1>1. PICK i \in 1..Len(bs) : b = d.blocks[i]
  <2>1. DOMAIN d.blocks = 1..Len(bs)
    BY DEF LaidOut, Laid
  <2> QED
    BY <2>1 DEF Range
<1>2. BlockIs(bs[i], rows)
  BY BlocksAre DEF LaidOut
<1>3. b.levels = bs[i].levels
  BY <1>1, FreePlaces
<1>4. PICK S : S = Range(b.levels)
  OBVIOUS
<1>5. PICK n \in Nat : n = Len(b.levels) /\ n = Cardinality(S) /\ IsFiniteSet(S)
                       /\ DOMAIN b.levels = 1..n
                       /\ \A k, l \in 1..n : b.levels[k] = b.levels[l] => k = l
  BY <1>2, <1>3, <1>4 DEF BlockIs, AreLevels
<1>6. /\ DOMAIN b.free = 1..(n - 1) /\ \A k \in 1..(n - 1) : b.free[k] = Len(fx) + o[i - 1] + k
  BY <1>1, <1>3, <1>5, FreePlaces
<1>7. PICK u \in Nat : u = Len(fx) + o[i - 1]
  <2>1. Len(fx) \in Nat /\ o[i - 1] \in Nat
    BY <1>1, PartsAre
  <2> QED
    BY <2>1
<1>8. \A k \in 1..(n - 1) : b.free[k] = u + k
  BY <1>6, <1>7
<1>9. PICK k \in 1..(n - 1) : p = u + k
  BY <1>6, <1>8 DEF Range
<1>10. k \in 1..n
  BY <1>9
<1>11. PICK x \in S : x = b.levels[k]
  BY <1>4, <1>5, <1>10 DEF Range
<1>12. ASSUME NEW y \in S PROVE p \in FreeOf(b, y) <=> y = x
  <2>1. p \in FreeOf(b, y) <=> \E l \in 1..(n - 1) : b.levels[l] = y /\ p = b.free[l]
    BY <1>6 DEF FreeOf
  <2>2. \A l \in 1..(n - 1) : p = b.free[l] <=> l = k
    BY <1>7, <1>8, <1>9
  <2> QED
    BY <1>9, <1>11, <2>1, <2>2
<1>13. PICK g : g = [y \in S |-> LevelEffect(b, y)[p]]
  OBVIOUS
<1>14. ASSUME NEW y \in S PROVE g[y] = (IF y = x THEN n ELSE 0) - 1
  <2>1. LevelEffect(b, y)[p] = (IF p \in FreeOf(b, y) THEN Len(b.levels) ELSE 0) - 1
    BY <1>4 DEF LevelEffect
  <2> QED
    BY <1>5, <1>12, <1>13, <2>1
<1>15. SumOf(g, S) = 0
  BY <1>5, <1>14, SumOfCentred
<1>16. SumOfEffects(b, p) = SumOf(g, S)
  BY <1>4, <1>5, <1>13, SumOfEffectsIsSum
<1> QED
  BY <1>15, <1>16

\* A row is in a block exactly when a match like it uses the block and the
\* block has its level.
LEMMA UsedIsActive ==
  ASSUME NEW d, NEW rows, NEW c, NEW bs, NEW fx, NEW gs, NEW o,
         LaidOut(d, rows, c, bs, fx, gs, o), NEW i \in 1..Len(bs), NEW b, b = d.blocks[i],
         NEW r
  PROVE  (<<b.role, b.surface>> \in EffectsOf(d, r) /\ LevelOf(b.role, r) \in Range(b.levels))
           <=> InBlock(b, r)
<1>1. PICK role : role = b.role
  OBVIOUS
<1>2. PICK surface : surface = b.surface
  OBVIOUS
<1>3. <<role, surface>> \in BlockKeys(rows, c) /\ b.levels = bs[i].levels /\ BlockIs(bs[i], rows)
      /\ bs[i].role = role /\ bs[i].surface = surface
  <2>1. KeyOf(bs[i]) \in BlockKeys(rows, c) /\ BlockIs(bs[i], rows)
    BY BlocksAre DEF LaidOut
  <2>2. b.role = bs[i].role /\ b.surface = bs[i].surface /\ b.levels = bs[i].levels
    BY FreePlaces
  <2> QED
    BY <1>1, <1>2, <2>1, <2>2 DEF KeyOf
<1>4. d.component = c
  BY DEF LaidOut, Laid
<1>5. NotKnown \notin SurfacesOf(rows)
  BY SurfacesSorted DEF LaidOut
<1>6. NotKnown \notin Range(b.levels)
  BY <1>3 DEF BlockIs, AreLevels, LevelSet
<1>7. InBlock(b, r) <=> /\ surface # NotKnown => r.surface = surface
                        /\ LevelOf(role, r) \in Range(b.levels)
  BY <1>1, <1>2 DEF InBlock
<1>8. CASE role = "server_global" /\ surface = NotKnown
  <2>1. <<role, surface>> \in EffectsOf(d, r)
    BY <1>8 DEF EffectsOf
  <2> QED
    BY <1>1, <1>2, <1>7, <1>8, <2>1
<1>9. CASE role = "returner_global" /\ surface = NotKnown
  <2>1. c \in OpponentComponents
    <3>1. <<role, surface>> \in SideKeys(c, "server_global", "returner_global", NotKnown)
            \/ (\E s : <<role, surface>> \in SideKeys(c, "server_surface", "returner_surface", s))
            \/ <<role, surface>> \in EventKeys(rows, c)
      BY <1>3 DEF BlockKeys, GlobalKeys, SurfaceKeys
    <3> QED
      BY <1>9, <3>1 DEF SideKeys, EventKeys
  <2>2. <<role, surface>> \in EffectsOf(d, r)
    BY <1>4, <1>9, <2>1 DEF EffectsOf
  <2> QED
    BY <1>1, <1>2, <1>7, <1>9, <2>2
<1>10. CASE role = "server_surface" /\ surface \in SurfacesOf(rows)
  <2>1. <<role, surface>> \in EffectsOf(d, r) <=> surface = r.surface
    BY <1>10 DEF EffectsOf
  <2>2. surface # NotKnown
    BY <1>5, <1>10
  <2> QED
    BY <1>1, <1>2, <1>7, <2>1, <2>2
<1>11. CASE role = "returner_surface" /\ surface \in SurfacesOf(rows)
  <2>1. c \in OpponentComponents
    <3>1. <<role, surface>> \in SideKeys(c, "server_global", "returner_global", NotKnown)
            \/ (\E s : <<role, surface>> \in SideKeys(c, "server_surface", "returner_surface", s))
            \/ <<role, surface>> \in EventKeys(rows, c)
      BY <1>3 DEF BlockKeys, GlobalKeys, SurfaceKeys
    <3> QED
      BY <1>11, <3>1 DEF SideKeys, EventKeys
  <2>2. <<role, surface>> \in EffectsOf(d, r) <=> surface = r.surface
    BY <1>4, <1>11, <2>1 DEF EffectsOf
  <2>3. surface # NotKnown
    BY <1>5, <1>11
  <2> QED
    BY <1>1, <1>2, <1>7, <2>2, <2>3
<1>12. CASE role = "event_year" /\ surface = NotKnown
  <2>1. b \in Range(d.blocks)
    <3>1. i \in DOMAIN d.blocks
      BY FreePlaces
    <3> QED
      BY <3>1 DEF Range
  <2>2. \E e \in Range(d.blocks) : e.role = "event_year"
    BY <1>1, <1>12, <2>1
  <2>3. <<role, surface>> \in EffectsOf(d, r) <=> r.event # NotKnown
    BY <1>12, <2>2 DEF EffectsOf
  <2>4. LevelOf(role, r) = r.event
    <3>1. role \in Roles
      BY <1>12 DEF Roles
    <3> QED
      BY <1>12, <3>1, LevelIs
  <2> QED
    BY <1>1, <1>2, <1>6, <1>7, <1>12, <2>3, <2>4
<1> QED
  BY <1>3, <1>8, <1>9, <1>10, <1>11, <1>12, KeyKinds

LEMMA SignIs == \A role : Sign(role) \in {-1, 1}
BY DEF Sign

LEMMA RowsPredicted ==
  ASSUME NEW d, NEW rows, NEW c, NEW bs, NEW fx, NEW gs, NEW o,
         LaidOut(d, rows, c, bs, fx, gs, o), NEW r
  PROVE  MatchTerms(d, r) = RowTerms(d, r)
<1>1. ASSUME NEW p \in d.fixed
      PROVE  d.names[p] \in MatchFixed(d, r) <=> d.names[p] \in RowFixed(r)
  <2>1. p \in DOMAIN d.names /\ d.names[p] \in FixedSet(rows)
    <3>1. p \in 1..Len(fx)
      BY DEF LaidOut, Laid
    <3> QED
      BY <3>1, PlacesAre DEF FixedAt
  <2>2. PICK x : x = d.names[p]
    OBVIOUS
  <2>3. x \in FixedSet(rows) /\ x \in Range(d.names)
    BY <2>1, <2>2 DEF Range
  <2>4. x = <<"indoor_hard">> => IndoorHard
    BY <2>3 DEF FixedSet
  <2>5. x \in MatchFixed(d, r) <=> x \in RowFixed(r)
    <3>1. PICK s : s = <<"surface_fixed", r.surface>>
      OBVIOUS
    <3>2. x \in MatchFixed(d, r) <=>
            \/ x = <<"intercept">> \/ (x = s /\ s \in Range(d.names))
            \/ (x = <<"indoor_hard">> /\ IndoorHard /\ r.surface = "Hard" /\ r.indoor = "in")
      BY <3>1 DEF MatchFixed
    <3>3. x \in RowFixed(r) <=>
            \/ x = <<"intercept">> \/ x = s
            \/ (x = <<"indoor_hard">> /\ r.surface = "Hard" /\ r.indoor = "in")
      BY <3>1 DEF RowFixed
    <3> QED
      BY <2>3, <2>4, <3>2, <3>3
  <2> QED
    BY <2>2, <2>5
<1>2. {p \in d.fixed : d.names[p] \in MatchFixed(d, r)}
        = {p \in d.fixed : d.names[p] \in RowFixed(r)}
  BY <1>1
<1> DEFINE Term(b) ==
      [p \in Range(b.free) |->
         IF <<b.role, b.surface>> \in EffectsOf(d, r)
         THEN Sign(b.role) * LevelEffect(b, LevelOf(b.role, r))[p] ELSE 0]
<1>3. ASSUME NEW i \in DOMAIN d.blocks
      PROVE  Term(d.blocks[i]) = RowEffect(d.blocks[i], r)
  <2>1. PICK b : b = d.blocks[i]
    OBVIOUS
  <2>2. i \in 1..Len(bs)
    BY DEF LaidOut, Laid
  <2>3. PICK level : level = LevelOf(b.role, r)
    OBVIOUS
  <2>4. (<<b.role, b.surface>> \in EffectsOf(d, r) /\ level \in Range(b.levels)) <=> InBlock(b, r)
    BY <2>1, <2>2, <2>3, UsedIsActive
  <2>5. Len(b.levels) \in Nat
    <3>1. b.levels = bs[i].levels
      BY <2>1, <2>2, FreePlaces
    <3>2. BlockIs(bs[i], rows)
      BY <2>2, BlocksAre DEF LaidOut
    <3> QED
      BY <3>1, <3>2 DEF BlockIs, AreLevels
  <2>6. PICK s \in {-1, 1} : s = Sign(b.role)
    BY SignIs
  <2>7. ASSUME NEW p \in Range(b.free) PROVE Term(b)[p] = RowEffect(b, r)[p]
    <3>1. RowEffect(b, r)[p] =
            s * ((IF InBlock(b, r) /\ p \in FreeOf(b, level) THEN Len(b.levels) ELSE 0)
                   - (IF InBlock(b, r) THEN 1 ELSE 0))
      BY <2>3, <2>6 DEF RowEffect
    <3>2. LevelEffect(b, level)[p] =
            IF level \notin Range(b.levels) THEN 0
            ELSE (IF p \in FreeOf(b, level) THEN Len(b.levels) ELSE 0) - 1
      BY DEF LevelEffect
    <3>3. Term(b)[p] =
            IF <<b.role, b.surface>> \in EffectsOf(d, r) THEN s * LevelEffect(b, level)[p] ELSE 0
      BY <2>3, <2>6
    <3>4. CASE InBlock(b, r)
      <4>1. Term(b)[p] = s * ((IF p \in FreeOf(b, level) THEN Len(b.levels) ELSE 0) - 1)
        BY <2>4, <3>2, <3>3, <3>4
      <4>2. RowEffect(b, r)[p] = s * ((IF p \in FreeOf(b, level) THEN Len(b.levels) ELSE 0) - 1)
        BY <3>1, <3>4
      <4> QED
        BY <4>1, <4>2
    <3>5. CASE ~ InBlock(b, r)
      <4>1. RowEffect(b, r)[p] = s * (0 - 0)
        BY <3>1, <3>5
      <4>2. \/ Term(b)[p] = 0 \/ Term(b)[p] = s * 0
        BY <2>4, <3>2, <3>3, <3>5
      <4> QED
        BY <2>6, <4>1, <4>2
    <3> QED
      BY <3>4, <3>5
  <2>8. RowEffect(b, r) = [p \in Range(b.free) |-> RowEffect(b, r)[p]]
    BY DEF RowEffect
  <2>9. Term(b) = [p \in Range(b.free) |-> Term(b)[p]]
    OBVIOUS
  <2> HIDE DEF Term
  <2>10. Term(b) = RowEffect(b, r)
    BY <2>7, <2>8, <2>9
  <2> QED
    BY <2>1, <2>10
<1>4. MatchTerms(d, r).blocks = [i \in DOMAIN d.blocks |-> Term(d.blocks[i])]
  BY DEF MatchTerms
<1>5. RowTerms(d, r).blocks = [i \in DOMAIN d.blocks |-> RowEffect(d.blocks[i], r)]
  BY DEF RowTerms
<1> HIDE DEF Term
<1>6. MatchTerms(d, r).blocks = RowTerms(d, r).blocks
  BY <1>3, <1>4, <1>5
<1>7. MatchTerms(d, r).fixed = RowTerms(d, r).fixed
  BY <1>2 DEF MatchTerms, RowTerms
<1>8. /\ MatchTerms(d, r) = [fixed |-> MatchTerms(d, r).fixed, blocks |-> MatchTerms(d, r).blocks]
      /\ RowTerms(d, r) = [fixed |-> RowTerms(d, r).fixed, blocks |-> RowTerms(d, r).blocks]
  BY DEF MatchTerms, RowTerms
<1> QED
  BY <1>6, <1>7, <1>8

\* A block has the level of each of its rows.
LEMMA RowsHaveLevels ==
  ASSUME NEW d, NEW rows, NEW c, NEW bs, NEW fx, NEW gs, NEW o,
         LaidOut(d, rows, c, bs, fx, gs, o), NEW r \in rows,
         NEW role, NEW surface, <<role, surface>> \in BlockKeys(rows, c),
         surface = NotKnown \/ surface = r.surface, LevelOf(role, r) # NotKnown
  PROVE  \E b \in BlockNamed(d, <<role, surface>>) : LevelOf(role, r) \in Range(d.blocks[b].levels)
<1>1. PICK i \in 1..Len(bs) : KeyOf(bs[i]) = <<role, surface>>
  BY BlocksAre DEF LaidOut
<1>2. BlockIs(bs[i], rows) /\ bs[i].role = role /\ bs[i].surface = surface
  <2>1. BlockIs(bs[i], rows)
    BY BlocksAre DEF LaidOut
  <2> QED
    BY <1>1, <2>1 DEF KeyOf
<1>3. /\ d.blocks[i].role = role /\ d.blocks[i].surface = surface
      /\ d.blocks[i].levels = bs[i].levels /\ i \in DOMAIN d.blocks
  BY <1>2, FreePlaces
<1>4. i \in BlockNamed(d, <<role, surface>>)
  BY <1>3 DEF BlockNamed
<1>5. r \in RowsOn(rows, surface)
  BY DEF RowsOn
<1>6. LevelOf(role, r) \in LevelSet(rows, role, surface)
  BY <1>5 DEF LevelSet
<1>7. Range(bs[i].levels) = LevelSet(rows, role, surface)
  BY <1>2 DEF BlockIs, AreLevels
<1> QED
  BY <1>3, <1>4, <1>6, <1>7

LEMMA RowsEstimated ==
  ASSUME NEW d, NEW rows, NEW c, NEW bs, NEW fx, NEW gs, NEW o,
         LaidOut(d, rows, c, bs, fx, gs, o), NEW r \in rows
  PROVE  UnseenEffects(d, r) = {}
<1>1. SUFFICES ASSUME NEW e \in EffectsOf(d, r) PROVE Estimated(d, e, r)
  BY DEF UnseenEffects
<1>2. d.component = c
  BY DEF LaidOut, Laid
<1>3. r.player # NotKnown /\ r.opponent # NotKnown
  BY DEF LaidOut, GoodRows
<1>4. r.surface \in SurfacesOf(rows)
  BY DEF SurfacesOf
<1>5. ASSUME NEW role, NEW surface, e = <<role, surface>>, <<role, surface>> \in BlockKeys(rows, c),
             surface = NotKnown \/ surface = r.surface, LevelOf(role, r) # NotKnown
      PROVE  Estimated(d, e, r)
  <2>1. e[1] = role
    BY <1>5
  <2>2. \E b \in BlockNamed(d, e) : LevelOf(role, r) \in Range(d.blocks[b].levels)
    BY <1>5, RowsHaveLevels
  <2> QED
    BY <2>1, <2>2 DEF Estimated
<1>6. CASE e = <<"server_global", NotKnown>>
  <2>1. e \in BlockKeys(rows, c)
    BY <1>6 DEF BlockKeys, GlobalKeys, SideKeys
  <2>2. LevelOf("server_global", r) = r.player
    BY DEF LevelOf
  <2> QED
    BY <1>3, <1>5, <1>6, <2>1, <2>2
<1>7. CASE e = <<"server_surface", r.surface>>
  <2>1. e \in SurfaceKeys(c, r.surface)
    BY <1>7 DEF SurfaceKeys, SideKeys
  <2>2. e \in BlockKeys(rows, c)
    BY <1>4, <2>1 DEF BlockKeys
  <2>3. LevelOf("server_surface", r) = r.player
    BY DEF LevelOf
  <2> QED
    BY <1>3, <1>5, <1>7, <2>2, <2>3
<1>8. CASE c \in OpponentComponents /\ e = <<"returner_global", NotKnown>>
  <2>1. e \in BlockKeys(rows, c)
    BY <1>8 DEF BlockKeys, GlobalKeys, SideKeys
  <2>2. LevelOf("returner_global", r) = r.opponent
    BY DEF LevelOf
  <2> QED
    BY <1>3, <1>5, <1>8, <2>1, <2>2
<1>9. CASE c \in OpponentComponents /\ e = <<"returner_surface", r.surface>>
  <2>1. e \in SurfaceKeys(c, r.surface)
    BY <1>9 DEF SurfaceKeys, SideKeys
  <2>2. e \in BlockKeys(rows, c)
    BY <1>4, <2>1 DEF BlockKeys
  <2>3. LevelOf("returner_surface", r) = r.opponent
    BY DEF LevelOf
  <2> QED
    BY <1>3, <1>5, <1>9, <2>2, <2>3
<1>10. CASE /\ e = <<"event_year", NotKnown>> /\ r.event # NotKnown
            /\ \E b \in Range(d.blocks) : b.role = "event_year"
  <2>1. PICK i \in 1..Len(bs) : d.blocks[i].role = "event_year"
    <3>1. DOMAIN d.blocks = 1..Len(bs)
      BY DEF LaidOut, Laid
    <3> QED
      BY <1>10, <3>1 DEF Range
  <2>2. bs[i].role = "event_year" /\ KeyOf(bs[i]) \in BlockKeys(rows, c)
    <3>1. bs[i].role = "event_year"
      BY <2>1, FreePlaces
    <3>2. KeyOf(bs[i]) \in BlockKeys(rows, c)
      BY BlocksAre DEF LaidOut
    <3> QED
      BY <3>1, <3>2
  <2>3. PICK surface : surface = bs[i].surface
    OBVIOUS
  <2>4. PICK role : role = "event_year"
    OBVIOUS
  <2>5. <<role, surface>> \in BlockKeys(rows, c)
    BY <2>2, <2>3, <2>4 DEF KeyOf
  <2>6. surface = NotKnown
    BY <2>4, <2>5, KeyKinds
  <2>7. LevelOf("event_year", r) = r.event
    BY DEF LevelOf
  <2> QED
    BY <1>5, <1>10, <2>4, <2>5, <2>6, <2>7
<1> QED
  BY <1>2, <1>6, <1>7, <1>8, <1>9, <1>10 DEF EffectsOf

\* An effect is drawn when it is not estimated, and not otherwise.
LEMMA DrawnOrEstimated ==
  ASSUME NEW d, NEW match, NEW effect \in EffectsOf(d, match)
  PROVE  Estimated(d, effect, match) <=> \A drawn \in UnseenEffects(d, match) : drawn[1] # effect
<1>1. \A drawn \in UnseenEffects(d, match) :
        drawn[1] \in EffectsOf(d, match) /\ ~ Estimated(d, drawn[1], match)
  BY DEF UnseenEffects
<1>2. ASSUME ~ Estimated(d, effect, match)
      PROVE  \E drawn \in UnseenEffects(d, match) : drawn[1] = effect
  <2>1. PICK x : x = <<effect, LevelOf(effect[1], match), Sign(effect[1])>>
    OBVIOUS
  <2>2. x \in UnseenEffects(d, match) /\ x[1] = effect
    BY <1>2, <2>1 DEF UnseenEffects
  <2> QED
    BY <2>2
<1> QED
  BY <1>1, <1>2

\* What PredictionFollowsDesign asks of a design.
LEMMA DesignFollowed ==
  ASSUME NEW rows, GoodRows(rows), NEW c, NEW d, d = Design(rows, c)
  PROVE  /\ Coherent(d)
         /\ \A r \in rows : MatchTerms(d, r) = RowTerms(d, r) /\ UnseenEffects(d, r) = {}
         /\ \A b \in Range(d.blocks) : \A i \in Range(b.free) : SumOfEffects(b, i) = 0
         /\ \A match : \A effect \in EffectsOf(d, match) :
              Estimated(d, effect, match) <=>
                \A drawn \in UnseenEffects(d, match) : drawn[1] # effect
<1>1. PICK bs : bs = BlocksOf(rows, c)
  OBVIOUS
<1>2. PICK fx : fx = FixedNames(rows)
  OBVIOUS
<1>3. PICK gs : gs = GroupsOf(bs)
  OBVIOUS
<1>4. PICK o : Laid(d, c, bs, fx, gs, o) /\ Named(d, bs, fx, gs, o)
  BY <1>1, <1>2, <1>3, DesignLaid
<1>5. LaidOut(d, rows, c, bs, fx, gs, o)
  BY <1>1, <1>2, <1>3, <1>4 DEF LaidOut
<1>6. Coherent(d)
  BY <1>5, DesignCoherent
<1>7. \A r \in rows : MatchTerms(d, r) = RowTerms(d, r) /\ UnseenEffects(d, r) = {}
  BY <1>5, RowsPredicted, RowsEstimated
<1>8. \A b \in Range(d.blocks) : \A i \in Range(b.free) : SumOfEffects(b, i) = 0
  BY <1>5, EffectsCentred
<1> QED
  BY <1>6, <1>7, <1>8, DrawnOrEstimated

-----------------------------------------------------------------------------
(* Fits *)

\* What is known of a fit: it was not refused, and of its rows that they are
\* finitely many, have dates and say who played.
Told(r) ==
  /\ ObservedOn(r) \in Nat
  /\ {r.player, r.opponent} \subseteq DOMAIN Rank \ {NotKnown}
  /\ {r.surface, r.event} \subseteq DOMAIN Rank \cup {NotKnown}
WellFitted(f) ==
  /\ f.cutoff \in Nat /\ IsFiniteSet(f.given) /\ \A r \in f.given : Told(r)
  /\ f = Fitted(f.given, f.inputs, f.cutoff)
  /\ ~ FitRefused(f.given, f.inputs, f.cutoff)

FitInv ==
  /\ processed \in [Bundles -> SUBSET CountRows]
  /\ \A b \in Bundles : IsFiniteSet(processed[b])
  /\ \A f \in fits : WellFitted(f)

LEMMA ServeFitKeeps ==
  ASSUME NEW f, WellFitted(f)
  PROVE  LET before == {r \in f.given : KnownBefore(r, f.cutoff)}
         IN  /\ f.used = Fitted(before, f.inputs, f.cutoff).used
             /\ \A c \in Components :
                  /\ {r.bundle : r \in f.used[c]} = f.inputs
                  /\ \A x, y \in f.used[c] :
                       x.match = y.match /\ x.player = y.player => x = y
                  /\ \A r \in f.used[c] :
                       ObservedOn(r) \in (f.cutoff - WindowDays)..f.cutoff
<1> DEFINE before == {r \in f.given : KnownBefore(r, f.cutoff)}
<1>1. f.used = [c \in Components |-> UsedRows(f.given, c, f.cutoff)]
  <2>1. f.used = Fitted(f.given, f.inputs, f.cutoff).used
    BY DEF WellFitted
  <2> QED
    BY <2>1 DEF Fitted
<1>2. \A c : UsedRows(before, c, f.cutoff) = UsedRows(f.given, c, f.cutoff)
  BY DEF UsedRows, UsableRow, Considered
<1>3. f.used = Fitted(before, f.inputs, f.cutoff).used
  <2>1. Fitted(before, f.inputs, f.cutoff).used =
          [c \in Components |-> UsedRows(before, c, f.cutoff)]
    BY DEF Fitted
  <2> HIDE DEF before
  <2> QED
    BY <1>1, <1>2, <2>1
<1>4. ASSUME NEW c \in Components
      PROVE  /\ {r.bundle : r \in f.used[c]} = f.inputs
             /\ \A x, y \in f.used[c] :
                  x.match = y.match /\ x.player = y.player => x = y
             /\ \A r \in f.used[c] :
                  ObservedOn(r) \in (f.cutoff - WindowDays)..f.cutoff
  <2>1. /\ ~ PrepareRefused(f.given, c, f.cutoff)
        /\ ProvenanceAgrees(UsedRows(f.given, c, f.cutoff), f.inputs)
    BY DEF WellFitted, FitRefused
  <2>2. f.used[c] = UsedRows(f.given, c, f.cutoff)
    BY <1>1
  <2>3. {r.bundle : r \in f.used[c]} = f.inputs
    BY <2>1, <2>2 DEF ProvenanceAgrees
  <2>4. f.used[c] \subseteq f.given
    BY <2>2 DEF UsedRows
  <2>5. \A x, y \in f.used[c] : x.match = y.match /\ x.player = y.player => x = y
    BY <2>1, <2>4 DEF PrepareRefused, CountedTwice
  <2>6. ASSUME NEW r \in f.used[c]
        PROVE  ObservedOn(r) \in (f.cutoff - WindowDays)..f.cutoff
    <3> DEFINE seen == ObservedOn(r)
    <3>1. Considered(r, c, f.cutoff) /\ f.cutoff <= seen + WindowDays
      BY <2>2 DEF UsedRows, UsableRow
    <3>2. ~ (seen > f.cutoff)
      BY <2>1, <2>4, <3>1 DEF PrepareRefused
    <3>3. seen \in Nat /\ f.cutoff \in Nat /\ WindowDays \in Nat
      BY <2>4, FitAssumption DEF WellFitted, Told
    <3> HIDE DEF seen
    <3>4. seen \in (f.cutoff - WindowDays)..f.cutoff
      BY <3>1, <3>2, <3>3
    <3> QED
      BY <3>4 DEF seen
  <2> QED
    BY <2>3, <2>5, <2>6
<1> QED
  BY <1>3, <1>4

LEMMA FitInvStarts == FitInit => FitInv
BY FS_EmptySet DEF FitInit, FitInv

LEMMA RowsTold ==
  ASSUME FitInv, NEW inputs \in SUBSET Bundles, NEW r \in RowsOf(inputs)
  PROVE  Told(r)
<1>1. PICK b \in inputs : r \in {[q EXCEPT !.bundle = b] : q \in processed[b]}
  BY DEF RowsOf
<1>2. PICK q \in processed[b] : r = [q EXCEPT !.bundle = b]
  BY <1>1
<1>3. q \in CountRows
  BY DEF FitInv
<1>4. r.matchDate = q.matchDate /\ r.sourceDate = q.sourceDate
  BY <1>2, <1>3, FitAssumption
<1>5. ObservedOn(r) \in Nat
  BY <1>3, <1>4, FitAssumption DEF ObservedOn
<1>6. /\ r.player = q.player /\ r.opponent = q.opponent
      /\ r.surface = q.surface /\ r.event = q.event
  BY <1>2, <1>3, FitAssumption
<1>7. /\ {q.player, q.opponent} \subseteq DOMAIN Rank \ {NotKnown}
      /\ {q.surface, q.event} \subseteq DOMAIN Rank \cup {NotKnown}
  BY <1>3, FitAssumption
<1> QED
  BY <1>5, <1>6, <1>7 DEF Told

LEMMA RowsFinite ==
  ASSUME FitInv, NEW inputs \in SUBSET Bundles
  PROVE  IsFiniteSet(RowsOf(inputs))
<1> DEFINE Of(b) == {[q EXCEPT !.bundle = b] : q \in processed[b]}
<1>1. ASSUME NEW b \in inputs PROVE IsFiniteSet(Of(b))
  <2>1. PICK f : f = [q \in processed[b] |-> [q EXCEPT !.bundle = b]]
    OBVIOUS
  <2>2. f \in Surjection(processed[b], Of(b))
    BY <2>1 DEF Surjection
  <2>3. IsFiniteSet(processed[b])
    BY DEF FitInv
  <2> QED
    BY <2>2, <2>3, FS_Surjection
<1>2. IsFiniteSet(inputs)
  BY FitAssumption, FS_Subset
<1>3. IsFiniteSet({Of(b) : b \in inputs})
  <2>1. PICK f : f = [b \in inputs |-> Of(b)]
    OBVIOUS
  <2>2. f \in Surjection(inputs, {Of(b) : b \in inputs})
    BY <2>1 DEF Surjection
  <2> QED
    BY <1>2, <2>2, FS_Surjection
<1>4. IsFiniteSet(UNION {Of(b) : b \in inputs})
  <2> HIDE DEF Of
  <2> QED
    BY <1>1, <1>3, FS_UNION
<1> QED
  BY <1>4 DEF RowsOf

LEMMA FitInvKeeps == FitInv /\ [FitNext]_fitVars => FitInv'
<1> SUFFICES ASSUME FitInv, [FitNext]_fitVars PROVE FitInv'
  OBVIOUS
<1>1. ASSUME NEW b \in Bundles, NEW row \in CountRows, Process(b, row) PROVE FitInv'
  <2>1. processed[b] \cup {row} \in SUBSET CountRows /\ IsFiniteSet(processed[b] \cup {row})
    BY FS_AddElement DEF FitInv
  <2> QED
    BY <1>1, <2>1 DEF Process, FitInv
<1>2. ASSUME NEW inputs \in SUBSET Bundles \ {{}}, NEW cutoff \in FitCutoffs,
             FitAll(inputs, cutoff)
      PROVE  FitInv'
  <2> DEFINE rows == RowsOf(inputs)
             new == Fitted(rows, inputs, cutoff)
  <2>1. fits' = fits \cup {new} /\ UNCHANGED processed /\ ~ FitRefused(rows, inputs, cutoff)
    BY <1>2 DEF FitAll
  <2>2. new.given = rows /\ new.inputs = inputs /\ new.cutoff = cutoff
    BY DEF Fitted
  <2>3. cutoff \in Nat
    BY FitAssumption
  <2>4. IsFiniteSet(rows) /\ \A r \in rows : Told(r)
    BY <1>2, RowsTold, RowsFinite
  <2>5. new = Fitted(rows, inputs, cutoff)
    OBVIOUS
  <2> HIDE DEF rows, new
  <2>6. WellFitted(new)
    BY <2>1, <2>2, <2>3, <2>4, <2>5 DEF WellFitted
  <2> QED
    BY <2>1, <2>6 DEF FitInv
<1>3. CASE UNCHANGED fitVars
  BY <1>3 DEF fitVars, FitInv
<1> QED
  BY <1>1, <1>2, <1>3 DEF FitNext

\* Whatever the bundles hold, late and corrected rows too: a fit rests on what
\* was known before its cutoff, counts a match once for a player, keeps to its
\* window, and names the inputs its rows are of.
THEOREM FitsUseThePast == FitSpec => []FitsKeepToCutoff
<1>1. FitInv => FitsKeepToCutoff
  BY ServeFitKeeps DEF FitInv, FitsKeepToCutoff
<1> QED
  BY <1>1, FitInvStarts, FitInvKeeps, PTL DEF FitSpec

LEMMA FitsFollow ==
  ASSUME NEW f, WellFitted(f), NEW c \in Components, NEW d, d = f.design[c]
  PROVE  /\ Coherent(d)
         /\ \A r \in f.used[c] : ~ PredictionRefused(r)
         /\ \A r \in f.used[c] : MatchTerms(d, r) = RowTerms(d, r) /\ UnseenEffects(d, r) = {}
         /\ \A b \in Range(d.blocks) : \A i \in Range(b.free) : SumOfEffects(b, i) = 0
         /\ \A match : \A effect \in EffectsOf(d, match) :
              Estimated(d, effect, match) <=>
                \A drawn \in UnseenEffects(d, match) : drawn[1] # effect
<1>1. PICK rows : rows = UsedRows(f.given, c, f.cutoff)
  OBVIOUS
<1>2. f.used[c] = rows /\ d = Design(rows, c)
  <2>1. PICK g : g = Fitted(f.given, f.inputs, f.cutoff)
    OBVIOUS
  <2>2. /\ g.used = [x \in Components |-> UsedRows(f.given, x, f.cutoff)]
        /\ g.design = [x \in Components |-> Design(UsedRows(f.given, x, f.cutoff), x)]
    BY <2>1 DEF Fitted
  <2>3. f = g
    BY <2>1 DEF WellFitted
  <2> QED
    BY <1>1, <2>2, <2>3
<1>3. rows # {}
  BY <1>1 DEF WellFitted, FitRefused, PrepareRefused
<1>4. IsFiniteSet(rows)
  BY <1>1, FS_Subset DEF WellFitted, UsedRows
<1>5. \A r \in rows : Told(r) /\ r.surface # NotKnown
  BY <1>1 DEF WellFitted, UsedRows, UsableRow
<1>6. GoodRows(rows)
  BY <1>3, <1>4, <1>5 DEF GoodRows, Told
<1>7. \A r \in rows : ~ PredictionRefused(r)
  BY <1>1 DEF UsedRows, UsableRow, PredictionRefused
<1> QED
  BY <1>2, <1>6, <1>7, DesignFollowed

\* What a fit predicts is what was fitted, for every match it was trained on,
\* whatever rows it had: its parameters are named once and laid out without a
\* gap, the effects of a block add up to nothing, and an effect a match needs is
\* estimated or drawn, never both.
THEOREM PredictionsFollowDesigns == FitSpec => []PredictionFollowsDesign
<1>1. FitInv => PredictionFollowsDesign
  <2>1. SUFFICES ASSUME FitInv, NEW f \in fits, NEW c \in Components, NEW d, d = f.design[c]
        PROVE
          /\ Coherent(d)
          /\ \A r \in f.used[c] :
               /\ ~ PredictionRefused(r)
               /\ MatchTerms(d, r) = RowTerms(d, r) /\ UnseenEffects(d, r) = {}
          /\ \A b \in Range(d.blocks) : \A i \in Range(b.free) : SumOfEffects(b, i) = 0
          /\ \A match \in {r \in CountRows : r.surface # NotKnown /\ ~ PredictionRefused(r)} :
               \A effect \in EffectsOf(d, match) :
                 Estimated(d, effect, match) <=>
                   \A drawn \in UnseenEffects(d, match) : drawn[1] # effect
    BY DEF PredictionFollowsDesign, SumOfEffects
  <2>2. WellFitted(f)
    BY <2>1 DEF FitInv
  <2> QED
    BY <2>1, <2>2, FitsFollow
<1> QED
  BY <1>1, FitInvStarts, FitInvKeeps, PTL DEF FitSpec

-----------------------------------------------------------------------------
(* Serve components *)

CountInv ==
  /\ tally \in [Happenings -> Nat] /\ errors \in Nat
  /\ Counted(tally).points <= MaxPoints
  /\ line \in [Fields -> Int] /\ \A f \in Fields : line[f] <= Most
  /\ errors = 0 => line = Counted(tally)

LEMMA MostBounds ==
  Most \in Nat /\ MaxPoints <= Most /\ \A v \in Wrong : v <= Most
<1>1. PICK S : S = Wrong \cup {MaxPoints}
  OBVIOUS
<1>2. IsFiniteSet(S) /\ S # {} /\ MaxPoints \in S /\ Wrong \subseteq S
  BY <1>1, CountAssumption, FS_AddElement
<1>3. S \in SUBSET Int
  BY <1>1, CountAssumption
<1>4. Max(S) \in S /\ \A y \in S : y <= Max(S)
  BY <1>2, <1>3, MaxOfFinite
<1>5. Most = Max(S)
  BY <1>1 DEF Most
<1>6. Most \in Int /\ MaxPoints <= Most /\ \A v \in Wrong : v <= Most
  BY <1>2, <1>3, <1>4, <1>5
<1>7. QED
  BY <1>6, CountAssumption

\* The line that counts a tally, by what happened.
LEMMA CountedValues ==
  ASSUME NEW t, \A h \in Happenings : t[h] \in Nat
  PROVE  Counted(t) =
           [points |-> t["ace"] + t["first won"] + t["first lost"] + t["double fault"]
                         + t["second won"] + t["second lost"],
            firstIn |-> t["ace"] + t["first won"] + t["first lost"],
            firstWon |-> t["ace"] + t["first won"],
            secondWon |-> t["second won"],
            aces |-> t["ace"],
            doubleFaults |-> t["double fault"]]
<1>1. PICK a, b, c : a = "ace" /\ b = "first won" /\ c = "first lost"
  OBVIOUS
<1>2. PICK d, e, f : d = "double fault" /\ e = "second won" /\ f = "second lost"
  OBVIOUS
<1>3. PICK first, won, second : first = {a, b, c} /\ won = {a, b} /\ second = {d, e, f}
  OBVIOUS
<1>4. /\ t[a] \in Nat /\ t[b] \in Nat /\ t[c] \in Nat
      /\ t[d] \in Nat /\ t[e] \in Nat /\ t[f] \in Nat
      /\ a # b /\ a # c /\ b # c /\ d # e /\ d # f /\ e # f
  BY <1>1, <1>2 DEF Happenings
<1>5. SumOf(t, first) = t[a] + t[b] + t[c]
  <2>1. first \subseteq {a, b, c} /\ \A h \in first : t[h] \in Nat
    BY <1>3, <1>4
  <2>2. SumOf(t, first) = (IF a \in first THEN t[a] ELSE 0)
                            + (IF b \in first THEN t[b] ELSE 0)
                            + (IF c \in first THEN t[c] ELSE 0)
    BY <1>4, <2>1, SumOfThree
  <2>3. QED
    BY <1>3, <2>2
<1>6. SumOf(t, second) = t[d] + t[e] + t[f]
  <2>1. second \subseteq {d, e, f} /\ \A h \in second : t[h] \in Nat
    BY <1>3, <1>4
  <2>2. SumOf(t, second) = (IF d \in second THEN t[d] ELSE 0)
                             + (IF e \in second THEN t[e] ELSE 0)
                             + (IF f \in second THEN t[f] ELSE 0)
    BY <1>4, <2>1, SumOfThree
  <2>3. QED
    BY <1>3, <2>2
<1>7. SumOf(t, won) = t[a] + t[b]
  <2>1. won \subseteq {a, b, c} /\ \A h \in won : t[h] \in Nat
    BY <1>3, <1>4
  <2>2. SumOf(t, won) = (IF a \in won THEN t[a] ELSE 0)
                          + (IF b \in won THEN t[b] ELSE 0)
                          + (IF c \in won THEN t[c] ELSE 0)
    BY <1>4, <2>1, SumOfThree
  <2>3. QED
    BY <1>3, <1>4, <2>2
<1>8. SumOf(t, Happenings) = SumOf(t, first) + SumOf(t, second)
  <2>1. first \cup second = Happenings /\ first \cap second = {}
    BY <1>1, <1>2, <1>3 DEF Happenings
  <2>2. IsFiniteSet({a}) /\ IsFiniteSet({d})
    BY FS_Singleton
  <2>3. IsFiniteSet({a} \cup {b}) /\ IsFiniteSet({d} \cup {e})
    BY <2>2, FS_AddElement
  <2>4. IsFiniteSet(({a} \cup {b}) \cup {c}) /\ IsFiniteSet(({d} \cup {e}) \cup {f})
    BY <2>3, FS_AddElement
  <2>5. first = ({a} \cup {b}) \cup {c} /\ second = ({d} \cup {e}) \cup {f}
    BY <1>3
  <2>6. IsFiniteSet(first) /\ IsFiniteSet(second)
    BY <2>4, <2>5, Zenon
  <2>7. \A h \in first \cup second : t[h] \in Int
    BY <1>3, <1>4
  <2>8. SumOf(t, first \cup second) = SumOf(t, first) + SumOf(t, second)
    BY <2>1, <2>6, <2>7, SumOfUnion
  <2>9. QED
    BY <2>1, <2>8, Zenon
<1>9. Counted(t) =
        [points |-> SumOf(t, Happenings), firstIn |-> SumOf(t, first),
         firstWon |-> SumOf(t, won), secondWon |-> t[e], aces |-> t[a],
         doubleFaults |-> t[d]]
  BY <1>1, <1>2, <1>3 DEF Counted, FoldFunctionOnSet, SumOf, MapThenSumSet
<1>10. SumOf(t, Happenings) = t[a] + t[b] + t[c] + t[d] + t[e] + t[f]
  BY <1>4, <1>5, <1>6, <1>8
<1>11. Counted(t) =
        [points |-> t[a] + t[b] + t[c] + t[d] + t[e] + t[f], firstIn |-> t[a] + t[b] + t[c],
         firstWon |-> t[a] + t[b], secondWon |-> t[e], aces |-> t[a], doubleFaults |-> t[d]]
  BY <1>5, <1>7, <1>9, <1>10, Zenon
<1>12. QED
  BY <1>1, <1>2, <1>11, Zenon

LEMMA CountedFields ==
  ASSUME NEW t, \A h \in Happenings : t[h] \in Nat, NEW k, k = Counted(t)
  PROVE  /\ k.points = t["ace"] + t["first won"] + t["first lost"] + t["double fault"]
                         + t["second won"] + t["second lost"]
         /\ k.firstIn = t["ace"] + t["first won"] + t["first lost"]
         /\ k.firstWon = t["ace"] + t["first won"]
         /\ k.secondWon = t["second won"] /\ k.aces = t["ace"]
         /\ k.doubleFaults = t["double fault"]
<1>1. PICK a \in Nat, b \in Nat, o \in Nat, d \in Nat, w \in Nat, u \in Nat :
        /\ a = t["ace"] /\ b = t["first won"] /\ o = t["first lost"]
        /\ d = t["double fault"] /\ w = t["second won"] /\ u = t["second lost"]
  BY DEF Happenings
<1>2. Counted(t) = [points |-> a + b + o + d + w + u, firstIn |-> a + b + o,
                    firstWon |-> a + b, secondWon |-> w, aces |-> a, doubleFaults |-> d]
  BY <1>1, CountedValues, Zenon
<1>3. /\ k.points = a + b + o + d + w + u /\ k.firstIn = a + b + o
      /\ k.firstWon = a + b /\ k.secondWon = w /\ k.aces = a /\ k.doubleFaults = d
  BY <1>2
<1>4. QED
  BY <1>1, <1>3

\* What a line says, when its fields are those of points.
LEMMA FieldsOfCounted ==
  ASSUME NEW t, \A h \in Happenings : t[h] \in Nat, NEW l, NEW c \in ServeComponents,
         \A f \in Inputs(c) : l[f] = Counted(t)[f]
  PROVE  /\ ~ Impossible(l, c) /\ Computed(l, c) = Tallied(t, c)
         /\ Computed(l, c)[2] \in Nat
<1>1. PICK a \in Nat, b \in Nat, o \in Nat, d \in Nat, w \in Nat, u \in Nat :
        /\ a = t["ace"] /\ b = t["first won"] /\ o = t["first lost"]
        /\ d = t["double fault"] /\ w = t["second won"] /\ u = t["second lost"]
  BY DEF Happenings
<1>2. PICK k : k = Counted(t)
  OBVIOUS
<1>3. \A f \in Inputs(c) : l[f] = k[f]
  BY <1>2
<1>4. /\ k.points = a + b + o + d + w + u /\ k.firstIn = a + b + o
      /\ k.firstWon = a + b /\ k.secondWon = w /\ k.aces = a /\ k.doubleFaults = d
      /\ c \in {"F", "A", "Q1", "D", "Q2"}
  BY <1>1, <1>2, CountedFields DEF ServeComponents
<1>5. CASE c = "F"
  <2>1. /\ l.firstIn = a + b + o
        /\ l.points = a + b + o + d + w + u
    BY <1>3, <1>4, <1>5 DEF Inputs
  <2>2. Inputs(c) = {"firstIn", "points"}
    BY <1>5 DEF Inputs
  <2>3. \A f \in Inputs(c) : ~ l[f] < 0
    BY <1>3, <1>4, <2>2
  <2>4. /\ Computed(l, c) = <<l.firstIn, l.points>>
        /\ Tallied(t, c) = <<k.firstIn, k.points>>
    BY <1>1, <1>2, <1>5 DEF Computed, Tallied
  <2>5. /\ Computed(l, c)[1] = a + b + o
        /\ Computed(l, c)[2] = a + b + o + d + w + u
    BY <2>1, <2>4
  <2>6. ~ Impossible(l, c)
    BY <1>5, <2>1, <2>3, <2>5 DEF Impossible
  <2>7. QED
    BY <1>4, <2>1, <2>4, <2>5, <2>6
<1>6. CASE c = "A"
  <2>1. /\ l.aces = a
        /\ l.firstIn = a + b + o
    BY <1>3, <1>4, <1>6 DEF Inputs
  <2>2. Inputs(c) = {"aces", "firstIn"}
    BY <1>6 DEF Inputs
  <2>3. \A f \in Inputs(c) : ~ l[f] < 0
    BY <1>3, <1>4, <2>2
  <2>4. /\ Computed(l, c) = <<l.aces, l.firstIn>>
        /\ Tallied(t, c) = <<a, k.firstIn>>
    BY <1>1, <1>2, <1>6 DEF Computed, Tallied
  <2>5. /\ Computed(l, c)[1] = a
        /\ Computed(l, c)[2] = a + b + o
    BY <2>1, <2>4
  <2>6. ~ Impossible(l, c)
    BY <1>6, <2>1, <2>3, <2>5 DEF Impossible
  <2>7. QED
    BY <1>4, <2>1, <2>4, <2>5, <2>6
<1>7. CASE c = "Q1"
  <2>1. /\ l.firstWon = a + b /\ l.firstIn = a + b + o
        /\ l.aces = a
    BY <1>3, <1>4, <1>7 DEF Inputs
  <2>2. Inputs(c) = {"firstWon", "firstIn", "aces"}
    BY <1>7 DEF Inputs
  <2>3. \A f \in Inputs(c) : ~ l[f] < 0
    BY <1>3, <1>4, <2>2
  <2>4. /\ Computed(l, c) = <<l.firstWon - l.aces, l.firstIn - l.aces>>
        /\ Tallied(t, c) = <<b, b + o>>
    BY <1>1, <1>2, <1>7 DEF Computed, Tallied
  <2>5. /\ Computed(l, c)[1] = b
        /\ Computed(l, c)[2] = b + o
    BY <2>1, <2>4
  <2>6. ~ Impossible(l, c)
    BY <1>7, <2>1, <2>3, <2>5 DEF Impossible
  <2>7. QED
    BY <1>4, <2>1, <2>4, <2>5, <2>6
<1>8. CASE c = "D"
  <2>1. /\ l.doubleFaults = d /\ l.points = a + b + o + d + w + u
        /\ l.firstIn = a + b + o
    BY <1>3, <1>4, <1>8 DEF Inputs
  <2>2. Inputs(c) = {"doubleFaults", "points", "firstIn"}
    BY <1>8 DEF Inputs
  <2>3. \A f \in Inputs(c) : ~ l[f] < 0
    BY <1>3, <1>4, <2>2
  <2>4. /\ Computed(l, c) = <<l.doubleFaults, l.points - l.firstIn>>
        /\ Tallied(t, c) = <<d, d + w + u>>
    BY <1>1, <1>2, <1>8 DEF Computed, Tallied
  <2>5. /\ Computed(l, c)[1] = d
        /\ Computed(l, c)[2] = d + w + u
    BY <2>1, <2>4
  <2>6. ~ Impossible(l, c)
    BY <1>8, <2>1, <2>3, <2>5 DEF Impossible
  <2>7. QED
    BY <1>4, <2>1, <2>4, <2>5, <2>6
<1>9. CASE c = "Q2"
  <2>1. /\ l.secondWon = w /\ l.points = a + b + o + d + w + u
        /\ l.firstIn = a + b + o /\ l.doubleFaults = d
    BY <1>3, <1>4, <1>9 DEF Inputs
  <2>2. Inputs(c) = {"secondWon", "points", "firstIn", "doubleFaults"}
    BY <1>9 DEF Inputs
  <2>3. \A f \in Inputs(c) : ~ l[f] < 0
    BY <1>3, <1>4, <2>2
  <2>4. /\ Computed(l, c) = <<l.secondWon, l.points - l.firstIn - l.doubleFaults>>
        /\ Tallied(t, c) = <<w, w + u>>
    BY <1>1, <1>2, <1>9 DEF Computed, Tallied
  <2>5. /\ Computed(l, c)[1] = w
        /\ Computed(l, c)[2] = w + u
    BY <2>1, <2>4
  <2>6. ~ Impossible(l, c)
    BY <1>9, <2>1, <2>3, <2>5 DEF Impossible
  <2>7. QED
    BY <1>4, <2>1, <2>4, <2>5, <2>6
<1>10. QED
  BY <1>4, <1>5, <1>6, <1>7, <1>8, <1>9

\* A component is valid when nothing is impossible and there were trials.
LEMMA EligibleWhen ==
  ASSUME NEW l, NEW c \in ServeComponents
  PROVE  /\ EligibleCount(l, c) <=> ~ Impossible(l, c) /\ Computed(l, c)[2] # 0
         /\ ~ Impossible(l, c) => CountStatus(l, c) \in {"valid", "zero denominator"}
<1>1. /\ (\E f \in Inputs(c) : l[f] = Malformed) => Impossible(l, c)
      /\ (\E f \in Inputs(c) : l[f] = Missing) => Impossible(l, c)
  BY DEF Impossible, Malformed, Missing
<1>2. QED
  BY <1>1 DEF EligibleCount, CountStatus

\* There are points of any numbers.
PointsOf(a, b, o, d, w, u) ==
  [h \in Happenings |->
     IF h = "ace" THEN a ELSE IF h = "first won" THEN b ELSE IF h = "first lost" THEN o
     ELSE IF h = "double fault" THEN d ELSE IF h = "second won" THEN w ELSE u]
\* A tally in bounds is one of those a component may count.
LEMMA PointsExist ==
  ASSUME NEW t, t = [h \in Happenings |-> t[h]],
         \A h \in Happenings : t[h] \in Nat /\ t[h] <= Most, NEW k, k = Counted(t)
  PROVE  /\ t \in [Happenings -> 0..Most]
         /\ k.points = t["ace"] + t["first won"] + t["first lost"] + t["double fault"]
                         + t["second won"] + t["second lost"]
         /\ k.firstIn = t["ace"] + t["first won"] + t["first lost"]
         /\ k.firstWon = t["ace"] + t["first won"]
         /\ k.secondWon = t["second won"] /\ k.aces = t["ace"]
         /\ k.doubleFaults = t["double fault"]
<1>1. t \in [Happenings -> 0..Most]
  <2>1. \A h \in Happenings : t[h] \in 0..Most
    BY MostBounds
  <2>2. QED
    BY <2>1
<1>2. \A h \in Happenings : t[h] \in Nat
  OBVIOUS
<1>3. QED
  BY <1>1, <1>2, CountedFields

\* Numbers that contradict nothing are those of some points.
LEMMA PossibleAreOfPoints ==
  ASSUME NEW l \in [Fields -> Int], \A f \in Fields : l[f] <= Most,
         NEW c \in ServeComponents, ~ Impossible(l, c)
  PROVE  Restrict(l, Inputs(c)) \in PossibleInputs[c]
<1>1. c \in {"F", "A", "Q1", "D", "Q2"} /\ Most \in Nat
  BY MostBounds DEF ServeComponents
<1>2. ASSUME NEW t \in [Happenings -> 0..Most], \A f \in Inputs(c) : l[f] = Counted(t)[f]
      PROVE  Restrict(l, Inputs(c)) \in PossibleInputs[c]
  <2>1. Restrict(l, Inputs(c)) = Restrict(Counted(t), Inputs(c))
    BY <1>2 DEF Restrict
  <2>2. QED
    BY <2>1 DEF PossibleInputs
<1>3. /\ \A f \in Inputs(c) : ~ l[f] < 0
      /\ l.points \in Int /\ l.firstIn \in Int /\ l.firstWon \in Int
      /\ l.secondWon \in Int /\ l.aces \in Int /\ l.doubleFaults \in Int
      /\ l.points <= Most /\ l.firstIn <= Most /\ l.firstWon <= Most
      /\ l.secondWon <= Most /\ l.aces <= Most /\ l.doubleFaults <= Most
  BY DEF Impossible, Fields
<1>4. CASE c = "F"
  <2>1. Inputs(c) = {"firstIn", "points"}
    BY <1>4 DEF Inputs
  <2>2. ~ l.firstIn < 0 /\ ~ l.points < 0
    BY <1>3, <2>1
  <2>3. l.firstIn <= l.points
    BY <1>3, <1>4 DEF Impossible, Computed
  <2>4. PICK a, b, o, d, w, u :
          /\ a = 0 /\ b = 0 /\ o = l.firstIn
          /\ d = 0 /\ w = 0 /\ u = l.points - l.firstIn
    OBVIOUS
  <2>5. /\ a \in Nat /\ b \in Nat /\ o \in Nat /\ d \in Nat /\ w \in Nat /\ u \in Nat
        /\ a <= Most /\ b <= Most /\ o <= Most /\ d <= Most /\ w <= Most /\ u <= Most
    BY <1>1, <1>3, <2>2, <2>3, <2>4
  <2>6. PICK t : t = PointsOf(a, b, o, d, w, u)
    OBVIOUS
  <2>7. PICK k : k = Counted(t)
    OBVIOUS
  <2>8. /\ t \in [Happenings -> 0..Most]
        /\ k.points = a + b + o + d + w + u /\ k.firstIn = a + b + o
        /\ k.firstWon = a + b /\ k.secondWon = w /\ k.aces = a /\ k.doubleFaults = d
    <3>1. /\ t["ace"] = a /\ t["first won"] = b /\ t["first lost"] = o
          /\ t["double fault"] = d /\ t["second won"] = w /\ t["second lost"] = u
      BY <2>6 DEF PointsOf, Happenings
    <3>2. t = [h \in Happenings |-> t[h]]
      BY <2>6 DEF PointsOf
    <3>3. \A h \in Happenings : t[h] \in Nat /\ t[h] <= Most
      BY <2>5, <3>1 DEF Happenings
    <3>4. /\ t \in [Happenings -> 0..Most]
          /\ k.points = t["ace"] + t["first won"] + t["first lost"] + t["double fault"]
                          + t["second won"] + t["second lost"]
          /\ k.firstIn = t["ace"] + t["first won"] + t["first lost"]
          /\ k.firstWon = t["ace"] + t["first won"]
          /\ k.secondWon = t["second won"] /\ k.aces = t["ace"]
          /\ k.doubleFaults = t["double fault"]
      BY <2>7, <3>2, <3>3, PointsExist
    <3>5. QED
      BY <3>1, <3>4
  <2>9. \A f \in Inputs(c) : l[f] = k[f]
    BY <1>3, <2>1, <2>4, <2>8
  <2>10. QED
    BY <1>2, <2>7, <2>8, <2>9
<1>5. CASE c = "A"
  <2>1. Inputs(c) = {"aces", "firstIn"}
    BY <1>5 DEF Inputs
  <2>2. ~ l.aces < 0 /\ ~ l.firstIn < 0
    BY <1>3, <2>1
  <2>3. l.aces <= l.firstIn
    BY <1>3, <1>5 DEF Impossible, Computed
  <2>4. PICK a, b, o, d, w, u :
          /\ a = l.aces /\ b = 0 /\ o = l.firstIn - l.aces
          /\ d = 0 /\ w = 0 /\ u = 0
    OBVIOUS
  <2>5. /\ a \in Nat /\ b \in Nat /\ o \in Nat /\ d \in Nat /\ w \in Nat /\ u \in Nat
        /\ a <= Most /\ b <= Most /\ o <= Most /\ d <= Most /\ w <= Most /\ u <= Most
    BY <1>1, <1>3, <2>2, <2>3, <2>4
  <2>6. PICK t : t = PointsOf(a, b, o, d, w, u)
    OBVIOUS
  <2>7. PICK k : k = Counted(t)
    OBVIOUS
  <2>8. /\ t \in [Happenings -> 0..Most]
        /\ k.points = a + b + o + d + w + u /\ k.firstIn = a + b + o
        /\ k.firstWon = a + b /\ k.secondWon = w /\ k.aces = a /\ k.doubleFaults = d
    <3>1. /\ t["ace"] = a /\ t["first won"] = b /\ t["first lost"] = o
          /\ t["double fault"] = d /\ t["second won"] = w /\ t["second lost"] = u
      BY <2>6 DEF PointsOf, Happenings
    <3>2. t = [h \in Happenings |-> t[h]]
      BY <2>6 DEF PointsOf
    <3>3. \A h \in Happenings : t[h] \in Nat /\ t[h] <= Most
      BY <2>5, <3>1 DEF Happenings
    <3>4. /\ t \in [Happenings -> 0..Most]
          /\ k.points = t["ace"] + t["first won"] + t["first lost"] + t["double fault"]
                          + t["second won"] + t["second lost"]
          /\ k.firstIn = t["ace"] + t["first won"] + t["first lost"]
          /\ k.firstWon = t["ace"] + t["first won"]
          /\ k.secondWon = t["second won"] /\ k.aces = t["ace"]
          /\ k.doubleFaults = t["double fault"]
      BY <2>7, <3>2, <3>3, PointsExist
    <3>5. QED
      BY <3>1, <3>4
  <2>9. \A f \in Inputs(c) : l[f] = k[f]
    BY <1>3, <2>1, <2>4, <2>8
  <2>10. QED
    BY <1>2, <2>7, <2>8, <2>9
<1>6. CASE c = "Q1"
  <2>1. Inputs(c) = {"firstWon", "firstIn", "aces"}
    BY <1>6 DEF Inputs
  <2>2. ~ l.firstWon < 0 /\ ~ l.firstIn < 0 /\ ~ l.aces < 0
    BY <1>3, <2>1
  <2>3. /\ l.aces <= l.firstWon
        /\ l.firstWon <= l.firstIn
    BY <1>3, <1>6 DEF Impossible, Computed
  <2>4. PICK a, b, o, d, w, u :
          /\ a = l.aces /\ b = l.firstWon - l.aces /\ o = l.firstIn - l.firstWon
          /\ d = 0 /\ w = 0 /\ u = 0
    OBVIOUS
  <2>5. /\ a \in Nat /\ b \in Nat /\ o \in Nat /\ d \in Nat /\ w \in Nat /\ u \in Nat
        /\ a <= Most /\ b <= Most /\ o <= Most /\ d <= Most /\ w <= Most /\ u <= Most
    BY <1>1, <1>3, <2>2, <2>3, <2>4
  <2>6. PICK t : t = PointsOf(a, b, o, d, w, u)
    OBVIOUS
  <2>7. PICK k : k = Counted(t)
    OBVIOUS
  <2>8. /\ t \in [Happenings -> 0..Most]
        /\ k.points = a + b + o + d + w + u /\ k.firstIn = a + b + o
        /\ k.firstWon = a + b /\ k.secondWon = w /\ k.aces = a /\ k.doubleFaults = d
    <3>1. /\ t["ace"] = a /\ t["first won"] = b /\ t["first lost"] = o
          /\ t["double fault"] = d /\ t["second won"] = w /\ t["second lost"] = u
      BY <2>6 DEF PointsOf, Happenings
    <3>2. t = [h \in Happenings |-> t[h]]
      BY <2>6 DEF PointsOf
    <3>3. \A h \in Happenings : t[h] \in Nat /\ t[h] <= Most
      BY <2>5, <3>1 DEF Happenings
    <3>4. /\ t \in [Happenings -> 0..Most]
          /\ k.points = t["ace"] + t["first won"] + t["first lost"] + t["double fault"]
                          + t["second won"] + t["second lost"]
          /\ k.firstIn = t["ace"] + t["first won"] + t["first lost"]
          /\ k.firstWon = t["ace"] + t["first won"]
          /\ k.secondWon = t["second won"] /\ k.aces = t["ace"]
          /\ k.doubleFaults = t["double fault"]
      BY <2>7, <3>2, <3>3, PointsExist
    <3>5. QED
      BY <3>1, <3>4
  <2>9. \A f \in Inputs(c) : l[f] = k[f]
    BY <1>3, <2>1, <2>4, <2>8
  <2>10. QED
    BY <1>2, <2>7, <2>8, <2>9
<1>7. CASE c = "D"
  <2>1. Inputs(c) = {"doubleFaults", "points", "firstIn"}
    BY <1>7 DEF Inputs
  <2>2. ~ l.doubleFaults < 0 /\ ~ l.points < 0 /\ ~ l.firstIn < 0
    BY <1>3, <2>1
  <2>3. /\ l.firstIn <= l.points
        /\ l.doubleFaults <= l.points - l.firstIn
    BY <1>3, <1>7 DEF Impossible, Computed
  <2>4. PICK a, b, o, d, w, u :
          /\ a = 0 /\ b = 0 /\ o = l.firstIn
          /\ d = l.doubleFaults /\ w = 0 /\ u = l.points - l.firstIn - l.doubleFaults
    OBVIOUS
  <2>5. /\ a \in Nat /\ b \in Nat /\ o \in Nat /\ d \in Nat /\ w \in Nat /\ u \in Nat
        /\ a <= Most /\ b <= Most /\ o <= Most /\ d <= Most /\ w <= Most /\ u <= Most
    BY <1>1, <1>3, <2>2, <2>3, <2>4
  <2>6. PICK t : t = PointsOf(a, b, o, d, w, u)
    OBVIOUS
  <2>7. PICK k : k = Counted(t)
    OBVIOUS
  <2>8. /\ t \in [Happenings -> 0..Most]
        /\ k.points = a + b + o + d + w + u /\ k.firstIn = a + b + o
        /\ k.firstWon = a + b /\ k.secondWon = w /\ k.aces = a /\ k.doubleFaults = d
    <3>1. /\ t["ace"] = a /\ t["first won"] = b /\ t["first lost"] = o
          /\ t["double fault"] = d /\ t["second won"] = w /\ t["second lost"] = u
      BY <2>6 DEF PointsOf, Happenings
    <3>2. t = [h \in Happenings |-> t[h]]
      BY <2>6 DEF PointsOf
    <3>3. \A h \in Happenings : t[h] \in Nat /\ t[h] <= Most
      BY <2>5, <3>1 DEF Happenings
    <3>4. /\ t \in [Happenings -> 0..Most]
          /\ k.points = t["ace"] + t["first won"] + t["first lost"] + t["double fault"]
                          + t["second won"] + t["second lost"]
          /\ k.firstIn = t["ace"] + t["first won"] + t["first lost"]
          /\ k.firstWon = t["ace"] + t["first won"]
          /\ k.secondWon = t["second won"] /\ k.aces = t["ace"]
          /\ k.doubleFaults = t["double fault"]
      BY <2>7, <3>2, <3>3, PointsExist
    <3>5. QED
      BY <3>1, <3>4
  <2>9. \A f \in Inputs(c) : l[f] = k[f]
    BY <1>3, <2>1, <2>4, <2>8
  <2>10. QED
    BY <1>2, <2>7, <2>8, <2>9
<1>8. CASE c = "Q2"
  <2>1. Inputs(c) = {"secondWon", "points", "firstIn", "doubleFaults"}
    BY <1>8 DEF Inputs
  <2>2. ~ l.secondWon < 0 /\ ~ l.points < 0 /\ ~ l.firstIn < 0 /\ ~ l.doubleFaults < 0
    BY <1>3, <2>1
  <2>3. /\ l.firstIn <= l.points
        /\ l.doubleFaults <= l.points - l.firstIn
        /\ l.secondWon <= l.points - l.firstIn - l.doubleFaults
    BY <1>3, <1>8 DEF Impossible, Computed
  <2>4. PICK a, b, o, d, w, u :
          /\ a = 0 /\ b = 0 /\ o = l.firstIn
          /\ d = l.doubleFaults /\ w = l.secondWon /\ u = l.points - l.firstIn - l.doubleFaults - l.secondWon
    OBVIOUS
  <2>5. /\ a \in Nat /\ b \in Nat /\ o \in Nat /\ d \in Nat /\ w \in Nat /\ u \in Nat
        /\ a <= Most /\ b <= Most /\ o <= Most /\ d <= Most /\ w <= Most /\ u <= Most
    BY <1>1, <1>3, <2>2, <2>3, <2>4
  <2>6. PICK t : t = PointsOf(a, b, o, d, w, u)
    OBVIOUS
  <2>7. PICK k : k = Counted(t)
    OBVIOUS
  <2>8. /\ t \in [Happenings -> 0..Most]
        /\ k.points = a + b + o + d + w + u /\ k.firstIn = a + b + o
        /\ k.firstWon = a + b /\ k.secondWon = w /\ k.aces = a /\ k.doubleFaults = d
    <3>1. /\ t["ace"] = a /\ t["first won"] = b /\ t["first lost"] = o
          /\ t["double fault"] = d /\ t["second won"] = w /\ t["second lost"] = u
      BY <2>6 DEF PointsOf, Happenings
    <3>2. t = [h \in Happenings |-> t[h]]
      BY <2>6 DEF PointsOf
    <3>3. \A h \in Happenings : t[h] \in Nat /\ t[h] <= Most
      BY <2>5, <3>1 DEF Happenings
    <3>4. /\ t \in [Happenings -> 0..Most]
          /\ k.points = t["ace"] + t["first won"] + t["first lost"] + t["double fault"]
                          + t["second won"] + t["second lost"]
          /\ k.firstIn = t["ace"] + t["first won"] + t["first lost"]
          /\ k.firstWon = t["ace"] + t["first won"]
          /\ k.secondWon = t["second won"] /\ k.aces = t["ace"]
          /\ k.doubleFaults = t["double fault"]
      BY <2>7, <3>2, <3>3, PointsExist
    <3>5. QED
      BY <3>1, <3>4
  <2>9. \A f \in Inputs(c) : l[f] = k[f]
    BY <1>3, <2>1, <2>4, <2>8
  <2>10. QED
    BY <1>2, <2>7, <2>8, <2>9
<1>9. QED
  BY <1>1, <1>4, <1>5, <1>6, <1>7, <1>8

LEMMA OfPointsArePossible ==
  ASSUME NEW l, NEW c \in ServeComponents, Restrict(l, Inputs(c)) \in PossibleInputs[c]
  PROVE  ~ Impossible(l, c) /\ Computed(l, c)[2] \in Nat
<1>1. PICK t \in [Happenings -> 0..Most] :
        Restrict(l, Inputs(c)) = Restrict(Counted(t), Inputs(c))
  BY DEF PossibleInputs
<1>2. \A h \in Happenings : t[h] \in Nat
  BY MostBounds
<1>3. \A f \in Inputs(c) : l[f] = Counted(t)[f]
  BY <1>1 DEF Restrict
<1>4. QED
  BY <1>2, <1>3, FieldsOfCounted

LEMMA CountsStart == CountInit => CountInv
<1> SUFFICES ASSUME CountInit PROVE CountInv
  OBVIOUS
<1>1. tally = Blank /\ errors = 0 /\ line = Counted(tally)
  BY DEF CountInit
<1>2. tally \in [Happenings -> Nat] /\ \A h \in Happenings : tally[h] = 0
  BY <1>1 DEF Blank
<1>3. PICK k : k = Counted(tally)
  OBVIOUS
<1>4. k = [points |-> 0, firstIn |-> 0, firstWon |-> 0, secondWon |-> 0, aces |-> 0,
           doubleFaults |-> 0]
  <2>1. \A h \in Happenings : tally[h] \in Nat
    BY <1>2
  <2>2. /\ tally["ace"] = 0 /\ tally["first won"] = 0 /\ tally["first lost"] = 0
        /\ tally["double fault"] = 0 /\ tally["second won"] = 0 /\ tally["second lost"] = 0
    BY <1>2 DEF Happenings
  <2>3. Counted(tally) =
          [points |-> 0 + 0 + 0 + 0 + 0 + 0, firstIn |-> 0 + 0 + 0, firstWon |-> 0 + 0,
           secondWon |-> 0, aces |-> 0, doubleFaults |-> 0]
    BY <2>1, <2>2, CountedValues, Zenon
  <2>4. QED
    BY <1>3, <2>3
<1>5. k \in [Fields -> Int] /\ (\A f \in Fields : k[f] = 0) /\ k.points = 0
  BY <1>4 DEF Fields
<1>6. QED
  BY <1>1, <1>2, <1>3, <1>5, MostBounds, CountAssumption DEF CountInv

LEMMA CountsKept == CountInv /\ [CountNext]_countVars => CountInv'
<1> SUFFICES ASSUME CountInv, [CountNext]_countVars PROVE CountInv'
  OBVIOUS
<1>1. ASSUME NEW h \in Happenings, Point(h) PROVE CountInv'
  <2>1. PICK t : t = tally'
    OBVIOUS
  <2>2. PICK k : k = Counted(tally)
    OBVIOUS
  <2>3. PICK n : n = Counted(t)
    OBVIOUS
  <2>4. /\ t = [tally EXCEPT ![h] = @ + 1] /\ errors' = 0 /\ errors = 0
        /\ line' = n /\ line = k /\ k.points < MaxPoints
    BY <1>1, <2>1, <2>2, <2>3 DEF Point, CountInv
  <2>5. t \in [Happenings -> Nat] /\ tally \in [Happenings -> Nat]
    BY <2>4 DEF CountInv
  <2>6. PICK a \in Nat, b \in Nat, o \in Nat, d \in Nat, w \in Nat, u \in Nat :
          /\ a = t["ace"] /\ b = t["first won"] /\ o = t["first lost"]
          /\ d = t["double fault"] /\ w = t["second won"] /\ u = t["second lost"]
    BY <2>5 DEF Happenings
  <2>7. PICK a0 \in Nat, b0 \in Nat, o0 \in Nat, d0 \in Nat, w0 \in Nat, u0 \in Nat :
          /\ a0 = tally["ace"] /\ b0 = tally["first won"] /\ o0 = tally["first lost"]
          /\ d0 = tally["double fault"] /\ w0 = tally["second won"]
          /\ u0 = tally["second lost"]
    BY <2>5 DEF Happenings
  <2>8. k.points = a0 + b0 + o0 + d0 + w0 + u0
    BY <2>2, <2>5, <2>7, CountedFields
  <2>9. n = [f \in DOMAIN n |-> n[f]] /\ DOMAIN n = Fields
    BY <2>3 DEF Counted, Fields
  <2>10. a + b + o + d + w + u = a0 + b0 + o0 + d0 + w0 + u0 + 1
    <3>1. \A z \in Happenings : t[z] = IF z = h THEN tally[z] + 1 ELSE tally[z]
      BY <2>4, <2>5
    <3>2. /\ a = (IF h = "ace" THEN a0 + 1 ELSE a0)
          /\ b = (IF h = "first won" THEN b0 + 1 ELSE b0)
          /\ o = (IF h = "first lost" THEN o0 + 1 ELSE o0)
          /\ d = (IF h = "double fault" THEN d0 + 1 ELSE d0)
          /\ w = (IF h = "second won" THEN w0 + 1 ELSE w0)
          /\ u = (IF h = "second lost" THEN u0 + 1 ELSE u0)
      BY <2>6, <2>7, <3>1 DEF Happenings
    <3>3. h \in {"ace", "first won", "first lost", "double fault", "second won", "second lost"}
      BY DEF Happenings
    <3>4. CASE h = "ace"
      <4>1. a = a0 + 1 /\ b = b0 /\ o = o0 /\ d = d0 /\ w = w0 /\ u = u0
        BY <3>2, <3>4
      <4>2. QED
        BY <4>1
    <3>5. CASE h = "first won"
      <4>1. a = a0 /\ b = b0 + 1 /\ o = o0 /\ d = d0 /\ w = w0 /\ u = u0
        BY <3>2, <3>5
      <4>2. QED
        BY <4>1
    <3>6. CASE h = "first lost"
      <4>1. a = a0 /\ b = b0 /\ o = o0 + 1 /\ d = d0 /\ w = w0 /\ u = u0
        BY <3>2, <3>6
      <4>2. QED
        BY <4>1
    <3>7. CASE h = "double fault"
      <4>1. a = a0 /\ b = b0 /\ o = o0 /\ d = d0 + 1 /\ w = w0 /\ u = u0
        BY <3>2, <3>7
      <4>2. QED
        BY <4>1
    <3>8. CASE h = "second won"
      <4>1. a = a0 /\ b = b0 /\ o = o0 /\ d = d0 /\ w = w0 + 1 /\ u = u0
        BY <3>2, <3>8
      <4>2. QED
        BY <4>1
    <3>9. CASE h = "second lost"
      <4>1. a = a0 /\ b = b0 /\ o = o0 /\ d = d0 /\ w = w0 /\ u = u0 + 1
        BY <3>2, <3>9
      <4>2. QED
        BY <4>1
    <3>10. QED
      BY <3>3, <3>4, <3>5, <3>6, <3>7, <3>8, <3>9
  <2>11. /\ n.points = a + b + o + d + w + u /\ n.firstIn = a + b + o
         /\ n.firstWon = a + b /\ n.secondWon = w /\ n.aces = a /\ n.doubleFaults = d
    BY <2>3, <2>5, <2>6, CountedFields
  <2>13. n.points \in Nat /\ n.points <= MaxPoints
    BY <2>4, <2>8, <2>10, <2>11, CountAssumption
  <2>14. \A f \in Fields : n[f] \in Nat /\ n[f] <= n.points
    BY <2>11 DEF Fields
  <2>15. n \in [Fields -> Int]
    BY <2>9, <2>14
  <2>16. \A f \in Fields : n[f] <= Most
    BY <2>13, <2>14, MostBounds, CountAssumption
  <2>17. QED
    BY <2>1, <2>3, <2>4, <2>5, <2>13, <2>15, <2>16 DEF CountInv
<1>2. ASSUME NEW f \in Fields, NEW v \in Wrong, GetWrong(f, v) PROVE CountInv'
  <2>1. tally' = tally /\ errors' = errors + 1 /\ line' = [line EXCEPT ![f] = v]
    BY <1>2 DEF GetWrong
  <2>2. line' \in [Fields -> Int] /\ \A g \in Fields : line'[g] <= Most
    BY <1>2, <2>1, MostBounds, CountAssumption DEF CountInv
  <2>3. errors' \in Nat /\ errors' # 0
    BY <2>1 DEF CountInv
  <2>4. QED
    BY <2>1, <2>2, <2>3 DEF CountInv
<1>3. CASE UNCHANGED countVars
  BY <1>3 DEF countVars, CountInv
<1>4. QED
  BY <1>1, <1>2, <1>3 DEF CountNext

\* Whatever a source gets wrong, a component is used exactly when its own
\* fields could count points and there were trials, and a line nobody got
\* wrong gives the counts of the points that were played.
THEOREM CountsAlwaysOfPoints == CountSpec => []CountsAreOfPoints
<1>1. ASSUME CountInv PROVE CountsAreOfPoints
  <2>1. ASSUME NEW c \in ServeComponents
        PROVE  EligibleCount(line, c) <=>
                 /\ Restrict(line, Inputs(c)) \in PossibleInputs[c]
                 /\ Computed(line, c)[2] > 0
    <3>1. EligibleCount(line, c) <=> ~ Impossible(line, c) /\ Computed(line, c)[2] # 0
      BY EligibleWhen
    <3>2. ~ Impossible(line, c) => Restrict(line, Inputs(c)) \in PossibleInputs[c]
      BY <1>1, PossibleAreOfPoints DEF CountInv
    <3>3. Restrict(line, Inputs(c)) \in PossibleInputs[c] =>
            ~ Impossible(line, c) /\ Computed(line, c)[2] \in Nat
      BY OfPointsArePossible
    <3>4. QED
      BY <3>1, <3>2, <3>3
  <2>2. ASSUME errors = 0, NEW c \in ServeComponents
        PROVE  /\ CountStatus(line, c) \in {"valid", "zero denominator"}
               /\ Computed(line, c) = Tallied(tally, c)
    <3>1. line = Counted(tally) /\ \A h \in Happenings : tally[h] \in Nat
      BY <1>1, <2>2 DEF CountInv
    <3>2. ~ Impossible(line, c) /\ Computed(line, c) = Tallied(tally, c)
      BY <3>1, FieldsOfCounted
    <3>3. QED
      BY <3>2, EligibleWhen
  <2>3. QED
    BY <2>1, <2>2 DEF CountsAreOfPoints
<1>2. QED
  BY <1>1, CountsStart, CountsKept, PTL DEF CountSpec

(* The sheets of historical matches *)

LEMMA MaxOfTwo ==
  ASSUME NEW x \in Int, NEW y \in Int
  PROVE  /\ Max({x, y}) = IF x >= y THEN x ELSE y
         /\ Min({x, y}) = IF x >= y THEN y ELSE x
<1>1. PICK z \in {x, y} : z = IF x >= y THEN x ELSE y
  OBVIOUS
<1>2. \A m \in {x, y} : (\A w \in {x, y} : m >= w) <=> m = z
  BY <1>1
<1>3. PICK v \in {x, y} : v = IF x >= y THEN y ELSE x
  OBVIOUS
<1>4. \A m \in {x, y} : (\A w \in {x, y} : m =< w) <=> m = v
  BY <1>3
<1>5. Max({x, y}) = z
  BY <1>2 DEF Max
<1>6. Min({x, y}) = v
  BY <1>4 DEF Min
<1> QED
  BY <1>1, <1>3, <1>5, <1>6

\* The scores at which a set with a tiebreak is over, and those at which one
\* is that is won by a lead of two from k on.
TieOver(x, y) == (x = 7 /\ y <= 7) \/ (y = 7 /\ x <= 7) \/ (x = 6 /\ y <= 4) \/ (y = 6 /\ x <= 4)
LeadOver(k, x, y) == (x >= k \/ y >= k) /\ (x >= y + 2 \/ y >= x + 2)
Least(way) == IF way = "seven" THEN 7 ELSE IF way = "ten" THEN 10 ELSE 6

\* A set can go on at a score, and a score comes up when the one before it
\* was such.
Live(way, x, y) ==
  /\ ~ EndsAt(way, x, y)
  /\ way = "tiebreak set" => x <= 6 /\ y <= 6
Comes(way, x, y) ==
  \/ x = 0 /\ y = 0
  \/ x > 0 /\ Live(way, x - 1, y)
  \/ y > 0 /\ Live(way, x, y - 1)

LEMMA EndsWhen ==
  ASSUME NEW way \in Ways, NEW x \in Nat, NEW y \in Nat, NEW k \in Nat, k = Least(way)
  PROVE  /\ way = "tiebreak set" => (EndsAt(way, x, y) <=> TieOver(x, y))
         /\ way # "tiebreak set" => (EndsAt(way, x, y) <=> LeadOver(k, x, y))
<1>1. PICK h \in Nat : h = IF x >= y THEN x ELSE y
  OBVIOUS
<1>2. PICK l \in Nat : l = IF x >= y THEN y ELSE x
  OBVIOUS
<1>3. Max({x, y}) = h /\ Min({x, y}) = l
  BY <1>1, <1>2, MaxOfTwo
<1>4. CASE way = "tiebreak set"
  <2>1. EndsAt(way, x, y) <=> h = 7 \/ (h = 6 /\ h >= l + 2)
    BY <1>3, <1>4 DEF EndsAt
  <2>2. h = 7 \/ (h = 6 /\ h >= l + 2) <=> TieOver(x, y)
    BY <1>1, <1>2 DEF TieOver
  <2> QED
    BY <1>4, <2>1, <2>2
<1>5. CASE way # "tiebreak set"
  <2>1. EndsAt(way, x, y) <=> h >= k /\ h >= l + 2
    BY <1>3, <1>5 DEF EndsAt, Ways, Least
  <2>2. h >= k /\ h >= l + 2 <=> LeadOver(k, x, y)
    BY <1>1, <1>2 DEF LeadOver
  <2> QED
    BY <1>5, <2>1, <2>2
<1> QED
  BY <1>4, <1>5

\* What can go on has come up, and nothing else that has not ended.
LEMMA LiveComes ==
  ASSUME NEW way \in Ways, NEW x \in Nat, NEW y \in Nat
  PROVE  Comes(way, x, y) /\ ~ EndsAt(way, x, y) <=> Live(way, x, y)
<1>0. PICK k \in Nat : k = Least(way)
  BY DEF Least
<1>1. Live(way, x, y) => Comes(way, x, y)
  <2>1. SUFFICES ASSUME Live(way, x, y), x > 0 \/ y > 0
                 PROVE  Comes(way, x, y)
    BY DEF Comes
  <2>2. PICK u \in Nat, v \in Nat : IF x >= y THEN u = x - 1 /\ v = y ELSE u = x /\ v = y - 1
    BY <2>1
  <2>3. Live(way, u, v)
    <3>1. CASE way = "tiebreak set"
      <4>1. x <= 6 /\ y <= 6 /\ ~ TieOver(x, y)
        BY <1>0, <2>1, <3>1, EndsWhen DEF Live
      <4>2. u <= 6 /\ v <= 6 /\ ~ TieOver(u, v)
        BY <2>2, <4>1 DEF TieOver
      <4> QED
        BY <1>0, <3>1, <4>2, EndsWhen DEF Live
    <3>2. CASE way # "tiebreak set"
      <4>1. ~ LeadOver(k, x, y)
        BY <1>0, <2>1, <3>2, EndsWhen DEF Live
      <4>2. ~ LeadOver(k, u, v)
        BY <2>2, <4>1 DEF LeadOver
      <4> QED
        BY <1>0, <3>2, <4>2, EndsWhen DEF Live
    <3> QED
      BY <3>1, <3>2
  <2>4. CASE x >= y
    <3>1. x > 0 /\ u = x - 1 /\ v = y
      BY <2>1, <2>2, <2>4
    <3> QED
      BY <2>3, <3>1 DEF Comes
  <2>5. CASE ~ x >= y
    <3>1. y > 0 /\ u = x /\ v = y - 1
      BY <2>1, <2>2, <2>5
    <3> QED
      BY <2>3, <3>1 DEF Comes
  <2> QED
    BY <2>4, <2>5
<1>2. Comes(way, x, y) /\ ~ EndsAt(way, x, y) => Live(way, x, y)
  <2>1. SUFFICES ASSUME way = "tiebreak set", Comes(way, x, y), ~ EndsAt(way, x, y)
                 PROVE  x <= 6 /\ y <= 6
    BY DEF Live
  <2>2. x > 0 /\ Live(way, x - 1, y) => x - 1 <= 6 /\ y <= 6
    BY <2>1 DEF Live
  <2>3. y > 0 /\ Live(way, x, y - 1) => x <= 6 /\ y - 1 <= 6
    BY <2>1 DEF Live
  <2>4. ~ TieOver(x, y)
    BY <1>0, <2>1, EndsWhen
  <2>5. (x = 0 /\ y = 0) \/ (x - 1 <= 6 /\ y <= 6) \/ (x <= 6 /\ y - 1 <= 6)
    BY <2>1, <2>2, <2>3 DEF Comes
  <2> QED
    BY <2>4, <2>5 DEF TieOver
<1> QED
  BY <1>1, <1>2 DEF Live

\* The scores after n games or points, without the recursion.
Scores(way, n) == {s \in Nat \X Nat : s[1] + s[2] = n /\ Comes(way, s[1], s[2])}
NextScores(going) == {<<s[1] + 1, s[2]>> : s \in going} \cup {<<s[1], s[2] + 1>> : s \in going}

LEMMA ScoresStart ==
  ASSUME NEW way
  PROVE  Scores(way, 0) = {<<0, 0>>}
<1>1. <<0, 0>> \in Scores(way, 0)
  BY DEF Scores, Comes
<1>2. ASSUME NEW s \in Scores(way, 0) PROVE s = <<0, 0>>
  <2>1. s \in Nat \X Nat /\ s[1] + s[2] = 0
    BY DEF Scores
  <2>2. s[1] = 0 /\ s[2] = 0 /\ s = <<s[1], s[2]>>
    BY <2>1
  <2> QED
    BY <2>2
<1> QED
  BY <1>1, <1>2

LEMMA ScoresStep ==
  ASSUME NEW way \in Ways, NEW n \in Nat, n # 0,
         NEW going, going = {s \in Scores(way, n - 1) : ~ EndsAt(way, s[1], s[2])}
  PROVE  Scores(way, n) = NextScores(going)
<1>1. \A s \in Nat \X Nat : s \in going <=> s[1] + s[2] = n - 1 /\ Live(way, s[1], s[2])
  BY LiveComes DEF Scores
<1>2. going \subseteq Nat \X Nat
  BY DEF Scores
<1>3. ASSUME NEW s \in Scores(way, n) PROVE s \in NextScores(going)
  <2>1. PICK x \in Nat, y \in Nat : s = <<x, y>>
    BY DEF Scores
  <2>2. x + y = n /\ Comes(way, x, y)
    BY <2>1 DEF Scores
  <2>3. CASE x > 0 /\ Live(way, x - 1, y)
    <3>1. PICK u \in Nat : u = x - 1
      BY <2>3
    <3>2. <<u, y>> \in going
      BY <1>1, <2>2, <2>3, <3>1
    <3>3. s = <<u + 1, y>>
      BY <2>1, <3>1
    <3> QED
      BY <3>2, <3>3 DEF NextScores
  <2>4. CASE y > 0 /\ Live(way, x, y - 1)
    <3>1. PICK u \in Nat : u = y - 1
      BY <2>4
    <3>2. <<x, u>> \in going
      BY <1>1, <2>2, <2>4, <3>1
    <3>3. s = <<x, u + 1>>
      BY <2>1, <3>1
    <3> QED
      BY <3>2, <3>3 DEF NextScores
  <2> QED
    BY <2>2, <2>3, <2>4 DEF Comes
<1>4. ASSUME NEW s \in going
      PROVE  <<s[1] + 1, s[2]>> \in Scores(way, n) /\ <<s[1], s[2] + 1>> \in Scores(way, n)
  <2>1. PICK x \in Nat, y \in Nat : s = <<x, y>>
    BY <1>2
  <2>2. x + y = n - 1 /\ Live(way, x, y)
    BY <1>1, <2>1
  <2>3. PICK u \in Nat : u = x + 1
    OBVIOUS
  <2>4. PICK v \in Nat : v = y + 1
    OBVIOUS
  <2>5. Comes(way, u, y) /\ Comes(way, x, v)
    <3>1. u - 1 = x /\ v - 1 = y /\ u > 0 /\ v > 0
      BY <2>3, <2>4
    <3> QED
      BY <2>2, <3>1 DEF Comes
  <2>6. u + y = n /\ x + v = n
    BY <2>2, <2>3, <2>4
  <2>7. <<u, y>> \in Scores(way, n) /\ <<x, v>> \in Scores(way, n)
    BY <2>5, <2>6 DEF Scores
  <2> QED
    BY <2>1, <2>3, <2>4, <2>7
<1> QED
  BY <1>3, <1>4 DEF NextScores

\* The recursion has a solution, and it is this one.
LEMMA AfterScores ==
  ASSUME NEW n \in Nat, NEW way \in Ways
  PROVE  After[n][way] = Scores(way, n)
<1> DEFINE Rule(f) ==
      f = [m \in Nat |->
             IF m = 0 THEN [w \in Ways |-> {<<0, 0>>}]
             ELSE [w \in Ways |->
                     LET going == {s \in f[m - 1][w] : ~ EndsAt(w, s[1], s[2])}
                     IN  {<<s[1] + 1, s[2]>> : s \in going}
                           \cup {<<s[1], s[2] + 1>> : s \in going}]]
<1>1. PICK T : T = [m \in Nat |-> [w \in Ways |-> Scores(w, m)]]
  OBVIOUS
<1>2. ASSUME NEW m \in Nat
      PROVE  T[m] = IF m = 0 THEN [w \in Ways |-> {<<0, 0>>}]
                    ELSE [w \in Ways |->
                            LET going == {s \in T[m - 1][w] : ~ EndsAt(w, s[1], s[2])}
                            IN  {<<s[1] + 1, s[2]>> : s \in going}
                                  \cup {<<s[1], s[2] + 1>> : s \in going}]
  <2>1. CASE m = 0
    <3>1. \A w \in Ways : Scores(w, m) = {<<0, 0>>}
      BY <2>1, ScoresStart
    <3> QED
      BY <1>1, <2>1, <3>1
  <2>2. CASE m # 0
    <3>1. m - 1 \in Nat
      BY <2>2
    <3>2. ASSUME NEW w \in Ways
          PROVE  Scores(w, m) = LET going == {s \in T[m - 1][w] : ~ EndsAt(w, s[1], s[2])}
                                IN  {<<s[1] + 1, s[2]>> : s \in going}
                                      \cup {<<s[1], s[2] + 1>> : s \in going}
      <4>1. PICK g : g = {s \in Scores(w, m - 1) : ~ EndsAt(w, s[1], s[2])}
        OBVIOUS
      <4>2. T[m - 1][w] = Scores(w, m - 1)
        BY <1>1, <3>1
      <4>3. Scores(w, m) = NextScores(g)
        BY <2>2, <4>1, ScoresStep
      <4> QED
        BY <4>1, <4>2, <4>3 DEF NextScores
    <3> QED
      BY <1>1, <2>2, <3>2
  <2> QED
    BY <2>1, <2>2
<1>3. Rule(T)
  BY <1>1, <1>2
<1>4. After = CHOOSE f : Rule(f)
  BY DEF After
<1>5. Rule(After)
  BY <1>3, <1>4
<1>6. PICK A : A = After
  OBVIOUS
<1>7. Rule(A)
  BY <1>5, <1>6
<1>8. PICK G : G = {m \in 0..n : A[m] = T[m]}
  OBVIOUS
<1>9. 0 \in G
  <2>1. A[0] = [w \in Ways |-> {<<0, 0>>}]
    BY <1>7
  <2>2. T[0] = [w \in Ways |-> {<<0, 0>>}]
    BY <1>2
  <2> QED
    BY <1>8, <2>1, <2>2
<1>10. ASSUME NEW k \in 0..n, k < n, k \in G PROVE k + 1 \in G
  <2>1. PICK m \in Nat : m = k + 1
    OBVIOUS
  <2>2. m # 0 /\ m - 1 = k /\ m \in 0..n
    BY <1>10, <2>1
  <2>3. A[m] = [w \in Ways |->
                  LET going == {s \in A[k][w] : ~ EndsAt(w, s[1], s[2])}
                  IN  {<<s[1] + 1, s[2]>> : s \in going}
                        \cup {<<s[1], s[2] + 1>> : s \in going}]
    BY <1>7, <2>2
  <2>4. T[m] = [w \in Ways |->
                  LET going == {s \in T[k][w] : ~ EndsAt(w, s[1], s[2])}
                  IN  {<<s[1] + 1, s[2]>> : s \in going}
                        \cup {<<s[1], s[2] + 1>> : s \in going}]
    BY <1>2, <2>2
  <2>5. A[k] = T[k]
    BY <1>8, <1>10
  <2>6. A[m] = T[m]
    BY <2>3, <2>4, <2>5
  <2> QED
    BY <1>8, <2>1, <2>2, <2>6
<1>11. 0..n \subseteq G
  BY <1>9, <1>10, InductionTo
<1>12. A[n] = T[n]
  BY <1>8, <1>11
<1> QED
  BY <1>1, <1>6, <1>12

LEMMA TokenTypes ==
  ASSUME NEW t \in Tokens
  PROVE  /\ t.a \in Nat /\ t.b \in Nat /\ t.noted \in BOOLEAN
         /\ t.kind \in {"regular", "match tiebreak", "other"}
         /\ t.noted => t.kind = "regular"
         /\ High(t) = (IF t.a >= t.b THEN t.a ELSE t.b)
         /\ Low(t) = (IF t.a >= t.b THEN t.b ELSE t.a)
<1>1. /\ t.a \in Nat /\ t.b \in Nat /\ t.noted \in BOOLEAN
      /\ t.kind \in {"regular", "match tiebreak", "other"}
      /\ t.noted => t.kind = "regular"
  BY ScoreAssumption
<1>2. PICK x \in Nat : x = t.a
  BY <1>1
<1>3. PICK y \in Nat : y = t.b
  BY <1>1
<1>4. /\ Max({x, y}) = IF x >= y THEN x ELSE y
      /\ Min({x, y}) = IF x >= y THEN y ELSE x
  BY MaxOfTwo
<1> QED
  BY <1>1, <1>2, <1>3, <1>4 DEF High, Low

LEMMA HighestBounds ==
  ASSUME NEW t \in Tokens, t.kind # "other"
  PROVE  Highest \in Nat /\ t.a + t.b \in 0..(2 * Highest)
<1>1. PICK S : S = {u \in Tokens : u.kind # "other"}
  OBVIOUS
<1>2. IsFiniteSet(S)
  BY <1>1, ScoreAssumption, FS_Subset
<1>3. PICK f : f = [u \in S |-> High(u)]
  OBVIOUS
<1>4. PICK H : H = {f[u] : u \in S}
  OBVIOUS
<1>5. f \in Surjection(S, H)
  BY <1>3, <1>4 DEF Surjection
<1>6. IsFiniteSet(H)
  BY <1>2, <1>5, FS_Surjection
<1>7. \A u \in S : High(u) \in Nat
  <2>1. ASSUME NEW u \in S PROVE High(u) \in Nat
    <3>1. u \in Tokens
      BY <1>1
    <3> QED
      BY <3>1, TokenTypes
  <2> QED
    BY <2>1
<1>8. H \in SUBSET Int /\ \A h \in H : h \in Nat
  BY <1>3, <1>4, <1>7
<1>9. t \in S /\ High(t) \in H
  BY <1>1, <1>3, <1>4
<1>10. Max(H) \in H /\ \A y \in H : y <= Max(H)
  BY <1>6, <1>8, <1>9, MaxOfFinite
<1>11. Highest = Max(H)
  BY <1>1, <1>3, <1>4 DEF Highest
<1>12. PICK m \in Nat : m = Highest
  BY <1>8, <1>10, <1>11
<1>13. PICK h \in Nat : h = High(t)
  BY <1>8, <1>9
<1>14. h <= m
  BY <1>9, <1>10, <1>11, <1>12, <1>13
<1>15. PICK x \in Nat : x = t.a
  BY TokenTypes
<1>16. PICK y \in Nat : y = t.b
  BY TokenTypes
<1>17. h = IF x >= y THEN x ELSE y
  BY <1>13, <1>15, <1>16, TokenTypes
<1>18. x + y \in 0..(2 * m)
  BY <1>14, <1>17
<1> QED
  BY <1>12, <1>15, <1>16, <1>18

LEMMA ReachedWhen ==
  ASSUME NEW t \in Tokens, t.kind # "other", NEW way \in Ways
  PROVE  <<way, t.a, t.b>> \in Reached <=> Comes(way, t.a, t.b)
<1>1. t.a \in Nat /\ t.b \in Nat
  BY TokenTypes
<1>2. Highest \in Nat /\ t.a + t.b \in 0..(2 * Highest)
  BY HighestBounds
<1>4. \A n \in 0..(2 * Highest), w \in Ways : After[n][w] = Scores(w, n)
  BY <1>2, AfterScores
<1>5. ASSUME Comes(way, t.a, t.b) PROVE <<way, t.a, t.b>> \in Reached
  <2>1. PICK n \in 0..(2 * Highest) : n = t.a + t.b
    BY <1>2
  <2>2. PICK s \in After[n][way] : s = <<t.a, t.b>>
    BY <1>1, <1>4, <1>5, <2>1 DEF Scores
  <2>3. <<way, t.a, t.b>> \in {<<way, r[1], r[2]>> : r \in After[n][way]}
    BY <2>2
  <2>4. PICK reached : reached = {<<way, r[1], r[2]>> : r \in After[n][way]}
    OBVIOUS
  <2>5. reached \in {{<<w, r[1], r[2]>> : r \in After[m][w]} : w \in Ways, m \in 0..(2 * Highest)}
    BY <2>4
  <2> QED
    BY <2>3, <2>4, <2>5 DEF Reached
<1>6. ASSUME <<way, t.a, t.b>> \in Reached PROVE Comes(way, t.a, t.b)
  <2>1. PICK n \in 0..(2 * Highest), w \in Ways :
          <<way, t.a, t.b>> \in {<<w, s[1], s[2]>> : s \in After[n][w]}
    BY <1>6 DEF Reached
  <2>2. PICK s \in Scores(w, n) : <<way, t.a, t.b>> = <<w, s[1], s[2]>>
    BY <1>4, <2>1
  <2>3. w = way /\ s = <<t.a, t.b>>
    BY <2>2 DEF Scores
  <2> QED
    BY <2>2, <2>3 DEF Scores
<1> QED
  BY <1>5, <1>6

-----------------------------------------------------------------------------
\* A regular set is over as the rules have it when one of them ends it there.
LEMMA RegularPlayed ==
  ASSUME NEW t \in Tokens, t.kind = "regular"
  PROVE  /\ PlayedOut(t) <=> SetOver(t)
         /\ PlayedOut(t) \/ PlayedInPart(t) <=> SetOver(t) \/ PlausibleRegularSet(t)
<1>1. PICK x \in Nat : x = t.a
  BY TokenTypes
<1>2. PICK y \in Nat : y = t.b
  BY TokenTypes
<1>3. PICK h \in Nat : h = High(t)
  BY TokenTypes
<1>4. PICK l \in Nat : l = Low(t)
  BY TokenTypes
<1>5. h = (IF x >= y THEN x ELSE y) /\ l = (IF x >= y THEN y ELSE x)
  BY <1>1, <1>2, <1>3, <1>4, TokenTypes
<1>6. PICK v : v = "tiebreak set"
  OBVIOUS
<1>7. PICK w : w = "advantage set"
  OBVIOUS
<1>8. v \in Ways /\ w \in Ways /\ WaysOf(t.kind) = {v, w}
  BY <1>6, <1>7 DEF Ways, WaysOf
<1>9. PICK k \in Nat : k = 6
  OBVIOUS
<1>10. k = Least(v) /\ k = Least(w)
  BY <1>6, <1>7, <1>9 DEF Least
<1>11. /\ EndsAt(v, x, y) <=> TieOver(x, y)
       /\ EndsAt(w, x, y) <=> LeadOver(k, x, y)
  BY <1>6, <1>7, <1>8, <1>10, EndsWhen
<1>12. x > 0 => (Live(v, x - 1, y) <=> x - 1 <= 6 /\ y <= 6 /\ ~ TieOver(x - 1, y))
                /\ (Live(w, x - 1, y) <=> ~ LeadOver(k, x - 1, y))
  <2>1. SUFFICES ASSUME x > 0
                 PROVE  /\ (Live(v, x - 1, y) <=> x - 1 <= 6 /\ y <= 6 /\ ~ TieOver(x - 1, y))
                        /\ (Live(w, x - 1, y) <=> ~ LeadOver(k, x - 1, y))
    OBVIOUS
  <2>2. PICK u \in Nat : u = x - 1
    BY <2>1
  <2>3. /\ EndsAt(v, u, y) <=> TieOver(u, y)
        /\ EndsAt(w, u, y) <=> LeadOver(k, u, y)
    BY <1>6, <1>7, <1>8, <1>10, EndsWhen
  <2> QED
    BY <1>6, <1>7, <2>2, <2>3 DEF Live
<1>13. y > 0 => (Live(v, x, y - 1) <=> x <= 6 /\ y - 1 <= 6 /\ ~ TieOver(x, y - 1))
                /\ (Live(w, x, y - 1) <=> ~ LeadOver(k, x, y - 1))
  <2>1. SUFFICES ASSUME y > 0
                 PROVE  /\ (Live(v, x, y - 1) <=> x <= 6 /\ y - 1 <= 6 /\ ~ TieOver(x, y - 1))
                        /\ (Live(w, x, y - 1) <=> ~ LeadOver(k, x, y - 1))
    OBVIOUS
  <2>2. PICK u \in Nat : u = y - 1
    BY <2>1
  <2>3. /\ EndsAt(v, x, u) <=> TieOver(x, u)
        /\ EndsAt(w, x, u) <=> LeadOver(k, x, u)
    BY <1>6, <1>7, <1>8, <1>10, EndsWhen
  <2> QED
    BY <1>6, <1>7, <2>2, <2>3 DEF Live
<1> DEFINE ComesTie == \/ x = 0 /\ y = 0
                       \/ x > 0 /\ x - 1 <= 6 /\ y <= 6 /\ ~ TieOver(x - 1, y)
                       \/ y > 0 /\ x <= 6 /\ y - 1 <= 6 /\ ~ TieOver(x, y - 1)
           ComesLead == \/ x = 0 /\ y = 0
                        \/ x > 0 /\ ~ LeadOver(k, x - 1, y)
                        \/ y > 0 /\ ~ LeadOver(k, x, y - 1)
<1>14. (Comes(v, x, y) <=> ComesTie) /\ (Comes(w, x, y) <=> ComesLead)
  BY <1>12, <1>13 DEF Comes
<1>15. /\ <<v, t.a, t.b>> \in Reached <=> ComesTie
       /\ <<w, t.a, t.b>> \in Reached <=> ComesLead
  BY <1>1, <1>2, <1>8, <1>14, ReachedWhen
<1>16. PlayedOut(t) <=> (ComesTie /\ TieOver(x, y)) \/ (ComesLead /\ LeadOver(k, x, y))
  BY <1>1, <1>2, <1>8, <1>11, <1>15 DEF PlayedOut
<1>17. PlayedInPart(t) <=> (ComesTie /\ ~ TieOver(x, y)) \/ (ComesLead /\ ~ LeadOver(k, x, y))
  BY <1>1, <1>2, <1>8, <1>11, <1>15 DEF PlayedInPart
<1>24. PlayedOut(t) \/ PlayedInPart(t) <=> ComesTie \/ ComesLead
  <2> HIDE DEF ComesTie, ComesLead
  <2> QED
    BY <1>16, <1>17
<1> DEFINE Finished == (ComesTie /\ TieOver(x, y)) \/ (ComesLead /\ LeadOver(k, x, y))
           Between == h <= 5 \/ (h = 6 /\ l \in {5, 6}) \/ (h > 6 /\ l >= 6 /\ h <= l + 1)
<1>18. RegularSetOver(t) <=> \/ h = 6 /\ l <= 4
                             \/ h = 7 /\ l \in {5, 6}
                             \/ h >= 8 /\ l >= 6 /\ h = l + 2
  BY <1>3, <1>4 DEF RegularSetOver, By
<1>19. PlausibleRegularSet(t) <=> ~ RegularSetOver(t) /\ Between
  BY <1>3, <1>4 DEF PlausibleRegularSet
<1>20. Finished <=> RegularSetOver(t)
  <2>1. Finished <=> \/ h = 6 /\ l <= 4
                     \/ h = 7 /\ l \in {5, 6}
                     \/ h >= 8 /\ l >= 6 /\ h = l + 2
    BY <1>5, <1>9 DEF TieOver, LeadOver
  <2> QED
    BY <1>18, <2>1
<1>21. ComesTie \/ ComesLead <=> Finished \/ Between
  BY <1>5, <1>9 DEF TieOver, LeadOver
<1> HIDE DEF ComesTie, ComesLead, Finished, Between
<1>22. PlayedOut(t) <=> RegularSetOver(t)
  BY <1>16, <1>20 DEF Finished
<1>23. SetOver(t) <=> RegularSetOver(t)
  BY DEF SetOver
<1> QED
  BY <1>19, <1>20, <1>21, <1>22, <1>23, <1>24

\* A match tiebreak, in the same way.
LEMMA TiebreakPlayed ==
  ASSUME NEW t \in Tokens
  PROVE  t.kind = "match tiebreak" =>
           /\ PlayedOut(t) <=> SetOver(t)
           /\ PlayedOut(t) \/ PlayedInPart(t) <=> SetOver(t) \/ PlausibleMatchTiebreak(t)
<1>0. SUFFICES ASSUME t.kind = "match tiebreak"
               PROVE  /\ PlayedOut(t) <=> SetOver(t)
                      /\ PlayedOut(t) \/ PlayedInPart(t)
                           <=> SetOver(t) \/ PlausibleMatchTiebreak(t)
  OBVIOUS
<1>1. PICK x \in Nat : x = t.a
  BY TokenTypes
<1>2. PICK y \in Nat : y = t.b
  BY TokenTypes
<1>3. PICK h \in Nat : h = High(t)
  BY TokenTypes
<1>4. PICK l \in Nat : l = Low(t)
  BY TokenTypes
<1>5. h = (IF x >= y THEN x ELSE y) /\ l = (IF x >= y THEN y ELSE x)
  BY <1>1, <1>2, <1>3, <1>4, TokenTypes
<1>6. PICK v : v = "seven"
  OBVIOUS
<1>7. PICK w : w = "ten"
  OBVIOUS
<1>8. v \in Ways /\ w \in Ways /\ WaysOf(t.kind) = {v, w} /\ t.kind # "other"
  BY <1>0, <1>6, <1>7 DEF Ways, WaysOf
<1>9. PICK i \in Nat : i = 7
  OBVIOUS
<1>10. PICK j \in Nat : j = 10
  OBVIOUS
<1>11. i = Least(v) /\ j = Least(w) /\ v # "tiebreak set" /\ w # "tiebreak set"
  BY <1>6, <1>7, <1>9, <1>10 DEF Least
<1>12. /\ EndsAt(v, x, y) <=> LeadOver(i, x, y)
       /\ EndsAt(w, x, y) <=> LeadOver(j, x, y)
  BY <1>8, <1>11, EndsWhen
<1>13. ASSUME x > 0 PROVE /\ Live(v, x - 1, y) <=> ~ LeadOver(i, x - 1, y)
                          /\ Live(w, x - 1, y) <=> ~ LeadOver(j, x - 1, y)
  <2>1. PICK u \in Nat : u = x - 1
    BY <1>13
  <2>2. /\ EndsAt(v, u, y) <=> LeadOver(i, u, y)
        /\ EndsAt(w, u, y) <=> LeadOver(j, u, y)
    BY <1>8, <1>11, EndsWhen
  <2> QED
    BY <1>11, <2>1, <2>2 DEF Live
<1>14. ASSUME y > 0 PROVE /\ Live(v, x, y - 1) <=> ~ LeadOver(i, x, y - 1)
                          /\ Live(w, x, y - 1) <=> ~ LeadOver(j, x, y - 1)
  <2>1. PICK u \in Nat : u = y - 1
    BY <1>14
  <2>2. /\ EndsAt(v, x, u) <=> LeadOver(i, x, u)
        /\ EndsAt(w, x, u) <=> LeadOver(j, x, u)
    BY <1>8, <1>11, EndsWhen
  <2> QED
    BY <1>11, <2>1, <2>2 DEF Live
<1> DEFINE Goes(k) == \/ x = 0 /\ y = 0
                      \/ x > 0 /\ ~ LeadOver(k, x - 1, y)
                      \/ y > 0 /\ ~ LeadOver(k, x, y - 1)
<1>15. (Comes(v, x, y) <=> Goes(i)) /\ (Comes(w, x, y) <=> Goes(j))
  BY <1>13, <1>14 DEF Comes
<1>16. /\ <<v, t.a, t.b>> \in Reached <=> Goes(i)
       /\ <<w, t.a, t.b>> \in Reached <=> Goes(j)
  BY <1>1, <1>2, <1>8, <1>15, ReachedWhen
<1> DEFINE Finished == (Goes(i) /\ LeadOver(i, x, y)) \/ (Goes(j) /\ LeadOver(j, x, y))
           Between == h < i \/ h < j \/ h <= l + 1
<1>17. PlayedOut(t) <=> Finished
  BY <1>1, <1>2, <1>8, <1>12, <1>16 DEF PlayedOut
<1>18. PlayedInPart(t) <=> (Goes(i) /\ ~ LeadOver(i, x, y)) \/ (Goes(j) /\ ~ LeadOver(j, x, y))
  BY <1>1, <1>2, <1>8, <1>12, <1>16 DEF PlayedInPart
<1>19. MatchTiebreakOver(t) <=> \/ h = i /\ l + 2 <= i
                                \/ h = j /\ l + 2 <= j
                                \/ (h > i \/ h > j) /\ h = l + 2
  BY <1>3, <1>4, <1>9, <1>10 DEF MatchTiebreakOver, TiebreakTargets, TiebreakOver, By
<1>24. PlayedOut(t) \/ PlayedInPart(t) <=> Goes(i) \/ Goes(j)
  <2> HIDE DEF Goes
  <2> QED
    BY <1>17, <1>18
<1>20. PlausibleMatchTiebreak(t) <=> ~ MatchTiebreakOver(t) /\ Between
  BY <1>3, <1>4, <1>9, <1>10 DEF PlausibleMatchTiebreak, TiebreakTargets
<1>21. Finished <=> MatchTiebreakOver(t)
  <2>1. Goes(i) /\ LeadOver(i, x, y) <=> (h = 7 /\ l <= 5) \/ (h > 7 /\ h = l + 2)
    BY <1>5, <1>9 DEF LeadOver
  <2>2. Goes(j) /\ LeadOver(j, x, y) <=> (h = 10 /\ l <= 8) \/ (h > 10 /\ h = l + 2)
    BY <1>5, <1>10 DEF LeadOver
  <2>3. MatchTiebreakOver(t) <=> \/ (h = 7 /\ l <= 5) \/ (h > 7 /\ h = l + 2)
                                 \/ (h = 10 /\ l <= 8) \/ (h > 10 /\ h = l + 2)
    BY <1>9, <1>10, <1>19
  <2> QED
    BY <2>1, <2>2, <2>3
<1>22. Goes(i) \/ Goes(j) <=> Finished \/ Between
  <2>1. Goes(i) <=> (Goes(i) /\ LeadOver(i, x, y)) \/ h < 7 \/ h <= l + 1
    BY <1>5, <1>9 DEF LeadOver
  <2>2. Goes(j) <=> (Goes(j) /\ LeadOver(j, x, y)) \/ h < 10 \/ h <= l + 1
    BY <1>5, <1>10 DEF LeadOver
  <2>3. Between <=> h < 7 \/ h < 10 \/ h <= l + 1
    BY <1>9, <1>10
  <2> QED
    BY <2>1, <2>2, <2>3
<1> HIDE DEF Goes, Finished, Between
<1>23. SetOver(t) <=> MatchTiebreakOver(t)
  BY <1>0 DEF SetOver
<1> QED
  BY <1>17, <1>20, <1>21, <1>22, <1>23, <1>24

\* What the validator lets pass: of a text that was broken off the last set
\* may be one that has only begun.
TokenPasses(tokens, need, broken, i) ==
  /\ SetOver(tokens[i]) \/ (broken /\ i = Len(tokens) /\ Plausible(tokens[i]))
  /\ tokens[i].kind = "regular" => NoteLegal(tokens[i])
  /\ tokens[i].kind = "match tiebreak" =>
       i = Len(tokens) /\ \A who \in {1, 2} : WonIn(tokens, who, i - 1) = need - 1
  /\ \A who \in {1, 2} : WonIn(tokens, who, i - 1) # need
\* What it finds wrong, whatever is written after it.
Blunder(tokens, need, i) ==
  \/ tokens[i].kind = "other"
  \/ ~ SetOver(tokens[i]) /\ (i < Len(tokens) \/ ~ Plausible(tokens[i]))
  \/ tokens[i].kind = "regular" /\ ~ NoteLegal(tokens[i])
  \/ tokens[i].kind = "match tiebreak" /\ \E who \in {1, 2} : WonIn(tokens, who, i - 1) # need - 1
  \/ \E who \in {1, 2} : WonIn(tokens, who, i - 1) = need

LEMMA TokenCodesNone ==
  ASSUME NEW tokens, NEW status, NEW i
  PROVE  TokenCodes(tokens, status, i) = {} <=>
           TokenPasses(tokens, Needed, status # "completed", i)
<1> DEFINE P == \/ /\ ~ SetOver(tokens[i])
                   /\ ~ (status # "completed" /\ i = Len(tokens) /\ Plausible(tokens[i]))
                \/ tokens[i].kind = "regular" /\ ~ NoteLegal(tokens[i])
           Q == /\ tokens[i].kind = "match tiebreak"
                /\ i # Len(tokens) \/ \E who \in {1, 2} : WonIn(tokens, who, i - 1) # Needed - 1
           R == DecidedBefore(tokens, i)
<1>1. TokenCodes(tokens, status, i) =
        {c \in {"illegal set", "tiebreak context", "after end"} :
           (c = "illegal set" /\ P) \/ (c = "tiebreak context" /\ Q) \/ (c = "after end" /\ R)}
  BY Zenon DEF TokenCodes
<1>2. TokenPasses(tokens, Needed, status # "completed", i) <=> ~ P /\ ~ Q /\ ~ R
  BY Zenon DEF TokenPasses, DecidedBefore
<1> HIDE DEF P, Q, R
<1>3. TokenCodes(tokens, status, i) = {} <=> ~ P /\ ~ Q /\ ~ R
  BY <1>1, Zenon
<1> QED
  BY <1>2, <1>3

LEMMA EndCodesNone ==
  ASSUME NEW tokens, NEW status
  PROVE  EndCodes(tokens, status) = {} <=>
           /\ ~ Len(tokens) > bestOf
           /\ status = "completed" => WonIn(tokens, 1, Len(tokens)) = Needed
                                      /\ ~ (WonIn(tokens, 2, Len(tokens)) = Needed
                                            /\ WonIn(tokens, 1, Len(tokens)) < Needed)
           /\ status # "completed" =>
                \A who \in {1, 2} : WonIn(tokens, who, Len(tokens)) # Needed
<1>1. PICK n : n = Len(tokens)
  OBVIOUS
<1>2. PICK won : won = [who \in {1, 2} |-> WonIn(tokens, who, n)]
  OBVIOUS
<1> DEFINE P == n > bestOf
           W == won[2] = Needed /\ won[1] < Needed
           Q == status = "completed" /\ won[2] = Needed /\ won[1] < Needed
           R == status = "completed" /\ ~ W /\ won[1] # Needed
           T == status # "completed" /\ Needed \in Range(won)
<1>3. EndCodes(tokens, status) =
        {c \in {"too many sets", "wrong winner", "incomplete", "status after end"} :
           \/ c = "too many sets" /\ P
           \/ c = "wrong winner" /\ Q
           \/ c = "incomplete" /\ R
           \/ c = "status after end" /\ T}
  BY <1>1, <1>2, Zenon DEF EndCodes
<1>4. won[1] = WonIn(tokens, 1, n) /\ won[2] = WonIn(tokens, 2, n)
  BY <1>2
<1>5. Needed \in Range(won) <=> \E who \in {1, 2} : WonIn(tokens, who, n) = Needed
  BY <1>2 DEF Range
<1>6. /\ ~ n > bestOf
      /\ status = "completed" => won[1] = Needed /\ ~ W
      /\ status # "completed" => \A who \in {1, 2} : WonIn(tokens, who, n) # Needed
      <=> ~ P /\ ~ Q /\ ~ R /\ ~ T
  BY <1>5, Zenon
<1> HIDE DEF P, Q, R, T
<1>7. EndCodes(tokens, status) = {} <=> ~ P /\ ~ Q /\ ~ R /\ ~ T
  BY <1>3, Zenon
<1> QED
  BY <1>1, <1>4, <1>6, <1>7, Zenon

LEMMA WonInStep ==
  ASSUME NEW tokens, NEW who, NEW n \in Nat
  PROVE  /\ WonIn(tokens, who, n) \in Nat
         /\ WonIn(tokens, who, 0) = 0
         /\ WonIn(tokens, who, n + 1) = WonIn(tokens, who, n) +
              (IF SetOver(tokens[n + 1]) /\ Listed(tokens[n + 1]) = who THEN 1 ELSE 0)
<1> DEFINE Of(m) == {i \in 1..m : SetOver(tokens[i]) /\ Listed(tokens[i]) = who}
<1>1. \A m : WonIn(tokens, who, m) = Cardinality(Of(m))
  BY DEF WonIn, Quantify
<1>2. IsFiniteSet(1..n)
  BY FS_Interval
<1>3. Of(n) \subseteq 1..n /\ n + 1 \notin Of(n)
  OBVIOUS
<1>4. IsFiniteSet(Of(n)) /\ Cardinality(Of(n)) \in Nat
  BY <1>2, <1>3, FS_Subset, FS_CardinalityType
<1>5. Of(0) = {}
  OBVIOUS
<1>6. Cardinality(Of(0)) = 0
  BY <1>5, FS_EmptySet
<1>7. CASE SetOver(tokens[n + 1]) /\ Listed(tokens[n + 1]) = who
  <2>1. Of(n + 1) = Of(n) \cup {n + 1}
    BY <1>7
  <2> HIDE DEF Of
  <2>2. Cardinality(Of(n) \cup {n + 1}) = Cardinality(Of(n)) + 1
    BY <1>3, <1>4, FS_AddElement
  <2> QED
    BY <1>1, <1>4, <1>6, <1>7, <2>1, <2>2
<1>8. CASE ~ (SetOver(tokens[n + 1]) /\ Listed(tokens[n + 1]) = who)
  <2>1. Of(n + 1) = Of(n)
    BY <1>8
  <2> HIDE DEF Of
  <2> QED
    BY <1>1, <1>4, <1>6, <1>8, <2>1
<1> QED
  BY <1>7, <1>8

LEMMA WonInSame ==
  ASSUME NEW tokens, NEW other, NEW who, NEW n \in Nat, \A i \in 1..n : tokens[i] = other[i]
  PROVE  WonIn(tokens, who, n) = WonIn(other, who, n)
<1>1. {i \in 1..n : SetOver(tokens[i]) /\ Listed(tokens[i]) = who}
        = {i \in 1..n : SetOver(other[i]) /\ Listed(other[i]) = who}
  OBVIOUS
<1> QED
  BY <1>1 DEF WonIn, Quantify

LEMMA NeededFacts ==
  ASSUME bestOf \in Lengths
  PROVE  /\ bestOf \in Nat /\ Needed \in Nat /\ Needed >= 1 /\ bestOf = 2 * Needed - 1
         /\ Needed - 1 \in Nat
<1>1. PICK n \in Nat : n = bestOf /\ n % 2 = 1
  BY ScoreAssumption
<1>2. PICK m \in Nat : m = n \div 2
  OBVIOUS
<1>3. n = 2 * m + 1
  BY <1>1, <1>2
<1> QED
  BY <1>1, <1>2, <1>3 DEF Needed

\* What follows from the play, as the validator has it.
LEMMA FollowsWhen ==
  ASSUME NEW t \in Tokens
  PROVE  /\ Follows(t) <=>
              /\ ~ MatchOver /\ ~ underway
              /\ t.kind = "match tiebreak" => setsWon = <<Needed - 1, Needed - 1>>
              /\ t.kind # "other" /\ (SetOver(t) \/ Plausible(t))
              /\ t.kind = "regular" => NoteLegal(t)
         /\ t.kind # "other" => (PlayedOut(t) <=> SetOver(t))
<1>1. t.kind \in {"regular", "match tiebreak", "other"} /\ (t.noted => t.kind = "regular")
  BY TokenTypes
<1>2. CASE t.kind = "regular"
  <2>1. PlayedOut(t) <=> SetOver(t)
    BY <1>2, RegularPlayed
  <2>2. PlayedOut(t) \/ PlayedInPart(t) <=> SetOver(t) \/ PlausibleRegularSet(t)
    BY <1>2, RegularPlayed
  <2>3. Plausible(t) <=> PlausibleRegularSet(t) /\ ~ t.noted
    BY <1>2, Zenon DEF Plausible
  <2>4. CASE t.noted
    BY <1>2, <2>1, <2>3, <2>4, Zenon DEF Follows, NoteLegal
  <2>5. CASE ~ t.noted
    BY <1>2, <2>1, <2>2, <2>3, <2>5, Zenon DEF Follows, NoteLegal
  <2> QED
    BY <2>4, <2>5
<1>3. CASE t.kind = "match tiebreak"
  <2>1. PlayedOut(t) <=> SetOver(t)
    BY <1>3, TiebreakPlayed, Zenon
  <2>2. PlayedOut(t) \/ PlayedInPart(t) <=> SetOver(t) \/ Plausible(t)
    BY <1>3, TiebreakPlayed, Zenon DEF Plausible
  <2>3. ~ t.noted /\ t.kind # "regular" /\ t.kind # "other"
    BY <1>1, <1>3, Zenon
  <2> QED
    BY <1>3, <2>1, <2>2, <2>3, Zenon DEF Follows
<1>4. CASE t.kind = "other"
  <2>1. WaysOf(t.kind) = {}
    BY <1>4 DEF WaysOf
  <2> QED
    BY <1>4, <2>1, Zenon DEF Follows, PlayedOut, PlayedInPart
<1> QED
  BY <1>1, <1>2, <1>3, <1>4, Zenon

\* While every text followed from the play, the sheet is that of the match: the
\* sets won are those the validator counts, only the last may not be over, and
\* the validator lets all of them pass.
Played ==
  /\ \A who \in {1, 2} :
       setsWon[who] = WonIn(sheet, who, Len(sheet)) /\ setsWon[who] <= Needed
  /\ setsWon[1] + setsWon[2] + (IF underway THEN 1 ELSE 0) = Len(sheet)
  /\ ~ (setsWon[1] = Needed /\ setsWon[2] = Needed)
  /\ underway => setsWon[1] # Needed /\ setsWon[2] # Needed /\ ~ SetOver(sheet[Len(sheet)])
  /\ \A i \in 1..Len(sheet) : /\ sheet[i].kind # "other"
                              /\ TokenPasses(sheet, Needed, TRUE, i)
                              /\ SetOver(sheet[i]) \/ (underway /\ i = Len(sheet))
SheetTypes ==
  /\ sheet \in Seq(Tokens) /\ bestOf \in Lengths /\ underway \in BOOLEAN
  /\ setsWon \in [{1, 2} -> Nat] /\ mistakes \in Nat
SheetInv ==
  /\ SheetTypes
  /\ ending \in Endings \cup {"open"}
  /\ mistakes = 0 => Played
  /\ mistakes # 0 => \E i \in 1..Len(sheet) : Blunder(sheet, Needed, i)

LEMMA SheetStarts == ScoreInit => SheetInv
<1> SUFFICES ASSUME ScoreInit PROVE SheetInv
  OBVIOUS
<1>1. sheet = <<>> /\ Len(sheet) = 0 /\ underway = FALSE /\ mistakes = 0 /\ bestOf \in Lengths
  BY DEF ScoreInit
<1>2. setsWon = [who \in {1, 2} |-> 0]
  <2>1. setsWon = <<0, 0>>
    BY DEF ScoreInit
  <2>2. DOMAIN setsWon = {1, 2} /\ setsWon[1] = 0 /\ setsWon[2] = 0
    BY <2>1
  <2> QED
    BY <2>1, <2>2
<1>3. \A who \in {1, 2} : WonIn(sheet, who, 0) = 0
  <2>1. PICK n \in Nat : n = 0
    OBVIOUS
  <2> QED
    BY <2>1, WonInStep
<1>4. Played
  <2>1. Needed \in Nat /\ Needed >= 1
    BY <1>1, NeededFacts
  <2> QED
    BY <1>1, <1>2, <1>3, <2>1 DEF Played
<1>5. ending \in Endings \cup {"open"}
  BY Zenon DEF ScoreInit
<1>6. SheetTypes
  <2>1. setsWon \in [{1, 2} -> Nat]
    BY <1>2
  <2>2. sheet \in Seq(Tokens)
    BY <1>1
  <2>3. underway \in BOOLEAN
    BY <1>1, Zenon
  <2> QED
    BY <1>1, <2>1, <2>2, <2>3 DEF SheetTypes
<1> QED
  BY <1>1, <1>4, <1>5, <1>6 DEF SheetInv

\* Both sides at once, as the tuple and one by one.
LEMMA BothWon ==
  ASSUME setsWon \in [{1, 2} -> Nat], NEW n
  PROVE  /\ setsWon = <<n, n>> <=> setsWon[1] = n /\ setsWon[2] = n
         /\ MatchOver <=> setsWon[1] = Needed \/ setsWon[2] = Needed
<1>1. setsWon = <<n, n>> <=> setsWon[1] = n /\ setsWon[2] = n
  <2>1. <<n, n>> = [i \in {1, 2} |-> n]
    <3>1. DOMAIN <<n, n>> = {1, 2}
      OBVIOUS
    <3> QED
      BY <3>1
  <2> QED
    BY <2>1
<1>2. Range(setsWon) = {setsWon[1], setsWon[2]}
  BY DEF Range
<1> QED
  BY <1>1, <1>2 DEF MatchOver

LEMMA AppendedWon ==
  \A s \in Seq(Tokens) : \A t \in Tokens : \A who : \A i \in 1..(Len(s) + 1) :
    WonIn(Append(s, t), who, i - 1) = WonIn(s, who, i - 1)
<1>1. SUFFICES ASSUME NEW s \in Seq(Tokens), NEW t \in Tokens, NEW who,
                      NEW i \in 1..(Len(s) + 1)
               PROVE  WonIn(Append(s, t), who, i - 1) = WonIn(s, who, i - 1)
  OBVIOUS
<1>2. PICK u : u = Append(s, t)
  OBVIOUS
<1>3. PICK m \in Nat : m = i - 1
  OBVIOUS
<1>4. \A j \in 1..m : u[j] = s[j]
  BY <1>2, <1>3
<1> QED
  BY <1>2, <1>3, <1>4, WonInSame

\* The text that does not follow is found wrong, it or the one before it.
LEMMA MistakesAreFound ==
  ASSUME SheetInv, mistakes = 0, NEW t \in Tokens, ~ Follows(t),
         NEW n, n = Len(sheet), NEW u, u = Append(sheet, t)
  PROVE  \E i \in 1..(n + 1) : Blunder(u, Needed, i)
<1>1. /\ n \in Nat /\ Len(u) = n + 1 /\ u[n + 1] = t
      /\ \A i \in 1..n : u[i] = sheet[i]
      /\ \A who : \A i \in 1..(n + 1) : WonIn(u, who, i - 1) = WonIn(sheet, who, i - 1)
  <2>1. sheet \in Seq(Tokens)
    BY DEF SheetInv, SheetTypes
  <2>2. /\ n \in Nat /\ Len(u) = n + 1 /\ u[n + 1] = t
        /\ \A i \in 1..n : u[i] = sheet[i]
    BY <2>1
  <2>3. \A who : \A i \in 1..(Len(sheet) + 1) : WonIn(u, who, i - 1) = WonIn(sheet, who, i - 1)
    BY <2>1, AppendedWon, Zenon
  <2> QED
    BY <2>2, <2>3, Zenon
<1>2. PICK m \in 1..(n + 1) : m = n + 1
  BY <1>1
<1>3. \A who \in {1, 2} : setsWon[who] = WonIn(u, who, m - 1)
  <2>1. \A who \in {1, 2} : setsWon[who] = WonIn(sheet, who, n)
    BY DEF SheetInv, Played
  <2>2. m - 1 = n
    BY <1>1, <1>2
  <2> QED
    BY <1>1, <2>1, <2>2
<1>4. CASE MatchOver
  <2>1. setsWon[1] = Needed \/ setsWon[2] = Needed
    BY <1>4, BothWon DEF SheetInv, SheetTypes
  <2> QED
    BY <1>3, <2>1, Zenon DEF Blunder
<1>5. CASE underway
  <2>1. ~ SetOver(sheet[n])
    BY <1>5 DEF SheetInv, Played
  <2>2. n # 0
    <3>1. setsWon[1] \in Nat /\ setsWon[2] \in Nat
      BY DEF SheetInv, SheetTypes
    <3>2. setsWon[1] + setsWon[2] + 1 = n
      BY <1>5 DEF SheetInv, Played
    <3> QED
      BY <3>1, <3>2
  <2>3. PICK i \in 1..n : i = n
    BY <1>1, <2>2
  <2>4. i \in 1..(n + 1) /\ i < Len(u) /\ ~ SetOver(u[i])
    BY <1>1, <2>1, <2>3
  <2> QED
    BY <2>4, Zenon DEF Blunder
<1>6. CASE t.kind = "match tiebreak" /\ setsWon # <<Needed - 1, Needed - 1>>
  <2>1. setsWon[1] # Needed - 1 \/ setsWon[2] # Needed - 1
    BY <1>6, BothWon DEF SheetInv, SheetTypes
  <2>2. u[m].kind = "match tiebreak"
    BY <1>1, <1>2, <1>6, Zenon
  <2> QED
    BY <1>3, <2>1, <2>2, Zenon DEF Blunder
<1>7. CASE t.kind = "other" \/ ~ (SetOver(t) \/ Plausible(t)) \/ (t.kind = "regular" /\ ~ NoteLegal(t))
  <2>1. u[m] = t
    BY <1>1, <1>2
  <2> QED
    BY <1>7, <2>1, Zenon DEF Blunder
<1> QED
  BY <1>4, <1>5, <1>6, <1>7, FollowsWhen, Zenon

\* And what was found wrong stays so.
LEMMA BlundersStay ==
  ASSUME NEW s \in Seq(Tokens), NEW t \in Tokens, NEW n, n = Len(s), NEW u, u = Append(s, t),
         NEW need, NEW i \in 1..n, Blunder(s, need, i)
  PROVE  i \in 1..(n + 1) /\ Blunder(u, need, i)
<1>1. /\ n \in Nat /\ Len(u) = n + 1 /\ u[i] = s[i]
      /\ \A who : \A j \in 1..(n + 1) : WonIn(u, who, j - 1) = WonIn(s, who, j - 1)
  <2>1. n \in Nat /\ Len(u) = n + 1 /\ u[i] = s[i]
    OBVIOUS
  <2>2. \A who : \A j \in 1..(Len(s) + 1) : WonIn(u, who, j - 1) = WonIn(s, who, j - 1)
    BY AppendedWon, Zenon
  <2> QED
    BY <2>1, <2>2, Zenon
<1>2. i \in 1..(n + 1) /\ i < Len(u)
  BY <1>1
<1>3. \A who : WonIn(u, who, i - 1) = WonIn(s, who, i - 1)
  BY <1>1, <1>2
<1> QED
  BY <1>1, <1>2, <1>3, Zenon DEF Blunder

LEMMA ListedSide == \A t : Listed(t) \in {1, 2}
BY DEF Listed

\* After a match tiebreak that was played out the match is over.
LEMMA TiebreakIsLast ==
  ASSUME SheetInv, mistakes = 0, ~ MatchOver, ~ underway, NEW i \in 1..Len(sheet)
  PROVE  sheet[i].kind # "match tiebreak"
<1>1. SUFFICES ASSUME sheet[i].kind = "match tiebreak" PROVE FALSE
  OBVIOUS
<1>2. Played /\ SheetTypes
  BY DEF SheetInv
<1>3. i = Len(sheet) /\ SetOver(sheet[i])
      /\ \A who \in {1, 2} : WonIn(sheet, who, i - 1) = Needed - 1
  BY <1>1, <1>2, Zenon DEF Played, TokenPasses
<1>4. PICK m \in Nat : m = i - 1
  BY <1>2 DEF SheetTypes
<1>5. m + 1 = i /\ Needed \in Nat
  BY <1>2, <1>4, NeededFacts DEF SheetTypes
<1>6. PICK a \in {1, 2} : a = Listed(sheet[i])
  BY ListedSide
<1>7. WonIn(sheet, a, m + 1) = WonIn(sheet, a, m) + 1
  <2>1. SetOver(sheet[m + 1]) /\ Listed(sheet[m + 1]) = a
    BY <1>3, <1>5, <1>6
  <2> QED
    BY <2>1, WonInStep
<1>8. WonIn(sheet, a, i) = Needed
  BY <1>3, <1>4, <1>5, <1>7
<1>9. setsWon[a] = Needed
  BY <1>2, <1>3, <1>8 DEF Played
<1> QED
  BY <1>2, <1>9, BothWon DEF SheetTypes

LEMMA FollowKeeps ==
  ASSUME SheetInv, mistakes = 0, NEW t \in Tokens, Follows(t), WriteSet(t)
  PROVE  Played'
<1>1. Played /\ SheetTypes
  BY DEF SheetInv
<1>2. PICK n \in Nat : n = Len(sheet)
  BY <1>1 DEF SheetTypes
<1>3. PICK u : u = sheet'
  OBVIOUS
<1>4. u = Append(sheet, t) /\ sheet \in Seq(Tokens) /\ bestOf' = bestOf
  BY <1>1, <1>3 DEF SheetTypes, WriteSet
<1>5. n \in Nat /\ Len(u) = n + 1 /\ u[n + 1] = t /\ \A i \in 1..n : u[i] = sheet[i]
  BY <1>2, <1>4
<1>6. \A who : \A i \in 1..(n + 1) : WonIn(u, who, i - 1) = WonIn(sheet, who, i - 1)
  <2>1. \A who : \A i \in 1..(Len(sheet) + 1) : WonIn(u, who, i - 1) = WonIn(sheet, who, i - 1)
    <3>1. u = Append(sheet, t)
      BY <1>4
    <3>2. sheet \in Seq(Tokens)
      BY <1>4
    <3> QED
      BY <3>1, <3>2, AppendedWon, Zenon
  <2> QED
    BY <1>2, <2>1, Zenon
<1>7. PICK need \in Nat : need = Needed /\ need >= 1
  BY <1>1, NeededFacts DEF SheetTypes
<1>8. Needed' = need
  BY <1>4, <1>7 DEF Needed
<1>9. /\ ~ MatchOver /\ ~ underway
      /\ t.kind = "match tiebreak" => setsWon = <<need - 1, need - 1>>
      /\ t.kind # "other" /\ (SetOver(t) \/ Plausible(t))
      /\ t.kind = "regular" => NoteLegal(t)
      /\ PlayedOut(t) <=> SetOver(t)
  BY <1>7, FollowsWhen, Zenon
<1>10. PICK a \in Nat : a = setsWon[1]
  BY <1>1 DEF SheetTypes
<1>11. PICK b \in Nat : b = setsWon[2]
  BY <1>1 DEF SheetTypes
<1>12. /\ a < need /\ b < need /\ a + b = n
       /\ a = WonIn(sheet, 1, n) /\ b = WonIn(sheet, 2, n)
  <2>1. a # need /\ b # need
    BY <1>1, <1>7, <1>9, <1>10, <1>11, BothWon DEF SheetTypes
  <2>2. a <= need /\ b <= need /\ a + b + 0 = n
    BY <1>1, <1>2, <1>7, <1>9, <1>10, <1>11 DEF Played
  <2>3. a = WonIn(sheet, 1, n) /\ b = WonIn(sheet, 2, n)
    BY <1>1, <1>2, <1>10, <1>11 DEF Played
  <2>4. a < need /\ b < need /\ a + b = n
    BY <2>1, <2>2
  <2> QED
    BY <2>3, <2>4, Zenon
<1>13. \A who \in {1, 2} : setsWon[who] = WonIn(u, who, n)
  <2>1. PICK m \in 1..(n + 1) : m = n + 1 /\ m - 1 = n
    BY <1>5
  <2>2. WonIn(u, 1, n) = WonIn(sheet, 1, n) /\ WonIn(u, 2, n) = WonIn(sheet, 2, n)
    BY <1>6, <2>1
  <2> QED
    BY <1>10, <1>11, <1>12, <2>2
<1>14. PICK s \in Nat : s = IF SetOver(t) THEN 1 ELSE 0
  OBVIOUS
<1>15. PICK w \in {1, 2} : w = Listed(t)
  BY ListedSide
<1>16. /\ setsWon'[1] = a + (IF w = 1 THEN s ELSE 0)
       /\ setsWon'[2] = b + (IF w = 2 THEN s ELSE 0)
       /\ underway' = (s = 0)
  <2>1. underway' = ~ SetOver(t)
    BY <1>9 DEF WriteSet
  <2>2. CASE SetOver(t)
    <3>1. setsWon' = [setsWon EXCEPT ![w] = @ + 1]
      BY <1>9, <1>15, <2>2 DEF WriteSet
    <3>2. s = 1
      BY <1>14, <2>2
    <3> QED
      BY <1>1, <1>10, <1>11, <2>1, <2>2, <3>1, <3>2 DEF SheetTypes
  <2>3. CASE ~ SetOver(t)
    <3>1. setsWon' = setsWon
      BY <1>9, <2>3 DEF WriteSet
    <3>2. s = 0
      BY <1>14, <2>3
    <3> QED
      BY <1>10, <1>11, <2>1, <2>3, <3>1, <3>2
  <2> QED
    BY <2>2, <2>3
<1>17. WonIn(u, 1, n + 1) = setsWon'[1] /\ WonIn(u, 2, n + 1) = setsWon'[2]
  <2>1. \A who \in {1, 2} : WonIn(u, who, n + 1) = setsWon[who] + (IF who = w THEN s ELSE 0)
    <3>1. ASSUME NEW who \in {1, 2}
          PROVE  WonIn(u, who, n + 1) = WonIn(u, who, n)
                   + (IF SetOver(t) /\ w = who THEN 1 ELSE 0)
      <4>1. WonIn(u, who, n + 1) = WonIn(u, who, n) +
              (IF SetOver(u[n + 1]) /\ Listed(u[n + 1]) = who THEN 1 ELSE 0)
        BY WonInStep
      <4> QED
        BY <1>5, <1>15, <4>1, Zenon
    <3> QED
      BY <1>13, <1>14, <3>1
  <2> QED
    BY <1>10, <1>11, <1>15, <1>16, <2>1
<1>18. ASSUME NEW i \in 1..(n + 1)
       PROVE  u[i].kind # "other" /\ TokenPasses(u, need, TRUE, i)
              /\ (SetOver(u[i]) \/ (underway' /\ i = n + 1))
  <2>1. CASE i = n + 1
    <3>1. u[i] = t /\ i = Len(u) /\ i - 1 = n
      BY <1>5, <2>1
    <3>2. \A who \in {1, 2} : WonIn(u, who, i - 1) = setsWon[who] /\ setsWon[who] # need
      <4>1. setsWon[1] # need /\ setsWon[2] # need
        BY <1>10, <1>11, <1>12
      <4> QED
        BY <1>13, <3>1, <4>1, Zenon
    <3>3. t.kind = "match tiebreak" => setsWon[1] = need - 1 /\ setsWon[2] = need - 1
      BY <1>1, <1>9, BothWon, Zenon DEF SheetTypes
    <3>4. SetOver(t) \/ underway'
      BY <1>14, <1>16
    <3>5. \A who \in {1, 2} : t.kind = "match tiebreak" => setsWon[who] = need - 1
      BY <3>3, Zenon
    <3> QED
      BY <1>9, <2>1, <3>1, <3>2, <3>4, <3>5, Zenon DEF TokenPasses
  <2>2. CASE i # n + 1
    <3>1. i \in 1..n /\ u[i] = sheet[i]
      BY <1>5, <2>2
    <3>2. i \in 1..Len(sheet)
      BY <1>2, <3>1
    <3>3. sheet[i].kind # "match tiebreak"
      BY <1>9, <3>2, TiebreakIsLast
    <3>4. /\ sheet[i].kind # "other" /\ TokenPasses(sheet, need, TRUE, i)
          /\ SetOver(sheet[i])
      BY <1>1, <1>7, <1>9, <3>2, Zenon DEF Played
    <3>5. \A who \in {1, 2} : WonIn(u, who, i - 1) = WonIn(sheet, who, i - 1)
      BY <1>6
    <3> QED
      BY <3>1, <3>3, <3>4, <3>5, Zenon DEF TokenPasses
  <2> QED
    BY <2>1, <2>2
<1>19. setsWon'[1] <= need /\ setsWon'[2] <= need /\ ~ (setsWon'[1] = need /\ setsWon'[2] = need)
  <2>1. s \in {0, 1}
    BY <1>14
  <2> QED
    BY <1>12, <1>15, <1>16, <2>1
<1>20. setsWon'[1] + setsWon'[2] + (IF underway' THEN 1 ELSE 0) = n + 1
  <2>1. CASE s = 0
    <3>1. setsWon'[1] = a /\ setsWon'[2] = b
      BY <1>16, <2>1
    <3>2. (IF underway' THEN 1 ELSE 0) = 1
      BY <1>16, <2>1, Zenon
    <3> QED
      BY <1>12, <3>1, <3>2
  <2>2. CASE s = 1
    <3>1. setsWon'[1] + setsWon'[2] = a + b + 1
      BY <1>15, <1>16, <2>2
    <3>2. (IF underway' THEN 1 ELSE 0) = 0
      <4>1. s # 0
        BY <2>2
      <4> QED
        BY <1>16, <4>1, Zenon
    <3>3. a + b + 1 = n + 1
      BY <1>12
    <3>4. PICK e \in Nat : e = setsWon'[1] + setsWon'[2]
      BY <3>1
    <3>5. e + 0 = n + 1
      BY <3>1, <3>3, <3>4
    <3> QED
      BY <3>2, <3>4, <3>5
  <2> QED
    BY <1>14, <2>1, <2>2
<1>21. underway' => setsWon'[1] # need /\ setsWon'[2] # need /\ ~ SetOver(u[n + 1])
  <2>1. SUFFICES ASSUME s = 0
                 PROVE  setsWon'[1] # need /\ setsWon'[2] # need /\ ~ SetOver(u[n + 1])
    BY <1>16
  <2>2. setsWon'[1] = a /\ setsWon'[2] = b
    BY <1>16, <2>1
  <2>3. ~ SetOver(u[n + 1])
    BY <1>5, <1>14, <2>1
  <2>4. setsWon'[1] # need /\ setsWon'[2] # need
    BY <1>12, <2>2
  <2> QED
    BY <2>3, <2>4
<1>22. \A who \in {1, 2} : setsWon'[who] = WonIn(u, who, n + 1) /\ setsWon'[who] <= need
  BY <1>17, <1>19
<1> QED
  BY <1>3, <1>5, <1>8, <1>18, <1>19, <1>20, <1>21, <1>22 DEF Played

LEMMA WriteKeepsSheet ==
  ASSUME SheetInv, NEW t \in Tokens, WriteSet(t)
  PROVE  SheetInv'
<1>1. SheetTypes
  BY DEF SheetInv
<1>2. PICK n \in Nat : n = Len(sheet)
  BY <1>1 DEF SheetTypes
<1>3. PICK u : u = sheet'
  OBVIOUS
<1>4. u = Append(sheet, t) /\ sheet \in Seq(Tokens) /\ bestOf' = bestOf
  BY <1>1, <1>3 DEF SheetTypes, WriteSet
<1>5. Len(u) = n + 1 /\ u \in Seq(Tokens) /\ Needed' = Needed
  BY <1>2, <1>4 DEF Needed
<1>6. mistakes' = mistakes + (IF Follows(t) THEN 0 ELSE 1) /\ mistakes' \in Nat
  BY <1>1 DEF WriteSet, SheetTypes
<1>7. SheetTypes'
  <2>1. setsWon' \in [{1, 2} -> Nat]
    <3>1. PICK w \in {1, 2} : w = Listed(t)
      BY ListedSide
    <3>2. setsWon' = [setsWon EXCEPT ![w] = @ + 1] \/ setsWon' = setsWon
      BY <3>1 DEF WriteSet
    <3> QED
      BY <1>1, <3>2 DEF SheetTypes
  <2>2. underway' \in BOOLEAN
    <3>1. underway' \in {underway, ~ PlayedOut(t)}
      BY DEF WriteSet
    <3> QED
      BY <1>1, <3>1 DEF SheetTypes, PlayedOut
  <2> QED
    BY <1>1, <1>3, <1>4, <1>5, <1>6, <2>1, <2>2 DEF SheetTypes
<1>8. ending' \in Endings \cup {"open"}
  BY Zenon DEF SheetInv, WriteSet
<1>9. mistakes' = 0 => Played'
  <2>1. SUFFICES ASSUME mistakes' = 0 PROVE Played'
    OBVIOUS
  <2>2. mistakes = 0 /\ Follows(t)
    BY <1>1, <1>6, <2>1 DEF SheetTypes
  <2> QED
    BY <2>2, FollowKeeps
<1>10. mistakes' # 0 => \E i \in 1..(n + 1) : Blunder(u, Needed, i)
  <2>1. CASE mistakes = 0 /\ ~ Follows(t)
    BY <1>2, <1>4, <2>1, MistakesAreFound
  <2>2. CASE mistakes # 0
    <3>1. PICK i \in 1..n : Blunder(sheet, Needed, i)
      BY <1>2, <2>2 DEF SheetInv
    <3>2. PICK need : need = Needed
      OBVIOUS
    <3>3. i \in 1..(n + 1) /\ Blunder(u, need, i)
      BY <1>2, <1>4, <3>1, <3>2, BlundersStay
    <3> QED
      BY <3>2, <3>3
  <2> QED
    BY <1>1, <1>6, <2>1, <2>2 DEF SheetTypes
<1> QED
  BY <1>3, <1>5, <1>7, <1>8, <1>9, <1>10, Zenon DEF SheetInv

\* The verdict on the texts that say nothing of the sets.
LEMMA MisplacedFails ==
  ASSUME NEW tokens, NEW status, status = "misplaced"
  PROVE  ~ ScoreValid(tokens, status)
  BY Zenon DEF ScoreValid, ScoreCodes

LEMMA WalkoverPasses ==
  ASSUME NEW tokens, NEW status, status = "walkover"
  PROVE  ScoreValid(tokens, status) <=> tokens = <<>>
<1>1. status # "misplaced"
  BY Zenon
<1>2. ScoreCodes(tokens, status) = IF tokens = <<>> THEN {} ELSE {"walkover with score"}
  BY <1>1, Zenon DEF ScoreCodes
<1>3. CASE tokens = <<>>
  BY <1>2, <1>3, Zenon DEF ScoreValid
<1>4. CASE tokens # <<>>
  BY <1>2, <1>4, Zenon DEF ScoreValid
<1> QED
  BY <1>3, <1>4

LEMMA EmptyPasses ==
  ASSUME NEW tokens, tokens = <<>>, NEW status \in {"completed", "broken off"}
  PROVE  ScoreValid(tokens, status) <=> status # "completed"
<1>1. status # "misplaced" /\ status # "walkover"
  BY Zenon
<1>2. ScoreCodes(tokens, status) = IF status = "completed" THEN {"missing"} ELSE {}
  BY <1>1, Zenon DEF ScoreCodes
<1>3. CASE status = "completed"
  BY <1>2, <1>3, Zenon DEF ScoreValid
<1>4. CASE status # "completed"
  BY <1>2, <1>4, Zenon DEF ScoreValid
<1> QED
  BY <1>3, <1>4, Zenon

LEMMA TextDomain == \A tokens \in Seq(Tokens) : DOMAIN tokens = 1..Len(tokens)
  OBVIOUS

\* The verdict on a text of sets, for a match that was played out or broken off.
LEMMA VerdictWhen ==
  ASSUME NEW tokens \in Seq(Tokens), NEW status \in {"completed", "broken off"}, tokens # <<>>,
         \A i \in 1..Len(tokens) : tokens[i].kind # "other"
  PROVE  ScoreValid(tokens, status) <=>
           /\ EndCodes(tokens, status) = {}
           /\ \A i \in 1..Len(tokens) :
                TokenPasses(tokens, Needed, status # "completed", i)
<1>1. DOMAIN tokens = 1..Len(tokens)
  BY Zenon, TextDomain
<1>2. status # "misplaced" /\ status # "walkover"
  BY Zenon
<1>3. ScoreCodes(tokens, status) =
        EndCodes(tokens, status) \cup UNION {TokenCodes(tokens, status, i) : i \in 1..Len(tokens)}
  BY <1>1, <1>2, Zenon DEF ScoreCodes
<1>4. ScoreCodes(tokens, status) = {} <=>
        /\ EndCodes(tokens, status) = {}
        /\ \A i \in 1..Len(tokens) : TokenCodes(tokens, status, i) = {}
  BY <1>3
<1>5. \A i \in 1..Len(tokens) :
        TokenCodes(tokens, status, i) = {} <=>
          TokenPasses(tokens, Needed, status # "completed", i)
  BY TokenCodesNone, Zenon
<1> QED
  BY <1>4, <1>5, Zenon DEF ScoreValid

\* With a mistake on it no sheet passes.
LEMMA BlundersFail ==
  ASSUME SheetInv, mistakes # 0, NEW status \in Endings
  PROVE  ~ ScoreValid(sheet, status)
<1>1. PICK i \in 1..Len(sheet) : Blunder(sheet, Needed, i)
  BY DEF SheetInv
<1>2. sheet \in Seq(Tokens)
  BY DEF SheetInv, SheetTypes
<1>3. sheet # <<>> /\ (i < Len(sheet) => i # Len(sheet))
  BY <1>1, <1>2
<1>4. CASE status = "misplaced"
  BY <1>4, MisplacedFails, Zenon
<1>5. CASE status = "walkover"
  BY <1>3, <1>5, WalkoverPasses, Zenon
<1>6. CASE status \in {"completed", "broken off"}
  <2>1. CASE \E j \in DOMAIN sheet : sheet[j].kind = "other"
    <3>1. ScoreCodes(sheet, status) = {"malformed"}
      BY <1>3, <1>6, <2>1, Zenon DEF ScoreCodes
    <3> QED
      BY <3>1, Zenon DEF ScoreValid
  <2>2. CASE ~ \E j \in DOMAIN sheet : sheet[j].kind = "other"
    <3>1. \A j \in 1..Len(sheet) : sheet[j].kind # "other"
      BY <1>2, <2>2
    <3>2. ~ TokenPasses(sheet, Needed, status # "completed", i)
      <4>1. CASE sheet[i].kind = "other"
        BY <1>1, <3>1, <4>1, Zenon
      <4>2. CASE ~ SetOver(sheet[i]) /\ (i < Len(sheet) \/ ~ Plausible(sheet[i]))
        BY <1>3, <4>2, Zenon DEF TokenPasses
      <4>3. CASE sheet[i].kind = "regular" /\ ~ NoteLegal(sheet[i])
        BY <4>3, Zenon DEF TokenPasses
      <4>4. CASE /\ sheet[i].kind = "match tiebreak"
                 /\ \E who \in {1, 2} : WonIn(sheet, who, i - 1) # Needed - 1
        BY <4>4, Zenon DEF TokenPasses
      <4>5. CASE \E who \in {1, 2} : WonIn(sheet, who, i - 1) = Needed
        BY <4>5, Zenon DEF TokenPasses
      <4> QED
        BY <1>1, <4>1, <4>2, <4>3, <4>4, <4>5, Zenon DEF Blunder
    <3> QED
      BY <1>1, <1>2, <1>3, <1>6, <3>1, <3>2, VerdictWhen, Zenon
  <2> QED
    BY <2>1, <2>2
<1> QED
  BY <1>4, <1>5, <1>6, Zenon DEF Endings

\* A match has at most as many sets as it is the best of.
LEMMA SheetLength ==
  ASSUME SheetInv, mistakes = 0
  PROVE  /\ Len(sheet) \in Nat /\ ~ Len(sheet) > bestOf
         /\ sheet = <<>> => setsWon[1] = 0 /\ setsWon[2] = 0
         /\ setsWon[1] = Needed => ~ underway /\ sheet # <<>>
                                   /\ ~ (setsWon[2] = Needed /\ setsWon[1] < Needed)
         /\ MatchOver <=> setsWon[1] = Needed \/ setsWon[2] = Needed
<1>1. Played /\ SheetTypes
  BY DEF SheetInv
<1>2. PICK need \in Nat : need = Needed /\ need >= 1 /\ bestOf = 2 * need - 1
  BY <1>1, NeededFacts DEF SheetTypes
<1>3. PICK a \in Nat : a = setsWon[1]
  BY <1>1 DEF SheetTypes
<1>4. PICK b \in Nat : b = setsWon[2]
  BY <1>1 DEF SheetTypes
<1>5. PICK n \in Nat : n = Len(sheet)
  BY <1>1 DEF SheetTypes
<1>6. PICK s \in Nat : s = IF underway THEN 1 ELSE 0
  OBVIOUS
<1>7. a <= need /\ b <= need /\ ~ (a = need /\ b = need) /\ a + b + s = n
  BY <1>1, <1>2, <1>3, <1>4, <1>5, <1>6 DEF Played
<1>8. underway => a # need /\ b # need /\ s = 1
  BY <1>1, <1>2, <1>3, <1>4, <1>6 DEF Played
<1>9. ~ underway => s = 0
  BY <1>6
<1>10. n <= 2 * need - 1
  <2>1. CASE underway
    BY <1>7, <1>8, <2>1
  <2>2. CASE ~ underway
    BY <1>7, <1>9, <2>2
  <2> QED
    BY <2>1, <2>2
<1>11. ~ n > bestOf
  BY <1>2, <1>10
<1>12. sheet = <<>> => n = 0
  BY <1>5
<1>13. n = 0 => a = 0 /\ b = 0
  BY <1>6, <1>7
<1>14. MatchOver <=> a = need \/ b = need
  BY <1>1, <1>2, <1>3, <1>4, BothWon DEF SheetTypes
<1>15. a = need => ~ underway /\ n # 0 /\ ~ (b = need /\ a < need)
  BY <1>2, <1>7, <1>8, <1>13
<1> QED
  BY <1>2, <1>3, <1>4, <1>5, <1>11, <1>12, <1>13, <1>14, <1>15, Zenon

\* A sheet without mistakes passes exactly as the match could have ended.
LEMMA PlayedPasses ==
  ASSUME SheetInv, mistakes = 0, sheet # <<>>, NEW status \in {"completed", "broken off"}
  PROVE  ScoreValid(sheet, status) <=>
           IF status = "completed" THEN setsWon[1] = Needed ELSE ~ MatchOver
<1>1. Played /\ SheetTypes /\ sheet \in Seq(Tokens)
  BY DEF SheetInv, SheetTypes
<1>2. \A i \in 1..Len(sheet) : sheet[i].kind # "other"
  BY <1>1, Zenon DEF Played
<1>3. WonIn(sheet, 1, Len(sheet)) = setsWon[1] /\ WonIn(sheet, 2, Len(sheet)) = setsWon[2]
  BY <1>1 DEF Played
<1>4. ScoreValid(sheet, status) <=>
        /\ EndCodes(sheet, status) = {}
        /\ \A i \in 1..Len(sheet) : TokenPasses(sheet, Needed, status # "completed", i)
  BY <1>1, <1>2, VerdictWhen, Zenon
<1>5. EndCodes(sheet, status) = {} <=>
        /\ ~ Len(sheet) > bestOf
        /\ status = "completed" => setsWon[1] = Needed
                                   /\ ~ (setsWon[2] = Needed /\ setsWon[1] < Needed)
        /\ status # "completed" => setsWon[1] # Needed /\ setsWon[2] # Needed
  <2>1. /\ EndCodes(sheet, status) = {} <=>
           /\ ~ Len(sheet) > bestOf
           /\ status = "completed" => WonIn(sheet, 1, Len(sheet)) = Needed
                                      /\ ~ (WonIn(sheet, 2, Len(sheet)) = Needed
                                            /\ WonIn(sheet, 1, Len(sheet)) < Needed)
           /\ status # "completed" =>
                \A who \in {1, 2} : WonIn(sheet, who, Len(sheet)) # Needed
    BY EndCodesNone, Zenon
  <2>2. (\A who \in {1, 2} : WonIn(sheet, who, Len(sheet)) # Needed)
          <=> setsWon[1] # Needed /\ setsWon[2] # Needed
    BY <1>3, Zenon
  <2> QED
    BY <1>3, <2>1, <2>2, Zenon
<1>6. \A i \in 1..Len(sheet) : TokenPasses(sheet, Needed, TRUE, i)
  BY <1>1, Zenon DEF Played
<1>7. ~ underway => \A i \in 1..Len(sheet) : TokenPasses(sheet, Needed, FALSE, i)
  <2>1. SUFFICES ASSUME ~ underway, NEW i \in 1..Len(sheet)
                 PROVE  TokenPasses(sheet, Needed, FALSE, i)
    OBVIOUS
  <2>2. SetOver(sheet[i]) /\ TokenPasses(sheet, Needed, TRUE, i)
    BY <1>1, <2>1, Zenon DEF Played
  <2> QED
    BY <2>2, Zenon DEF TokenPasses
<1>8. CASE status = "completed"
  <2>1. (status # "completed") = FALSE
    BY <1>8
  <2> QED
    BY <1>4, <1>5, <1>7, <1>8, <2>1, SheetLength, Zenon
<1>9. CASE status # "completed"
  <2>1. (status # "completed") = TRUE
    BY <1>9
  <2> QED
    BY <1>4, <1>5, <1>6, <1>9, <2>1, SheetLength, Zenon
<1> QED
  BY <1>8, <1>9

\* And it counts as completed exactly when the match was played out.
LEMMA PlayedCompletes ==
  ASSUME SheetInv, mistakes = 0, setsWon[1] = Needed
  PROVE  ScoreCompleted(sheet, "completed")
<1>1. Played /\ SheetTypes /\ sheet \in Seq(Tokens)
  BY DEF SheetInv, SheetTypes
<1>2. sheet # <<>> /\ ~ underway /\ ~ Len(sheet) > bestOf /\ Len(sheet) \in Nat
  BY SheetLength, Zenon
<1>3. Len(sheet) <= bestOf
  <2>1. bestOf \in Nat
    BY <1>1, NeededFacts DEF SheetTypes
  <2> QED
    BY <1>2, <2>1
<1>4. DOMAIN sheet = 1..Len(sheet)
  BY <1>1
<1>5. \A i \in 1..Len(sheet) : sheet[i].kind # "other" /\ SetOver(sheet[i])
  BY <1>1, <1>2, Zenon DEF Played
<1>6. \A i \in 1..Len(sheet) : ~ DecidedBefore(sheet, i)
  BY <1>1, Zenon DEF Played, TokenPasses, DecidedBefore
<1>7. WonIn(sheet, 1, Len(sheet)) = Needed
  BY <1>1 DEF Played
<1> QED
  BY <1>2, <1>3, <1>4, <1>5, <1>6, <1>7, Zenon DEF ScoreCompleted

LEMMA AcceptedFromInv == SheetInv => SheetsAccepted
<1>1. SUFFICES ASSUME SheetInv, ending # "open"
               PROVE  /\ ScoreValid(sheet, ending) <=> CouldEnd /\ ~ EndedInOneWay
                      /\ CouldEnd => ScoreCompleted(sheet, ending) = (ending = "completed")
  <2>1. ScoreValid(sheet, ending) \in BOOLEAN /\ (~ EndedInOneWay) \in BOOLEAN
    BY DEF ScoreValid
  <2> QED
    BY <2>1, Zenon DEF SheetsAccepted
<1>2. ending \in Endings
  BY <1>1, Zenon DEF SheetInv
<1>3. ScoreValid(sheet, ending) \in BOOLEAN /\ CouldEnd \in BOOLEAN
      /\ ScoreCompleted(sheet, ending) \in BOOLEAN
  BY DEF ScoreValid, CouldEnd, ScoreCompleted
<1>4. CASE mistakes # 0
  <2>1. ~ ScoreValid(sheet, ending)
    BY <1>1, <1>2, <1>4, BlundersFail
  <2>2. ~ CouldEnd
    BY <1>4 DEF CouldEnd
  <2> QED
    BY <1>3, <2>1, <2>2, Zenon
<1>5. CASE mistakes = 0
  <2>6. ending # "broken off" => ~ EndedInOneWay
    BY Zenon DEF EndedInOneWay
  <2>7. "completed" # "broken off" /\ "walkover" # "broken off"
    BY Zenon
  <2>1. sheet = <<>> => ~ MatchOver /\ setsWon[1] # Needed
    <3>1. Needed >= 1 /\ Needed \in Nat
      BY <1>1, NeededFacts DEF SheetInv, SheetTypes
    <3>2. PICK z : z = 0
      OBVIOUS
    <3>3. Needed # z
      BY <3>1, <3>2
    <3>4. sheet = <<>> => setsWon[1] = z /\ setsWon[2] = z
      BY <1>1, <1>5, <3>2, SheetLength
    <3> QED
      BY <1>1, <1>5, <3>3, <3>4, SheetLength, Zenon
  <2>2. CASE ending = "misplaced"
    <3>1. ~ ScoreValid(sheet, ending)
      BY <2>2, MisplacedFails, Zenon
    <3>2. ~ CouldEnd
      BY <2>2, Zenon DEF CouldEnd
    <3> QED
      BY <1>3, <3>1, <3>2, Zenon
  <2>3. CASE ending = "walkover"
    <3>1. ScoreValid(sheet, ending) <=> sheet = <<>>
      BY <2>3, WalkoverPasses, Zenon
    <3>2. CouldEnd <=> sheet = <<>>
      BY <1>5, <2>3, Zenon DEF CouldEnd
    <3>3. ~ ScoreCompleted(sheet, ending)
      BY <2>3, Zenon DEF ScoreCompleted
    <3> QED
      BY <1>3, <2>3, <2>6, <2>7, <3>1, <3>2, <3>3, Zenon
  <2>4. CASE ending = "completed"
    <3>1. CouldEnd <=> setsWon[1] = Needed
      <4>1. CouldEnd <=> setsWon[1] = Needed /\ ~ underway
        BY <1>5, <2>4, Zenon DEF CouldEnd
      <4> QED
        BY <1>1, <1>5, <4>1, SheetLength, Zenon
    <3>2. ScoreValid(sheet, ending) <=> setsWon[1] = Needed
      <4>1. CASE sheet = <<>>
        <5>1. ~ ScoreValid(sheet, ending)
          BY <2>4, <4>1, EmptyPasses, Zenon
        <5> QED
          BY <2>1, <4>1, <5>1, Zenon
      <4>2. CASE sheet # <<>>
        BY <1>1, <1>5, <2>4, <4>2, PlayedPasses, Zenon
      <4> QED
        BY <4>1, <4>2
    <3>3. setsWon[1] = Needed => ScoreCompleted(sheet, ending)
      BY <1>1, <1>5, <2>4, PlayedCompletes, Zenon
    <3> QED
      BY <1>3, <2>4, <2>6, <2>7, <3>1, <3>2, <3>3, Zenon
  <2>5. CASE ending = "broken off"
    <3>1. CouldEnd <=> ~ MatchOver \/ LastGoesOn
      BY <1>5, <2>5, Zenon DEF CouldEnd
    <3>4. EndedInOneWay <=> MatchOver /\ LastGoesOn
      BY <2>5, Zenon DEF EndedInOneWay
    <3>2. ScoreValid(sheet, ending) <=> ~ MatchOver
      <4>1. CASE sheet = <<>>
        <5>1. ScoreValid(sheet, ending)
          <6>1. "broken off" # "completed"
            BY Zenon
          <6> QED
            BY <2>5, <4>1, <6>1, EmptyPasses, Zenon
        <5> QED
          BY <2>1, <4>1, <5>1, Zenon
      <4>2. CASE sheet # <<>>
        BY <1>1, <1>5, <2>5, <4>2, PlayedPasses, Zenon
      <4> QED
        BY <4>1, <4>2
    <3>3. ~ ScoreCompleted(sheet, ending)
      BY <2>5, Zenon DEF ScoreCompleted
    <3> QED
      BY <1>3, <2>5, <2>7, <3>1, <3>2, <3>3, <3>4, Zenon
  <2> QED
    BY <1>2, <2>2, <2>3, <2>4, <2>5, Zenon DEF Endings
<1> QED
  BY <1>4, <1>5

LEMMA SheetKeeps == SheetInv /\ [ScoreNext]_scoreVars => SheetInv'
<1> SUFFICES ASSUME SheetInv, [ScoreNext]_scoreVars PROVE SheetInv'
  OBVIOUS
<1>1. ASSUME NEW t \in Tokens, WriteSet(t) PROVE SheetInv'
  BY <1>1, WriteKeepsSheet
<1>2. ASSUME UNCHANGED <<sheet, bestOf, setsWon, underway, mistakes>>,
             ending' \in Endings \cup {"open"}
      PROVE  SheetInv'
  <2>1. Needed' = Needed
    BY <1>2 DEF Needed
  <2>2. (SheetTypes <=> SheetTypes') /\ (Played <=> Played')
    BY <1>2, <2>1, Zenon DEF SheetTypes, Played
  <2> QED
    BY <1>2, <2>1, <2>2, Zenon DEF SheetInv
<1>3. ASSUME NEW status \in Endings, WriteStatus(status) PROVE SheetInv'
  <2>1. ending' \in Endings \cup {"open"}
    BY <1>3, Zenon DEF WriteStatus
  <2> QED
    BY <1>2, <1>3, <2>1 DEF WriteStatus
<1>4. CASE UNCHANGED scoreVars
  <2>1. ending' \in Endings \cup {"open"}
    BY <1>4, Zenon DEF SheetInv, scoreVars
  <2> QED
    BY <1>2, <1>4, <2>1 DEF scoreVars
<1> QED
  BY <1>1, <1>3, <1>4 DEF ScoreNext

\* A score that is accepted is one a match could have been played to and have
\* ended so, and counts as completed exactly when that match was played out; of
\* those a match could have been played to, the ones broken off in a set that
\* only some way of playing ends, and that won would have been the match, are
\* turned away and no others, for any texts and any number of sets
\* (validate_score).
THEOREM SheetsAlwaysAccepted == ScoreSpec => []SheetsAccepted
<1>1. ScoreSpec => []SheetInv
  BY SheetStarts, SheetKeeps, PTL DEF ScoreSpec
<1> QED
  BY <1>1, AcceptedFromInv, PTL
=============================================================================
