------------------------ MODULE ParticipationHistory ------------------------
(***************************************************************************)
(* What the official reports of ended matches say of the players: the      *)
(* retirement fit of a tour (B6) and the inactivity record of a player     *)
(* (C6).  Reports are appended, and a later one of the same match corrects *)
(* an earlier one; both are built for an information cutoff and may use    *)
(* only what was available strictly before it, whenever they are built.    *)
(*                                                                         *)
(* Instants are days, so that a report can come exactly at a cutoff.  The  *)
(* recency weight of a start is the constant Weight of its age, and the    *)
(* beta posteriors, which are functions of the totals y and n, stay out.   *)
(***************************************************************************)
EXTENDS Naturals, FiniteSets, FiniteSetsExt

CONSTANTS Reports,       \* what a report may say of a match
          Days,          \* the last day
          Window,        \* RETIREMENT_WINDOW_DAYS
          Weight,        \* the recency weight of each age in the window
          MinimumStarts, \* RETIREMENT_MINIMUM_WEIGHTED_TOUR_STARTS
          Threshold,     \* INACTIVITY_THRESHOLD_DAYS
          Coverages,     \* coverage assertions of a tour's history
          Assertions,    \* coverage assertions of a player's history
          Starts,        \* scheduled start days
          MaxReports, MaxBuilt

\* Only the first four are told apart.
TerminalStatuses == {"normal", "retirement", "walkover", "default", "other"}

ASSUME HistoryAssumption ==
  /\ Days \in Nat /\ Window \in Nat /\ Threshold \in Nat /\ MinimumStarts \in Nat
  /\ Weight \in [0..Window -> Nat \ {0}]
  /\ \A r \in Reports : r.date \in Nat /\ r.a # r.b /\ r.status \in TerminalStatuses

VARIABLES day,      \* now
          history,  \* the reports so far, each with the day it was available
          fits,     \* the retirement artifacts in use
          absences  \* the inactivity records

historyVars == <<day, history, fits, absences>>

HistoryInit == day = 0 /\ history = {} /\ fits = {} /\ absences = {}

Nobody == "nobody"
HistoryPlayers == UNION {{r.a, r.b} : r \in Reports}
Tours == {r.tour : r \in Reports}
Dated(report, available) == [report |-> report, available |-> available]

-----------------------------------------------------------------------------
\* normalize_historical_termination: the facts must agree with the status,
\* and nothing is repaired.
Facts(r) == r.retiree # Nobody \/ r.timed
Ambiguous(r) ==
  \/ {r.retiree, r.winner} \ {r.a, r.b, Nobody} # {}
  \/ r.anomaly
  \/ r.status = "normal" /\ (Facts(r) \/ ~ r.started)
  \/ r.status = "retirement" /\ (~ r.started \/ r.retiree \in {Nobody, r.winner})
  \/ r.status = "walkover" /\ (r.started \/ Facts(r))
  \/ r.status = "default" /\ Facts(r)
  \/ r.status = "other"
TerminalClass(r) == IF Ambiguous(r) THEN "ambiguous" ELSE r.status
Eligible(r) == TerminalClass(r) \in {"normal", "retirement"}

\* The last report of each match that was available before the cutoff; two
\* different ones at the same instant are a conflict, and no order decides.
\* Fault: a report at the cutoff itself is used.
VisibleAtCutoff(cutoff) == {f \in history : f.available <= cutoff}
Visible(cutoff) == {f \in history : f.available < cutoff}
SameMatch(f, g) == f.report.tour = g.report.tour /\ f.report.match = g.report.match
Latest(cutoff) ==
  {f \in Visible(cutoff) :
     \A g \in Visible(cutoff) : SameMatch(f, g) => g.available <= f.available}
Conflicting(cutoff) ==
  \E f, g \in Latest(cutoff) : f # g /\ SameMatch(f, g)

-----------------------------------------------------------------------------
\* build_retirement_observations: a reason not to use a match, or else two
\* rows, one for each player.
Exclusion(f, cutoff) ==
  IF f.available >= cutoff THEN "at or after cutoff"
  ELSE IF f.report.date > cutoff THEN "after cutoff date"
  ELSE IF cutoff > f.report.date + Window THEN "outside window"
  ELSE IF Eligible(f.report) THEN "none" ELSE TerminalClass(f.report)
Row(f, player, cutoff) ==
  [match |-> f.report.match, tour |-> f.report.tour, player |-> player,
   opponent |-> IF player = f.report.a THEN f.report.b ELSE f.report.a,
   age |-> cutoff - f.report.date, class |-> TerminalClass(f.report),
   retired |-> f.report.status = "retirement" /\ player = f.report.retiree]
\* Fault: a retirement is a start of the retiree alone.
RetireeRows(f, cutoff) ==
  {Row(f, p, cutoff) :
     p \in IF f.report.status = "retirement" THEN {f.report.retiree}
                                             ELSE {f.report.a, f.report.b}}
RowsOf(f, cutoff) == {Row(f, p, cutoff) : p \in {f.report.a, f.report.b}}
Batch(cutoff) ==
  [rows |-> UNION {RowsOf(f, cutoff) :
                     f \in {g \in Latest(cutoff) : Exclusion(g, cutoff) = "none"}},
   excluded |-> {[match |-> f.report.match, tour |-> f.report.tour,
                  reason |-> Exclusion(f, cutoff)] :
                   f \in {g \in Latest(cutoff) : Exclusion(g, cutoff) # "none"}}]

\* RetirementObservationBatch: every included match has its two players, in
\* the same class and of the same age, and as many of them retired as the class
\* says; no match is excluded twice, or both excluded and included.
BatchAccepted(batch) ==
  LET Key(x) == <<x.match, x.tour>>
  IN  /\ \A d, e \in batch.excluded : Key(d) = Key(e) => d = e
      /\ \A x \in batch.rows :
           LET pair == {y \in batch.rows : Key(y) = Key(x)}
           IN  /\ Cardinality(pair) = 2
               /\ {y.player : y \in pair} = {y.opponent : y \in pair}
               /\ \A y \in pair : y.age = x.age /\ y.class = x.class
               /\ Cardinality({y \in pair : y.retired}) =
                    IF x.class = "retirement" THEN 1 ELSE 0
               /\ \A e \in batch.excluded : Key(e) # Key(x)

Weighted(rows) == MapThenSumSet(LAMBDA x : Weight[x.age], rows)
Totals(rows) ==
  [y |-> Weighted({x \in rows : x.retired}), n |-> Weighted(rows)]
MayFit(coverage) == coverage.complete \/ coverage.exact
\* The counts of each reason: _reason_counts
ReasonCounts(excluded) ==
  [r \in {e.reason : e \in excluded} |->
     Cardinality({e \in excluded : e.reason = r})]

\* fit_retirement_artifact, for one tour
Fitted(tour, cutoff, coverage) ==
  LET batch == Batch(cutoff)
      rows == {x \in batch.rows : x.tour = tour}
      total == Totals(rows)
      enough == total.n >= MinimumStarts
  IN  [tour |-> tour, cutoff |-> cutoff, coverage |-> coverage,
       total |-> total,
       players |-> [p \in {x.player : x \in rows} |->
                      Totals({x \in rows : x.player = p})],
       counts |-> ReasonCounts({e \in batch.excluded : e.tour = tour}),
       enough |-> enough, production |-> enough /\ MayFit(coverage)]

\* The validator of RetirementFitArtifact
FitAccepted(fit) ==
  LET Sum(total(_)) ==
        MapThenSumSet(LAMBDA p : total(fit.players[p]), DOMAIN fit.players)
      Y(t) == t.y
      N(t) == t.n
  IN  /\ fit.coverage.tour = fit.tour
      /\ fit.coverage.verified < fit.cutoff
      /\ fit.total.y <= fit.total.n
      /\ Sum(Y) = fit.total.y /\ Sum(N) = fit.total.n
      /\ \A p \in DOMAIN fit.players : fit.players[p].y <= fit.players[p].n
      /\ fit.enough = (fit.total.n >= MinimumStarts)
      /\ fit.production = (fit.enough /\ MayFit(fit.coverage))

Reissued(fit, coverage) ==
  [fit EXCEPT !.coverage = coverage, !.production = fit.enough /\ MayFit(coverage)]

-----------------------------------------------------------------------------
\* The rows of a report for one player: an InactivityMatchCandidate.  What a
\* correction replaces is the row of the same match and the same player.
About(player) == {f \in history : player \in {f.report.a, f.report.b}}
\* A walkover or a withdrawal, as TERMINAL_STATUS has them.
\* Fault: so is a retirement.
LeftEarly(r) == r.status \in {"walkover", "retirement"}
NeverPlayed(r) == r.status = "walkover"
Counts(f, tour, cutoff, assertion) ==
  /\ f.report.tour = tour
  /\ f.report.manifest = assertion.manifest
  /\ f.available < cutoff
  /\ f.report.resolved
  /\ f.report.singles
  /\ ~ f.report.exhibition
  /\ ~ NeverPlayed(f.report)
  /\ f.report.started
Unresolved(f, tour, cutoff, assertion) ==
  /\ f.report.tour = tour
  /\ f.report.manifest = assertion.manifest
  /\ f.available < cutoff
  /\ ~ f.report.resolved

Current(player, cutoff) ==
  LET seen == Visible(cutoff) \cap About(player)
  IN  {f \in seen : \A g \in seen : SameMatch(f, g) => g.available <= f.available}

\* inactivity_factors: the mean is shrunk by 2^(-gap / 180) and the variance
\* inflated where the gap is positive.
Gap(idle) == IF idle <= Threshold THEN 0 ELSE idle - Threshold

\* InactivityMayBuild has the refusals of build_inactivity_record.
Certain(player, tour, cutoff, assertion) ==
  LET current == Current(player, cutoff)
  IN  /\ assertion.complete /\ assertion.player = player
      /\ assertion.asserted < cutoff
      /\ \A f, g \in current : SameMatch(f, g) => f = g
      /\ \A f \in current : ~ Unresolved(f, tour, cutoff, assertion)

Absence(player, tour, start, cutoff, assertion) ==
  LET counted == {f \in Current(player, cutoff) :
                    Counts(f, tour, cutoff, assertion)}
      last == Max({f.report.date : f \in counted})
      cold == counted = {}
  IN  [player |-> player, tour |-> tour, start |-> start, cutoff |-> cutoff,
       assertion |-> assertion, cold |-> cold,
       last |-> IF cold THEN 0 ELSE last,
       gap |-> IF cold \/ last > start THEN 0 ELSE Gap(start - last)]

-----------------------------------------------------------------------------
Tomorrow ==
  /\ day < Days
  /\ day' = day + 1
  /\ UNCHANGED <<history, fits, absences>>

\* A source is captured; the crawl may repeat or correct what is known.
Report(r) ==
  /\ Cardinality(history) < MaxReports
  /\ history' = history \cup {Dated(r, day)}
  /\ UNCHANGED <<day, fits, absences>>

\* Where the batch conflicts, or is not accepted, nothing is made.
Fit(tour, cutoff, coverage) ==
  /\ Cardinality(fits) < MaxBuilt
  /\ cutoff <= day
  /\ coverage.tour = tour /\ coverage.verified < cutoff
  /\ ~ Conflicting(cutoff) /\ BatchAccepted(Batch(cutoff))
  /\ fits' = fits \cup {Fitted(tour, cutoff, coverage)}
  /\ UNCHANGED <<day, history, absences>>

\* reissue_retirement_fit_eligibility_metadata: a lock takes the new one in
\* the place of the old.
Reissue(fit, coverage) ==
  /\ coverage.tour = fit.tour /\ coverage.verified < fit.cutoff
  /\ fits' = (fits \ {fit}) \cup {Reissued(fit, coverage)}
  /\ UNCHANGED <<day, history, absences>>

BuildAbsence(player, tour, start, cutoff, assertion) ==
  /\ Cardinality(absences) < MaxBuilt
  /\ Certain(player, tour, cutoff, assertion)
  /\ LET absence == Absence(player, tour, start, cutoff, assertion)
     IN  /\ absence.last <= start
         /\ absences' = absences \cup {absence}
  /\ UNCHANGED <<day, history, fits>>

\* Nothing in the builder compares a cutoff with the day: a lock asks for a
\* record of a cutoff that has come.
HistoryNext ==
  \/ Tomorrow
  \/ \E r \in Reports : Report(r)
  \/ \E tour \in Tours, cutoff \in 0..day, c \in Coverages : Fit(tour, cutoff, c)
  \/ \E fit \in fits, c \in Coverages : Reissue(fit, c)
  \/ \E p \in HistoryPlayers, tour \in Tours, start \in Starts, cutoff \in 0..day,
        a \in Assertions : BuildAbsence(p, tour, start, cutoff, a)

HistorySpec == HistoryInit /\ [][HistoryNext]_historyVars

-----------------------------------------------------------------------------
\* A fit or a record says what would be built today for the same cutoff: no
\* later report, correction or conflict changes it.
RebuildAgrees ==
  /\ \A fit \in fits :
       /\ ~ Conflicting(fit.cutoff)
       /\ Fitted(fit.tour, fit.cutoff, fit.coverage) = fit
  /\ \A x \in absences :
       /\ Certain(x.player, x.tour, x.cutoff, x.assertion)
       /\ Absence(x.player, x.tour, x.start, x.cutoff, x.assertion) = x

\* Every batch that can be built now is accepted by its validator, and so is
\* every fit and every reissue of one.
FitsAccepted ==
  /\ \A cutoff \in 0..day : ~ Conflicting(cutoff) => BatchAccepted(Batch(cutoff))
  /\ \A fit \in fits : FitAccepted(fit)

\* The two histories agree: who has a weighted start in the fit of a cutoff
\* is not a cold start of that cutoff, and has been away no longer.  (Reports
\* of doubles, of exhibitions and of other manifests are C6's alone to judge.)
StartsSeenByBoth ==
  \A x \in absences :
    LET cutoff == x.cutoff
        counted == {f \in Latest(cutoff) :
                      /\ Exclusion(f, cutoff) = "none"
                      /\ f.report.tour = x.tour
                      /\ x.player \in {f.report.a, f.report.b}
                      /\ f.report.singles /\ ~ f.report.exhibition
                      /\ f.report.manifest = x.assertion.manifest}
    IN  \A f \in counted : ~ x.cold /\ f.report.date <= x.last
=============================================================================
