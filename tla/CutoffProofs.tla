----------------------------- MODULE CutoffProofs -----------------------------
(***************************************************************************)
(* Theorems about what is known by a cutoff: the participation histories   *)
(* of the players (ParticipationHistory), the captures of the current      *)
(* event (CurrentEvent), the locks (LockService) and the ratings built     *)
(* before an event and taken through it (EloRatings), for any reports, any *)
(* course of the event, any requests and any files. Where a definition     *)
(* takes the last of finitely many revisions or artifacts, MaxOfFinite     *)
(* says that there is one.                                                 *)
(***************************************************************************)
EXTENDS ParticipationHistory, CurrentEvent, LockService, EloRatings, SequenceTheorems,
        FiniteNumbers, FiniteSetTheorems, TLAPS

(* Participation histories *)

\* Reports were available on the day they were made, and what is built has a
\* cutoff that was not in the future.
ReportsInv ==
  /\ day \in Nat
  /\ IsFiniteSet(history)
  /\ \A f \in history : f.report \in Reports /\ f.available \in 0..day

FitOfToday(fit) ==
  /\ fit.cutoff \in 0..day
  /\ ~ Conflicting(fit.cutoff)
  /\ fit = Fitted(fit.tour, fit.cutoff, fit.coverage)
  /\ fit.coverage.tour = fit.tour /\ fit.coverage.verified < fit.cutoff
AbsenceOfToday(x) ==
  /\ x.cutoff \in 0..day
  /\ x.last <= x.start
  /\ Certain(x.player, x.tour, x.cutoff, x.assertion)
  /\ x = Absence(x.player, x.tour, x.start, x.cutoff, x.assertion)

HistoryInv ==
  /\ ReportsInv
  /\ \A fit \in fits : FitOfToday(fit)
  /\ \A x \in absences : AbsenceOfToday(x)

\* A report of today is later than every cutoff that has been used.
LEMMA LaterReportUnseen ==
  ASSUME ReportsInv, NEW cutoff \in 0..day, NEW r \in Reports, Report(r)
  PROVE  Visible(cutoff)' = Visible(cutoff)
<1>1. \A f \in history' : f \in history \/ (f = Dated(r, day))
  BY DEF Report
<1>2. ~ Dated(r, day).available < cutoff
  BY DEF ReportsInv, Dated
<1> QED
  BY <1>1, <1>2 DEF Report, Visible

\* Everything that is built for a cutoff is built from what is visible at it.
LEMMA BuiltFromVisible ==
  ASSUME NEW cutoff, Visible(cutoff)' = Visible(cutoff)
  PROVE  /\ Conflicting(cutoff)' = Conflicting(cutoff)
         /\ \A tour, coverage :
              Fitted(tour, cutoff, coverage)' = Fitted(tour, cutoff, coverage)
<1>1. Latest(cutoff)' = Latest(cutoff)
  BY DEF Latest
<1>2. Batch(cutoff)' = Batch(cutoff)
  BY <1>1 DEF Batch
<1> QED
  BY <1>1, <1>2 DEF Conflicting, Fitted

LEMMA AbsenceFromVisible ==
  ASSUME NEW cutoff, Visible(cutoff)' = Visible(cutoff), Visible(cutoff) \subseteq history,
         history \subseteq history'
  PROVE  \A player, tour, start, assertion :
           /\ Certain(player, tour, cutoff, assertion)'
                = Certain(player, tour, cutoff, assertion)
           /\ Absence(player, tour, start, cutoff, assertion)'
                = Absence(player, tour, start, cutoff, assertion)
<1>1. TAKE player, tour, start, assertion
<1>2. (Visible(cutoff) \cap About(player))' = Visible(cutoff) \cap About(player)
  BY DEF About
<1>3. Current(player, cutoff)' = Current(player, cutoff)
  BY <1>2 DEF Current
<1> QED
  BY <1>3 DEF Certain, Absence

LEMMA ReportKeeps ==
  ASSUME HistoryInv, NEW r \in Reports, Report(r)
  PROVE  HistoryInv'
<1>1. ReportsInv'
  <2>1. history' = history \cup {Dated(r, day)} /\ day' = day
    BY DEF Report
  <2>2. IsFiniteSet(history')
    BY <2>1, FS_AddElement DEF HistoryInv, ReportsInv
  <2> QED
    BY <2>1, <2>2 DEF HistoryInv, ReportsInv, Dated
<1>2. ASSUME NEW cutoff \in 0..day
      PROVE  /\ Visible(cutoff)' = Visible(cutoff)
             /\ Visible(cutoff) \subseteq history
             /\ history \subseteq history'
  BY LaterReportUnseen DEF HistoryInv, Visible, Report
<1>3. ASSUME NEW fit \in fits' PROVE FitOfToday(fit)'
  <2>1. fit \in fits /\ FitOfToday(fit) /\ fit.cutoff \in 0..day /\ day' = day
    BY DEF Report, HistoryInv, FitOfToday
  <2>2. Visible(fit.cutoff)' = Visible(fit.cutoff)
    BY <1>2, <2>1
  <2> QED
    BY <2>1, <2>2, BuiltFromVisible DEF FitOfToday
<1>4. ASSUME NEW x \in absences' PROVE AbsenceOfToday(x)'
  <2>1. x \in absences /\ AbsenceOfToday(x) /\ x.cutoff \in 0..day /\ day' = day
    BY DEF Report, HistoryInv, AbsenceOfToday
  <2> DEFINE c == x.cutoff
  <2>2. Visible(c)' = Visible(c) /\ Visible(c) \subseteq history /\ history \subseteq history'
    BY <1>2, <2>1
  <2>3. \A player, tour, start, assertion :
           /\ Certain(player, tour, c, assertion)' = Certain(player, tour, c, assertion)
           /\ Absence(player, tour, start, c, assertion)'
                = Absence(player, tour, start, c, assertion)
    BY <2>2, AbsenceFromVisible
  <2> QED
    BY <2>1, <2>3 DEF AbsenceOfToday
<1> QED
  BY <1>1, <1>3, <1>4 DEF HistoryInv

\* What does not touch the reports leaves what is visible and what is built.
LEMMA SameHistory ==
  ASSUME HistoryInv, UNCHANGED history, day' \in Nat, day <= day'
  PROVE  /\ ReportsInv'
         /\ \A fit : FitOfToday(fit) => FitOfToday(fit)'
         /\ \A x : AbsenceOfToday(x) => AbsenceOfToday(x)'
<1>1. ReportsInv'
  BY DEF HistoryInv, ReportsInv
<1>2. ASSUME NEW cutoff
      PROVE  /\ Visible(cutoff)' = Visible(cutoff)
             /\ Visible(cutoff) \subseteq history
             /\ history \subseteq history'
  BY DEF Visible
<1>3. \A cutoff \in 0..day : cutoff \in 0..day'
  BY DEF HistoryInv, ReportsInv
<1>4. ASSUME NEW fit, FitOfToday(fit) PROVE FitOfToday(fit)'
  <2>1. Visible(fit.cutoff)' = Visible(fit.cutoff)
    BY <1>2
  <2> QED
    BY <2>1, <1>3, <1>4, BuiltFromVisible DEF FitOfToday
<1>5. ASSUME NEW x, AbsenceOfToday(x) PROVE AbsenceOfToday(x)'
  <2> DEFINE c == x.cutoff
  <2>1. Visible(c)' = Visible(c) /\ Visible(c) \subseteq history /\ history \subseteq history'
    BY <1>2
  <2>2. \A player, tour, start, assertion :
           /\ Certain(player, tour, c, assertion)' = Certain(player, tour, c, assertion)
           /\ Absence(player, tour, start, c, assertion)'
                = Absence(player, tour, start, c, assertion)
    BY <2>1, AbsenceFromVisible
  <2> QED
    BY <2>2, <1>3, <1>5 DEF AbsenceOfToday
<1> QED
  BY <1>1, <1>4, <1>5

LEMMA TomorrowKeeps ==
  ASSUME HistoryInv, Tomorrow
  PROVE  HistoryInv'
<1>1. UNCHANGED <<history, fits, absences>> /\ day' \in Nat /\ day <= day'
  BY DEF Tomorrow, HistoryInv, ReportsInv
<1> QED
  BY <1>1, SameHistory DEF HistoryInv

LEMMA FitKeeps ==
  ASSUME HistoryInv, NEW tour, NEW cutoff \in 0..day, NEW coverage,
         Fit(tour, cutoff, coverage)
  PROVE  HistoryInv'
<1> DEFINE new == Fitted(tour, cutoff, coverage)
<1>1. /\ UNCHANGED <<day, history, absences>> /\ day' \in Nat /\ day <= day'
      /\ ~ Conflicting(cutoff) /\ fits' = fits \cup {new}
      /\ coverage.tour = tour /\ coverage.verified < cutoff
  BY DEF Fit, HistoryInv, ReportsInv
<1>2. new.tour = tour /\ new.cutoff = cutoff /\ new.coverage = coverage
  BY DEF Fitted
<1>3. FitOfToday(new)
  <2> HIDE DEF new
  <2>1. new = Fitted(new.tour, new.cutoff, new.coverage)
    BY <1>2 DEF new
  <2> QED
    BY <1>1, <1>2, <2>1 DEF FitOfToday
<1>4. \A fit \in fits' : FitOfToday(fit)
  BY <1>1, <1>3 DEF HistoryInv
<1> HIDE DEF new
<1> QED
  BY <1>1, <1>4, SameHistory DEF HistoryInv

\* A reissue is the fit that would be made now with the other assertion.
LEMMA ReissuedIsFitted ==
  ASSUME NEW tour, NEW cutoff, NEW coverage, NEW other
  PROVE  Reissued(Fitted(tour, cutoff, coverage), other) = Fitted(tour, cutoff, other)
<1> DEFINE made == Batch(cutoff)
           kept == {x \in made.rows : x.tour = tour}
           total == Totals(kept)
           players == [p \in {x.player : x \in kept} |->
                         Totals({x \in kept : x.player = p})]
           counts == ReasonCounts({e \in made.excluded : e.tour = tour})
           enough == total.n >= MinimumStarts
           Made(c) == [tour |-> tour, cutoff |-> cutoff, coverage |-> c,
                       total |-> total, players |-> players, counts |-> counts,
                       enough |-> enough, production |-> enough /\ MayFit(c)]
<1>1. \A c : Fitted(tour, cutoff, c) = Made(c)
  BY Zenon DEF Fitted
<1> HIDE DEF total, players, counts, enough
<1>2. \A b : [[Made(coverage) EXCEPT !.coverage = other] EXCEPT !.production = b]
               = [Made(coverage) EXCEPT !.coverage = other, !.production = b]
  OBVIOUS
<1>3. Made(coverage).enough = enough
  OBVIOUS
<1>4. [Made(coverage) EXCEPT !.coverage = other]
        = [Made(other) EXCEPT !.production = enough /\ MayFit(coverage)]
  OBVIOUS
<1>5. \A p, q : [[Made(other) EXCEPT !.production = p] EXCEPT !.production = q]
                  = [Made(other) EXCEPT !.production = q]
  OBVIOUS
<1>6. [Made(other) EXCEPT !.production = enough /\ MayFit(other)] = Made(other)
  OBVIOUS
<1> HIDE DEF Made
<1> QED
  BY <1>1, <1>2, <1>3, <1>4, <1>5, <1>6 DEF Reissued

LEMMA ReissueKeeps ==
  ASSUME HistoryInv, NEW fit \in fits, NEW coverage, Reissue(fit, coverage)
  PROVE  HistoryInv'
<1> DEFINE new == Reissued(fit, coverage)
<1>1. /\ UNCHANGED <<day, history, absences>> /\ day' \in Nat /\ day <= day'
      /\ fits' = (fits \ {fit}) \cup {new}
      /\ coverage.tour = fit.tour /\ coverage.verified < fit.cutoff
  BY DEF Reissue, HistoryInv, ReportsInv
<1>2. new = Fitted(fit.tour, fit.cutoff, coverage)
  BY ReissuedIsFitted DEF HistoryInv, FitOfToday
<1>3. new.tour = fit.tour /\ new.cutoff = fit.cutoff /\ new.coverage = coverage
  BY <1>2 DEF Fitted
<1>4. FitOfToday(new)
  <2> HIDE DEF new
  <2>1. new = Fitted(new.tour, new.cutoff, new.coverage)
    BY <1>2, <1>3
  <2> QED
    BY <1>1, <1>3, <2>1 DEF FitOfToday, HistoryInv
<1>5. \A f \in fits' : FitOfToday(f)
  BY <1>1, <1>4 DEF HistoryInv
<1> HIDE DEF new
<1> QED
  BY <1>1, <1>5, SameHistory DEF HistoryInv

LEMMA AbsenceKeeps ==
  ASSUME HistoryInv, NEW player, NEW tour, NEW start, NEW cutoff \in 0..day,
         NEW assertion, BuildAbsence(player, tour, start, cutoff, assertion)
  PROVE  HistoryInv'
<1> DEFINE new == Absence(player, tour, start, cutoff, assertion)
<1>1. /\ UNCHANGED <<day, history, fits>> /\ day' \in Nat /\ day <= day'
      /\ Certain(player, tour, cutoff, assertion)
      /\ new.last <= start
      /\ absences' = absences \cup {new}
  BY DEF BuildAbsence, HistoryInv, ReportsInv
<1>2. /\ new.player = player /\ new.tour = tour /\ new.start = start
      /\ new.cutoff = cutoff /\ new.assertion = assertion
  BY DEF Absence
<1>3. AbsenceOfToday(new)
  <2> HIDE DEF new
  <2>1. new = Absence(new.player, new.tour, new.start, new.cutoff, new.assertion)
    BY <1>2 DEF new
  <2> QED
    BY <1>1, <1>2, <2>1 DEF AbsenceOfToday
<1>4. \A x \in absences' : AbsenceOfToday(x)
  BY <1>1, <1>3 DEF HistoryInv
<1> HIDE DEF new
<1> QED
  BY <1>1, <1>4, SameHistory DEF HistoryInv

LEMMA HistoryKeeps == HistoryInv /\ [HistoryNext]_historyVars => HistoryInv'
<1> SUFFICES ASSUME HistoryInv, [HistoryNext]_historyVars PROVE HistoryInv'
  OBVIOUS
<1>1. CASE Tomorrow
  BY <1>1, TomorrowKeeps
<1>2. CASE \E r \in Reports : Report(r)
  BY <1>2, ReportKeeps
<1>3. CASE \E tour \in Tours, cutoff \in 0..day, c \in Coverages : Fit(tour, cutoff, c)
  BY <1>3, FitKeeps
<1>4. CASE \E fit \in fits, c \in Coverages : Reissue(fit, c)
  BY <1>4, ReissueKeeps
<1>5. CASE \E p \in HistoryPlayers, tour \in Tours, start \in Starts, cutoff \in 0..day,
              a \in Assertions : BuildAbsence(p, tour, start, cutoff, a)
  BY <1>5, AbsenceKeeps
<1>6. CASE UNCHANGED historyVars
  <2>1. UNCHANGED <<day, history, fits, absences>> /\ day' \in Nat /\ day <= day'
    BY <1>6 DEF historyVars, HistoryInv, ReportsInv
  <2> QED
    BY <2>1, SameHistory DEF HistoryInv
<1> QED
  BY <1>1, <1>2, <1>3, <1>4, <1>5, <1>6 DEF HistoryNext

LEMMA HistoryStarts == HistoryInit => HistoryInv
BY FS_EmptySet DEF HistoryInit, HistoryInv, ReportsInv

\* The reports a fit and an absence were made from, for any reports in any
\* order: whatever is reported or corrected later, making them again for the
\* same cutoff gives the same, and a reissue changes only what it asserts.
THEOREM RebuildsAgree == HistorySpec => []RebuildAgrees
<1>1. HistoryInv => RebuildAgrees
  BY DEF HistoryInv, FitOfToday, AbsenceOfToday, RebuildAgrees
<1> QED
  BY <1>1, HistoryStarts, HistoryKeeps, PTL DEF HistorySpec

\* What is used has a report that contradicts nothing.
LEMMA UsedIsEligible ==
  ASSUME NEW f, f.report \in Reports, NEW cutoff, Exclusion(f, cutoff) = "none"
  PROVE  ~ Ambiguous(f.report) /\ f.report.status \in {"normal", "retirement"}
<1>1. Exclusion(f, cutoff) \in
        {"at or after cutoff", "after cutoff date", "outside window",
         IF Eligible(f.report) THEN "none" ELSE TerminalClass(f.report)}
  BY Zenon DEF Exclusion
<1>2. f.report.status \in TerminalStatuses
  BY HistoryAssumption
<1>3. TerminalClass(f.report) # "none"
  BY <1>2 DEF TerminalClass, TerminalStatuses
<1>4. Eligible(f.report)
  BY <1>1, <1>3
<1> QED
  BY <1>4 DEF Eligible, TerminalClass

\* A match that is used has one row for each player, and no other has.
LEMMA BatchIsAccepted ==
  ASSUME ReportsInv, NEW cutoff \in 0..day, ~ Conflicting(cutoff)
  PROVE  BatchAccepted(Batch(cutoff))
<1>1. PICK used : used = {g \in Latest(cutoff) : Exclusion(g, cutoff) = "none"}
  OBVIOUS
<1>2. PICK made : made = Batch(cutoff)
  OBVIOUS
<1>3. /\ made.rows = UNION {RowsOf(f, cutoff) : f \in used}
      /\ made.excluded = {[match |-> f.report.match, tour |-> f.report.tour,
                            reason |-> Exclusion(f, cutoff)] :
                             f \in {g \in Latest(cutoff) : Exclusion(g, cutoff) # "none"}}
  BY <1>1, <1>2 DEF Batch
<1>4. \A f, g \in Latest(cutoff) : SameMatch(f, g) => f = g
  BY DEF Conflicting
<1>5. ASSUME NEW x \in made.rows, NEW pair,
             pair = {y \in made.rows : <<y.match, y.tour>> = <<x.match, x.tour>>}
      PROVE  /\ Cardinality(pair) = 2
             /\ {y.player : y \in pair} = {y.opponent : y \in pair}
             /\ \A y \in pair : y.age = x.age /\ y.class = x.class
             /\ Cardinality({y \in pair : y.retired}) =
                  IF x.class = "retirement" THEN 1 ELSE 0
             /\ \A e \in made.excluded : <<e.match, e.tour>> # <<x.match, x.tour>>
  <2>1. PICK f \in used : x \in RowsOf(f, cutoff)
    BY <1>3
  <2>2. f \in Latest(cutoff) /\ Exclusion(f, cutoff) = "none" /\ f.report \in Reports
    BY <1>1 DEF Latest, Visible, ReportsInv
  <2>3. PICK u : u = Row(f, f.report.a, cutoff)
    OBVIOUS
  <2>4. PICK v : v = Row(f, f.report.b, cutoff)
    OBVIOUS
  <2>5. RowsOf(f, cutoff) = {u, v}
    BY <2>3, <2>4 DEF RowsOf
  <2>6. /\ u.match = f.report.match /\ u.tour = f.report.tour /\ u.age = v.age
        /\ v.match = f.report.match /\ v.tour = f.report.tour
        /\ u.player = f.report.a /\ v.player = f.report.b /\ u # v
        /\ u.opponent = f.report.b /\ v.opponent = f.report.a
        /\ u.class = TerminalClass(f.report) /\ v.class = u.class
    BY <2>2, <2>3, <2>4, HistoryAssumption DEF Row
  <2>7. /\ x.match = f.report.match /\ x.tour = f.report.tour
        /\ x.age = u.age /\ x.class = u.class
    BY <2>1, <2>5, <2>6
  <2>8. pair = {u, v}
    <3>1. u \in pair /\ v \in pair
      BY <1>3, <1>5, <2>1, <2>5, <2>6, <2>7
    <3>2. ASSUME NEW y \in pair PROVE y \in {u, v}
      <4>1. PICK g \in used : y \in RowsOf(g, cutoff)
        BY <1>3, <1>5, <3>2
      <4>2. y.match = g.report.match /\ y.tour = g.report.tour
        BY <4>1 DEF RowsOf, Row
      <4>3. SameMatch(f, g)
        BY <1>5, <2>7, <3>2, <4>2 DEF SameMatch
      <4>4. f = g
        BY <1>1, <1>4, <2>2, <4>3
      <4>5. QED
        BY <2>5, <4>1, <4>4
    <3>3. QED
      BY <3>1, <3>2
  <2>9. IsFiniteSet({u}) /\ Cardinality({u}) = 1 /\ IsFiniteSet({v}) /\ Cardinality({v}) = 1
    BY FS_Singleton
  <2>10. Cardinality(pair) = 2
    <3>1. Cardinality({u} \cup {v}) = Cardinality({u}) + 1
      BY <2>6, <2>9, FS_AddElement
    <3>2. {u} \cup {v} = pair
      BY <2>8
    <3>3. QED
      BY <2>9, <3>1, <3>2
  <2>11. Cardinality({y \in pair : y.retired}) = IF x.class = "retirement" THEN 1 ELSE 0
    <3>1. PICK T : T = {y \in pair : y.retired}
      OBVIOUS
    <3>2. ~ Ambiguous(f.report) /\ u.class = f.report.status
      BY <2>2, <2>6, UsedIsEligible DEF TerminalClass
    <3>3. /\ u.retired <=> u.class = "retirement" /\ f.report.a = f.report.retiree
          /\ v.retired <=> u.class = "retirement" /\ f.report.b = f.report.retiree
      BY <2>3, <2>4, <3>2 DEF Row
    <3>4. f.report.a # f.report.b
      BY <2>2, HistoryAssumption
    <3>5. CASE u.class = "retirement"
      <4>1. f.report.retiree \in {f.report.a, f.report.b}
        BY <3>2, <3>5 DEF Ambiguous
      <4>2. T = {u} \/ T = {v}
        BY <2>8, <3>1, <3>3, <3>4, <3>5, <4>1
      <4> QED
        BY <2>7, <2>9, <3>1, <3>5, <4>2
    <3>6. CASE u.class # "retirement"
      <4>1. T = {}
        BY <2>8, <3>1, <3>3, <3>6
      <4> QED
        BY <2>7, <3>1, <3>6, <4>1, FS_EmptySet
    <3> QED
      BY <3>5, <3>6
  <2>12. ASSUME NEW e \in made.excluded PROVE <<e.match, e.tour>> # <<x.match, x.tour>>
    <3>1. PICK g \in Latest(cutoff) : /\ Exclusion(g, cutoff) # "none"
                                      /\ e.match = g.report.match /\ e.tour = g.report.tour
      BY <1>3, <2>12
    <3>2. ~ SameMatch(f, g)
      BY <1>4, <2>2, <3>1
    <3>3. QED
      BY <2>7, <3>1, <3>2 DEF SameMatch
  <2>14. {y.player : y \in pair} = {y.opponent : y \in pair}
    BY <2>6, <2>8
  <2>15. \A y \in pair : y.age = x.age /\ y.class = x.class
    BY <2>6, <2>7, <2>8
  <2>13. QED
    BY <2>10, <2>11, <2>12, <2>14, <2>15
<1>7. ASSUME NEW d \in made.excluded, NEW e \in made.excluded,
             <<d.match, d.tour>> = <<e.match, e.tour>>
      PROVE  d = e
  <2>1. PICK f \in Latest(cutoff) :
          d = [match |-> f.report.match, tour |-> f.report.tour, reason |-> Exclusion(f, cutoff)]
    BY <1>3
  <2>2. PICK g \in Latest(cutoff) :
          e = [match |-> g.report.match, tour |-> g.report.tour, reason |-> Exclusion(g, cutoff)]
    BY <1>3
  <2>3. SameMatch(f, g)
    BY <1>7, <2>1, <2>2 DEF SameMatch
  <2> QED
    BY <1>4, <2>1, <2>2, <2>3
<1>6. QED
  BY <1>2, <1>5, <1>7 DEF BatchAccepted

\* The weights of rows, and the totals of players, as sums over finite sets.
LEMMA WeightedIsSum ==
  ASSUME NEW S, IsFiniteSet(S), NEW g, \A x \in S : g[x] = Weight[x.age]
  PROVE  Weighted(S) = SumOf(g, S)
<1>1. PICK jt : SumsOver(jt, g, S) /\ SumOf(g, S) = jt[S]
  BY SumOfSums
<1>2. ASSUME NEW s \in SUBSET S, s # {} PROVE g[OneOf(s)] = Weight[OneOf(s).age]
  BY <1>2 DEF OneOf
<1> DEFINE Follows(f) == f = [s \in SUBSET S |-> IF s = {} THEN 0
                                ELSE Weight[OneOf(s).age] + f[s \ {OneOf(s)}]]
<1>3. ASSUME NEW f PROVE Follows(f) <=> SumsOver(f, g, S)
  <2>1. [s \in SUBSET S |-> IF s = {} THEN 0 ELSE Weight[OneOf(s).age] + f[s \ {OneOf(s)}]]
        = [s \in SUBSET S |-> IF s = {} THEN 0 ELSE g[OneOf(s)] + f[s \ {OneOf(s)}]]
    BY <1>2
  <2>2. QED
    BY <2>1 DEF SumsOver
<1>4. PICK it : it = CHOOSE f : Follows(f)
  OBVIOUS
<1>5. Weighted(S) = it[S]
  BY <1>4 DEF Weighted, MapThenSumSet, MapThenFoldSet, OneOf
<1>6. SumsOver(it, g, S)
  BY <1>1, <1>3, <1>4
<1> HIDE DEF Follows
<1>7. it = jt
  BY <1>1, <1>6, SumsAgree
<1>8. QED
  BY <1>1, <1>5, <1>7

SumOfY(players) == MapThenSumSet(LAMBDA p : players[p].y, DOMAIN players)
SumOfN(players) == MapThenSumSet(LAMBDA p : players[p].n, DOMAIN players)

LEMMA SumOfYIsSum ==
  ASSUME NEW players, NEW S, S = DOMAIN players, IsFiniteSet(S),
         NEW g, \A p \in S : g[p] = players[p].y
  PROVE  SumOfY(players) = SumOf(g, S)
<1>1. PICK jt : SumsOver(jt, g, S) /\ SumOf(g, S) = jt[S]
  BY SumOfSums
<1>2. ASSUME NEW s \in SUBSET S, s # {} PROVE g[OneOf(s)] = players[OneOf(s)].y
  BY <1>2 DEF OneOf
<1> DEFINE Follows(f) == f = [s \in SUBSET S |-> IF s = {} THEN 0
                                ELSE players[OneOf(s)].y + f[s \ {OneOf(s)}]]
<1>3. ASSUME NEW f PROVE Follows(f) <=> SumsOver(f, g, S)
  <2>1. [s \in SUBSET S |-> IF s = {} THEN 0 ELSE players[OneOf(s)].y + f[s \ {OneOf(s)}]]
        = [s \in SUBSET S |-> IF s = {} THEN 0 ELSE g[OneOf(s)] + f[s \ {OneOf(s)}]]
    BY <1>2
  <2>2. QED
    BY <2>1 DEF SumsOver
<1>4. PICK it : it = CHOOSE f : Follows(f)
  OBVIOUS
<1>5. SumOfY(players) = it[S]
  BY <1>4 DEF SumOfY, MapThenSumSet, MapThenFoldSet, OneOf
<1>6. SumsOver(it, g, S)
  BY <1>1, <1>3, <1>4
<1> HIDE DEF Follows
<1>7. it = jt
  BY <1>1, <1>6, SumsAgree
<1>8. QED
  BY <1>1, <1>5, <1>7

LEMMA SumOfNIsSum ==
  ASSUME NEW players, NEW S, S = DOMAIN players, IsFiniteSet(S),
         NEW g, \A p \in S : g[p] = players[p].n
  PROVE  SumOfN(players) = SumOf(g, S)
<1>1. PICK jt : SumsOver(jt, g, S) /\ SumOf(g, S) = jt[S]
  BY SumOfSums
<1>2. ASSUME NEW s \in SUBSET S, s # {} PROVE g[OneOf(s)] = players[OneOf(s)].n
  BY <1>2 DEF OneOf
<1> DEFINE Follows(f) == f = [s \in SUBSET S |-> IF s = {} THEN 0
                                ELSE players[OneOf(s)].n + f[s \ {OneOf(s)}]]
<1>3. ASSUME NEW f PROVE Follows(f) <=> SumsOver(f, g, S)
  <2>1. [s \in SUBSET S |-> IF s = {} THEN 0 ELSE players[OneOf(s)].n + f[s \ {OneOf(s)}]]
        = [s \in SUBSET S |-> IF s = {} THEN 0 ELSE g[OneOf(s)] + f[s \ {OneOf(s)}]]
    BY <1>2
  <2>2. QED
    BY <2>1 DEF SumsOver
<1>4. PICK it : it = CHOOSE f : Follows(f)
  OBVIOUS
<1>5. SumOfN(players) = it[S]
  BY <1>4 DEF SumOfN, MapThenSumSet, MapThenFoldSet, OneOf
<1>6. SumsOver(it, g, S)
  BY <1>1, <1>3, <1>4
<1> HIDE DEF Follows
<1>7. it = jt
  BY <1>1, <1>6, SumsAgree
<1>8. QED
  BY <1>1, <1>5, <1>7

\* The rows of a batch are finitely many, and of matches in the window.
LEMMA RowsWeigh ==
  ASSUME ReportsInv, NEW cutoff \in 0..day
  PROVE  /\ IsFiniteSet(Batch(cutoff).rows)
         /\ \A x \in Batch(cutoff).rows : Weight[x.age] \in Nat
<1>1. PICK used : used = {g \in Latest(cutoff) : Exclusion(g, cutoff) = "none"}
  OBVIOUS
<1>2. PICK kept : kept = Batch(cutoff).rows
  OBVIOUS
<1>3. kept = UNION {RowsOf(f, cutoff) : f \in used}
  BY <1>1, <1>2 DEF Batch
<1>4. IsFiniteSet(used)
  <2>1. used \subseteq history
    BY <1>1 DEF Latest, Visible
  <2>2. QED
    BY <2>1, FS_Subset DEF ReportsInv
<1>5. \A f \in used : IsFiniteSet(RowsOf(f, cutoff))
  <2>1. TAKE f \in used
  <2>2. PICK u : u = Row(f, f.report.a, cutoff)
    OBVIOUS
  <2>3. PICK v : v = Row(f, f.report.b, cutoff)
    OBVIOUS
  <2>4. RowsOf(f, cutoff) = {u} \cup {v}
    BY <2>2, <2>3 DEF RowsOf
  <2>5. IsFiniteSet({u} \cup {v})
    BY FS_Singleton, FS_AddElement
  <2>6. QED
    BY <2>4, <2>5
<1>6. IsFiniteSet(kept)
  <2>1. PICK sets : sets = {RowsOf(f, cutoff) : f \in used}
    OBVIOUS
  <2>2. IsFiniteSet(sets)
    <3>1. PICK it : it = [f \in used |-> RowsOf(f, cutoff)]
      OBVIOUS
    <3>2. it \in Surjection(used, sets)
      BY <2>1, <3>1 DEF Surjection
    <3>3. QED
      BY <1>4, <3>2, FS_Surjection
  <2>3. \A s \in sets : IsFiniteSet(s)
    BY <1>5, <2>1
  <2>4. IsFiniteSet(UNION sets)
    BY <2>2, <2>3, FS_UNION
  <2>5. QED
    BY <1>3, <2>1, <2>4
<1>7. ASSUME NEW x \in kept PROVE Weight[x.age] \in Nat
  <2>1. PICK f \in used : x \in RowsOf(f, cutoff)
    BY <1>3
  <2>2. x.age = cutoff - f.report.date
    BY <2>1 DEF RowsOf, Row
  <2>3. PICK date \in Nat : date = f.report.date
    BY <1>1, HistoryAssumption DEF Latest, Visible, ReportsInv
  <2>4. Exclusion(f, cutoff) = "none" /\ cutoff \in Nat
    BY <1>1 DEF ReportsInv
  <2>5. ~ date > cutoff /\ ~ cutoff > date + Window
    BY <2>3, <2>4 DEF Exclusion
  <2>6. cutoff - date \in 0..Window
    BY <2>4, <2>5, HistoryAssumption
  <2>7. QED
    BY <2>2, <2>3, <2>6, HistoryAssumption
<1>8. QED
  BY <1>2, <1>6, <1>7

\* The totals of a tour are those of its players.
LEMMA FittedIsAccepted ==
  ASSUME ReportsInv, NEW tour, NEW cutoff \in 0..day, NEW coverage,
         coverage.tour = tour, coverage.verified < cutoff
  PROVE  FitAccepted(Fitted(tour, cutoff, coverage))
<1>1. PICK kept : kept = {x \in Batch(cutoff).rows : x.tour = tour}
  OBVIOUS
<1>2. IsFiniteSet(kept) /\ \A x \in kept : Weight[x.age] \in Nat
  BY <1>1, RowsWeigh, FS_Subset
<1>3. PICK D : D = {x.player : x \in kept}
  OBVIOUS
<1>4. IsFiniteSet(D)
  <2>1. PICK it : it = [x \in kept |-> x.player]
    OBVIOUS
  <2>2. it \in Surjection(kept, D)
    BY <1>3, <2>1 DEF Surjection
  <2>3. QED
    BY <1>2, <2>2, FS_Surjection
<1>5. PICK players : players = [p \in D |-> Totals({x \in kept : x.player = p})]
  OBVIOUS
<1>6. PICK total : total = Totals(kept)
  OBVIOUS
<1>7. PICK fit : fit = Fitted(tour, cutoff, coverage)
  OBVIOUS
<1>8. /\ fit.tour = tour /\ fit.cutoff = cutoff /\ fit.coverage = coverage
      /\ fit.total = total /\ fit.players = players
      /\ fit.enough = (total.n >= MinimumStarts)
      /\ fit.production = (fit.enough /\ MayFit(coverage))
  BY <1>1, <1>3, <1>5, <1>6, <1>7 DEF Fitted
<1>9. PICK g : g = [x \in kept |-> Weight[x.age]]
  OBVIOUS
<1>10. PICK key : key = [x \in kept |-> x.player]
  OBVIOUS
<1>11. PICK retired : retired = {x \in kept : x.retired}
  OBVIOUS
<1>12. ASSUME NEW T \in SUBSET kept
       PROVE  /\ IsFiniteSet(T) /\ (\A x \in T : g[x] \in Nat)
              /\ Weighted(T) = SumOf(g, T)
  <2>1. IsFiniteSet(T) /\ \A x \in T : g[x] = Weight[x.age] /\ g[x] \in Nat
    BY <1>2, <1>9, FS_Subset
  <2>2. QED
    BY <2>1, WeightedIsSum
<1>13. ASSUME NEW T \in SUBSET kept, NEW t, t = Totals(T)
       PROVE  /\ t.y \in Nat /\ t.n \in Nat /\ t.y <= t.n
              /\ t.n = SumOf(g, T) /\ t.y = SumOf(g, {x \in T : x.retired})
  <2>1. PICK R \in SUBSET T : R = {x \in T : x.retired}
    OBVIOUS
  <2>2. t.n = Weighted(T) /\ t.y = Weighted(R)
    BY <1>13, <2>1 DEF Totals
  <2>3. t.n = SumOf(g, T) /\ t.y = SumOf(g, R)
    BY <1>12, <2>2
  <2>4. SumOf(g, R) \in Nat /\ SumOf(g, T) \in Nat /\ SumOf(g, R) <= SumOf(g, T)
    BY <1>12, SumOfPart
  <2>5. QED
    BY <2>1, <2>3, <2>4
<1>14. total.y <= total.n /\ total.n = SumOf(g, kept) /\ total.y = SumOf(g, retired)
  BY <1>6, <1>11, <1>13
<1>15. ASSUME NEW p \in D
       PROVE  /\ players[p].y <= players[p].n
              /\ players[p].n = SumOf(g, {x \in kept : x.player = p})
              /\ players[p].y = SumOf(g, {x \in {z \in kept : z.player = p} : x.retired})
  <2>1. PICK T \in SUBSET kept : T = {x \in kept : x.player = p}
    OBVIOUS
  <2>2. players[p] = Totals(T)
    BY <1>5, <2>1
  <2>3. /\ players[p].y <= players[p].n /\ players[p].n = SumOf(g, T)
        /\ players[p].y = SumOf(g, {x \in T : x.retired})
    BY <1>13, <2>2
  <2>4. QED
    BY <2>1, <2>3, Zenon
<1>16. \A x \in kept : key[x] \in D /\ g[x] \in Int
  BY <1>2, <1>3, <1>9, <1>10
<1>17. SumOfN(players) = total.n
  <2>1. PICK h : h = [p \in D |-> players[p].n]
    OBVIOUS
  <2>2. PICK fibre : fibre = [p \in D |-> {x \in kept : x.player = p}]
    OBVIOUS
  <2>3. SumOf(h, D) = SumOf(g, kept)
    <3>1. \A p \in D : /\ fibre[p] \in SUBSET kept
                       /\ \A x \in kept : x \in fibre[p] <=> key[x] = p
      BY <1>10, <2>2
    <3>2. ASSUME NEW p \in D PROVE h[p] = SumOf(g, fibre[p])
      BY <1>15, <2>1, <2>2, Zenon
    <3>3. QED
      BY <1>2, <1>4, <1>16, <3>1, <3>2, SumOfFibres
  <2>4. SumOfN(players) = SumOf(h, D)
    BY <1>4, <1>5, <2>1, SumOfNIsSum
  <2>5. QED
    BY <1>14, <2>3, <2>4
<1>18. SumOfY(players) = total.y
  <2>1. PICK h : h = [p \in D |-> players[p].y]
    OBVIOUS
  <2>2. PICK fibre : fibre = [p \in D |-> {x \in {z \in kept : z.player = p} : x.retired}]
    OBVIOUS
  <2>3. IsFiniteSet(retired) /\ \A x \in retired : key[x] \in D /\ g[x] \in Int
    BY <1>11, <1>12, <1>16
  <2>4. SumOf(h, D) = SumOf(g, retired)
    <3>1. \A p \in D : /\ fibre[p] \in SUBSET retired
                       /\ \A x \in retired : x \in fibre[p] <=> key[x] = p
      BY <1>10, <1>11, <2>2
    <3>2. ASSUME NEW p \in D PROVE h[p] = SumOf(g, fibre[p])
      BY <1>15, <2>1, <2>2, Zenon
    <3>3. QED
      BY <1>4, <2>3, <3>1, <3>2, SumOfFibres
  <2>5. SumOfY(players) = SumOf(h, D)
    BY <1>4, <1>5, <2>1, SumOfYIsSum
  <2>6. QED
    BY <1>14, <2>4, <2>5
<1>19. DOMAIN players = D
  BY <1>5
<1>20. FitAccepted(fit)
  <2>1. SumOfY(fit.players) = fit.total.y /\ SumOfN(fit.players) = fit.total.n
    BY <1>8, <1>17, <1>18
  <2>2. \A p \in DOMAIN fit.players : fit.players[p].y <= fit.players[p].n
    BY <1>8, <1>15, <1>19
  <2>3. /\ fit.coverage.tour = fit.tour /\ fit.coverage.verified < fit.cutoff
        /\ fit.total.y <= fit.total.n
        /\ fit.enough = (fit.total.n >= MinimumStarts)
        /\ fit.production = (fit.enough /\ MayFit(fit.coverage))
    BY <1>8, <1>14
  <2>4. QED
    BY <2>1, <2>2, <2>3 DEF FitAccepted, SumOfY, SumOfN
<1>21. QED
  BY <1>7, <1>20

\* For any reports in any order and with any corrections: a batch without a
\* conflict has what its validator asks, two rows for a match that is used and
\* none for one that is not; and in every fit, and every reissue of one, the
\* weighted starts and retirements of a tour are those of its players.
THEOREM FitsAlwaysAccepted == HistorySpec => []FitsAccepted
<1>1. ASSUME HistoryInv PROVE FitsAccepted
  <2>1. \A cutoff \in 0..day : ~ Conflicting(cutoff) => BatchAccepted(Batch(cutoff))
    BY <1>1, BatchIsAccepted DEF HistoryInv
  <2>2. ASSUME NEW fit \in fits PROVE FitAccepted(fit)
    <3>1. FitOfToday(fit)
      BY <1>1, <2>2 DEF HistoryInv
    <3>2. PICK cutoff \in 0..day : cutoff = fit.cutoff
      BY <3>1 DEF FitOfToday
    <3>3. PICK tour : tour = fit.tour
      OBVIOUS
    <3>4. PICK coverage : coverage = fit.coverage
      OBVIOUS
    <3>5. /\ coverage.tour = tour /\ coverage.verified < cutoff
          /\ fit = Fitted(tour, cutoff, coverage)
      BY <3>1, <3>2, <3>3, <3>4 DEF FitOfToday
    <3>6. QED
      BY <1>1, <3>5, FittedIsAccepted DEF HistoryInv
  <2>3. QED
    BY <2>1, <2>2 DEF FitsAccepted
<1>2. QED
  BY <1>1, HistoryStarts, HistoryKeeps, PTL DEF HistorySpec

-----------------------------------------------------------------------------
\* A match with a row in the batch was started, and its report is not one of
\* those an absence leaves out.
LEMMA EligibleIsCounted ==
  ASSUME NEW f, f.report \in Reports, NEW tour, NEW cutoff, NEW assertion,
         Exclusion(f, cutoff) = "none", f.report.tour = tour,
         f.report.manifest = assertion.manifest, f.available < cutoff,
         f.report.singles, ~ f.report.exhibition,
         ~ Unresolved(f, tour, cutoff, assertion)
  PROVE  Counts(f, tour, cutoff, assertion)
<1>1. f.report.resolved
  BY DEF Unresolved
<1>2. f.report.started /\ f.report.status # "walkover"
  <2>1. ~ Ambiguous(f.report) /\ f.report.status \in {"normal", "retirement"}
    BY UsedIsEligible
  <2> QED
    BY <2>1 DEF Ambiguous
<1> QED
  BY <1>1, <1>2 DEF Counts, NeverPlayed

LEMMA SeenByBoth == HistoryInv => StartsSeenByBoth
<1> SUFFICES ASSUME HistoryInv, NEW x \in absences, NEW f \in Latest(x.cutoff),
                    Exclusion(f, x.cutoff) = "none",
                    f.report.tour = x.tour,
                    x.player \in {f.report.a, f.report.b},
                    f.report.singles, ~ f.report.exhibition,
                    f.report.manifest = x.assertion.manifest
             PROVE  ~ x.cold /\ f.report.date <= x.last
  BY DEF StartsSeenByBoth
<1> DEFINE current == Current(x.player, x.cutoff)
           counted == {g \in current : Counts(g, x.tour, x.cutoff, x.assertion)}
           dates == {g.report.date : g \in counted}
<1>1. /\ Certain(x.player, x.tour, x.cutoff, x.assertion)
      /\ x = Absence(x.player, x.tour, x.start, x.cutoff, x.assertion)
  BY DEF HistoryInv, AbsenceOfToday
<1>2. f \in history /\ f.available < x.cutoff /\ f.report \in Reports
  BY DEF Latest, Visible, HistoryInv, ReportsInv
<1>3. f \in current
  BY <1>2 DEF Latest, Visible, Current, About
<1>4. ~ Unresolved(f, x.tour, x.cutoff, x.assertion)
  BY <1>1, <1>3 DEF Certain
<1>5. f \in counted
  BY <1>2, <1>3, <1>4, EligibleIsCounted
<1>6. x.cold = (counted = {}) /\ x.last = IF counted = {} THEN 0 ELSE Max(dates)
  BY <1>1 DEF Absence
<1>7. dates \in SUBSET Nat /\ IsFiniteSet(dates) /\ dates # {}
  <2>1. counted \in SUBSET history
    BY DEF Current, Visible
  <2>2. IsFiniteSet(counted)
    BY <2>1, FS_Subset DEF HistoryInv, ReportsInv
  <2>3. dates \in SUBSET Nat
    BY <2>1, HistoryAssumption DEF HistoryInv, ReportsInv
  <2> DEFINE dateOf == [g \in counted |-> g.report.date]
  <2> HIDE DEF counted
  <2>4. dateOf \in Surjection(counted, dates)
    BY DEF Surjection
  <2>5. IsFiniteSet(dates)
    BY <2>2, <2>4, FS_Surjection
  <2> QED
    BY <2>3, <2>5, <1>5
<1>8. f.report.date \in dates
  BY <1>5
<1> HIDE DEF dates
<1>9. f.report.date <= Max(dates)
  <2>1. dates \in SUBSET Int
    BY <1>7
  <2> QED
    BY <2>1, <1>7, <1>8, MaxOfFinite
<1> QED
  BY <1>5, <1>6, <1>9

\* The two uses of the reports agree, for any of them: a start the retirement
\* fit of a cutoff counts is never one the absence of that cutoff has missed.
THEOREM BothSeeTheStarts == HistorySpec => []StartsSeenByBoth
BY SeenByBoth, HistoryStarts, HistoryKeeps, PTL DEF HistorySpec

-----------------------------------------------------------------------------
(* Captures of the event and reports of it *)

(* What a capture holds, however the matches go on while it is taken *)

\* The entries of a day feed and the record of a match are what was so when
\* they were fetched: of an ended match, whose ending does not change.
Truthful(c) ==
  /\ c = [began |-> c.began, days |-> c.days, matches |-> c.matches]
  /\ c.began \in Nat /\ c.began <= now
  /\ DOMAIN c.days \subseteq FeedDays
  /\ \A d \in DOMAIN c.days :
       /\ c.days[d].at \in Nat
       /\ \A e \in c.days[d].entries :
            /\ e.match \in Listed[d] /\ ended[e.match] # NotYet
            /\ e.how = ended[e.match].how /\ e.at = ended[e.match].at
       /\ \A m \in Listed[d] : ended[m] # NotYet /\ ended[m].at < c.began =>
            \E e \in c.days[d].entries : e.match = m
  /\ DOMAIN c.matches \subseteq EventMatches
  /\ \A m \in DOMAIN c.matches :
       /\ c.matches[m].at \in Nat
       /\ ended[m] # NotYet /\ c.matches[m].seen = ended[m]
Whole(c) == DOMAIN c.days = FeedDays /\ Ended(c) \subseteq DOMAIN c.matches

CourtInv ==
  /\ now \in Nat
  /\ DOMAIN ended = EventMatches
  /\ \A m \in EventMatches : ended[m] # NotYet =>
       ended[m].how \in Endings /\ ended[m].at \in Nat /\ ended[m].at < now
CapturesInv ==
  /\ taking # NotYet => Truthful(taking)
  /\ \A c \in captured : Truthful(c) /\ Whole(c)

\* What the other steps may do to it: time goes on, and matches end.
Onward ==
  /\ now' \in Nat /\ now <= now'
  /\ \A m \in EventMatches :
       IF ended[m] # NotYet THEN ended'[m] = ended[m]
       ELSE ended'[m] # NotYet => ended'[m].at >= now

LEMMA StaysTruthful ==
  ASSUME CourtInv, CourtInv', Onward, NEW c, Truthful(c)
  PROVE  Truthful(c)'
<1>1. \A m \in EventMatches : ended[m] # NotYet =>
        ended'[m] = ended[m] /\ ended'[m] # NotYet
  BY DEF Onward
<1>2. /\ c = [began |-> c.began, days |-> c.days, matches |-> c.matches]
      /\ c.began \in Nat /\ c.began <= now' /\ DOMAIN c.days \subseteq FeedDays
      /\ DOMAIN c.matches \subseteq EventMatches
  BY DEF Truthful, Onward, CourtInv
<1>3. ASSUME NEW d \in DOMAIN c.days
      PROVE  /\ c.days[d].at \in Nat
             /\ \A e \in c.days[d].entries :
                  /\ e.match \in Listed[d] /\ ended'[e.match] # NotYet
                  /\ e.how = ended'[e.match].how /\ e.at = ended'[e.match].at
             /\ \A m \in Listed[d] : ended'[m] # NotYet /\ ended'[m].at < c.began =>
                  \E e \in c.days[d].entries : e.match = m
  <2>1. Listed[d] \subseteq EventMatches
    BY <1>2, FeedAssumption
  <2>2. \A e \in c.days[d].entries :
          /\ e.match \in Listed[d] /\ ended'[e.match] # NotYet
          /\ e.how = ended'[e.match].how /\ e.at = ended'[e.match].at
    BY <1>1, <2>1 DEF Truthful
  <2>3. ASSUME NEW m \in Listed[d], ended'[m] # NotYet, ended'[m].at < c.began
        PROVE  \E e \in c.days[d].entries : e.match = m
    <3>1. CASE ended[m] # NotYet
      BY <1>1, <2>1, <2>3, <3>1 DEF Truthful
    <3>2. CASE ended[m] = NotYet
      <4>1. ended'[m].at >= now /\ c.began <= now /\ now \in Nat /\ c.began \in Nat
        BY <2>1, <2>3, <3>2 DEF Onward, Truthful, CourtInv
      <4>2. ended'[m].at \in Nat
        BY <2>1, <2>3 DEF CourtInv
      <4> QED
        BY <2>3, <4>1, <4>2
    <3> QED
      BY <3>1, <3>2
  <2> QED
    BY <2>2, <2>3 DEF Truthful
<1>4. \A m \in DOMAIN c.matches :
        /\ c.matches[m].at \in Nat
        /\ ended'[m] # NotYet /\ c.matches[m].seen = ended'[m]
  BY <1>1, <1>2 DEF Truthful
<1> QED
  BY <1>2, <1>3, <1>4 DEF Truthful

LEMMA CourtGoesOn ==
  ASSUME CourtInv, [EventNext]_eventVars
  PROVE  CourtInv' /\ Onward
<1>1. CASE TimePasses
  BY <1>1 DEF TimePasses, CourtInv, Onward
<1>2. ASSUME NEW m \in EventMatches, EndMatch(m) PROVE CourtInv' /\ Onward
  <2>1. PICK o \in OutcomesOf[m] : ended' = [ended EXCEPT ![m] = [how |-> o, at |-> now]]
    BY <1>2 DEF EndMatch
  <2>2. o \in Endings /\ now' = now + 1 /\ ended[m] = NotYet /\ now \in Nat
    BY <1>2, OutcomeAssumption DEF EndMatch, CourtInv
  <2>3. /\ ended'[m].how = o /\ ended'[m].at = now
        /\ \A k \in EventMatches : k # m => ended'[k] = ended[k]
        /\ DOMAIN ended' = EventMatches
    BY <2>1 DEF CourtInv
  <2> QED
    BY <2>2, <2>3 DEF CourtInv, Onward
<1>3. CASE UNCHANGED <<now, ended>>
  BY <1>3 DEF CourtInv, Onward
<1> QED
  BY <1>1, <1>2, <1>3 DEF EventNext, eventVars, StartCapture, PublishCapture, AbandonCapture,
     FetchMatch, FetchDay, StartBuild, FitAndClassify, AttemptLock, WriteReport, CrashBuild

LEMMA FeedTruthful ==
  ASSUME CourtInv, Truthful(taking), NEW d \in FeedDays,
         NEW t, t = [taking EXCEPT !.days = With(@, d, [at |-> now, entries |-> DayFeed(d)])]
  PROVE  Truthful(t)
<1> DEFINE feed == [at |-> now, entries |-> DayFeed(d)]
           days == With(taking.days, d, feed)
<1>1. t.days = days /\ t.began = taking.began /\ t.matches = taking.matches
      /\ t = [began |-> t.began, days |-> t.days, matches |-> t.matches]
  BY DEF Truthful
<1>2. /\ DOMAIN days = DOMAIN taking.days \cup {d} /\ days[d] = feed
      /\ \A k \in DOMAIN taking.days : k # d => days[k] = taking.days[k]
  BY DEF With
<1>3. /\ feed.at \in Nat
      /\ \A e \in feed.entries :
           /\ e.match \in Listed[d] /\ ended[e.match] # NotYet
           /\ e.how = ended[e.match].how /\ e.at = ended[e.match].at
      /\ \A m \in Listed[d] : ended[m] # NotYet => \E e \in feed.entries : e.match = m
  <2>1. feed.at \in Nat /\ feed.entries = DayFeed(d)
    BY DEF CourtInv
  <2>2. ASSUME NEW e \in DayFeed(d)
        PROVE  /\ e.match \in Listed[d] /\ ended[e.match] # NotYet
               /\ e.how = ended[e.match].how /\ e.at = ended[e.match].at
    <3>1. PICK m \in {k \in Listed[d] : ended[k] # NotYet} :
            e = [match |-> m, how |-> ended[m].how, at |-> ended[m].at]
      BY DEF DayFeed
    <3> QED
      BY <3>1
  <2>3. ASSUME NEW m \in Listed[d], ended[m] # NotYet
        PROVE  \E e \in DayFeed(d) : e.match = m
    <3>1. [match |-> m, how |-> ended[m].how, at |-> ended[m].at] \in DayFeed(d)
      BY <2>3 DEF DayFeed
    <3> QED
      BY <3>1
  <2> HIDE DEF feed
  <2> QED
    BY <2>1, <2>2, <2>3
<1> HIDE DEF days, feed
<1>4. ASSUME NEW k \in DOMAIN days
      PROVE  /\ days[k].at \in Nat
             /\ \A e \in days[k].entries :
                  /\ e.match \in Listed[k] /\ ended[e.match] # NotYet
                  /\ e.how = ended[e.match].how /\ e.at = ended[e.match].at
             /\ \A m \in Listed[k] : ended[m] # NotYet /\ ended[m].at < taking.began =>
                  \E e \in days[k].entries : e.match = m
  <2>1. CASE k = d
    BY <1>2, <1>3, <2>1
  <2>2. CASE k # d
    BY <1>2, <2>2 DEF Truthful
  <2> QED
    BY <2>1, <2>2
<1> QED
  BY <1>1, <1>2, <1>4 DEF Truthful

LEMMA RecordTruthful ==
  ASSUME CourtInv, Truthful(taking), NEW m, m \in Ended(taking),
         NEW t, t = [taking EXCEPT !.matches = With(@, m, [at |-> now, seen |-> ended[m]])]
  PROVE  Truthful(t)
<1> DEFINE matches == With(taking.matches, m, [at |-> now, seen |-> ended[m]])
<1>1. t.matches = matches /\ t.began = taking.began /\ t.days = taking.days
      /\ t = [began |-> t.began, days |-> t.days, matches |-> t.matches]
  BY DEF Truthful
<1>2. m \in EventMatches /\ ended[m] # NotYet
  BY FeedAssumption DEF Ended, Truthful
<1>3. /\ DOMAIN matches = DOMAIN taking.matches \cup {m}
      /\ \A k \in DOMAIN matches :
           /\ matches[k].at \in Nat
           /\ ended[k] # NotYet /\ matches[k].seen = ended[k]
  BY <1>2 DEF With, Truthful, CourtInv
<1> HIDE DEF matches
<1> QED
  BY <1>1, <1>2, <1>3 DEF Truthful

LEMMA CapturesKeep ==
  ASSUME CourtInv, CapturesInv, [EventNext]_eventVars
  PROVE  CapturesInv'
<1>1. CourtInv' /\ Onward
  BY CourtGoesOn
<1>2. ASSUME NEW c, Truthful(c) PROVE Truthful(c)'
  BY <1>1, <1>2, StaysTruthful
<1>3. ASSUME NEW c \in captured PROVE Truthful(c)' /\ Whole(c)'
  BY <1>2 DEF CapturesInv, Whole, Ended
<1>4. ASSUME NEW t, t = taking', t # NotYet PROVE Truthful(t)'
  <2>1. CASE t = taking
    BY <1>2, <1>4, <2>1 DEF CapturesInv
  <2>2. CASE StartCapture
    <3>1. t = [began |-> now, days |-> NoObjects, matches |-> NoObjects]
      BY <1>4, <2>2 DEF StartCapture
    <3>2. Truthful(t)
      BY <3>1 DEF Truthful, NoObjects, CourtInv
    <3> QED
      BY <1>2, <3>2
  <2>3. ASSUME NEW d \in FeedDays, FetchDay(d) PROVE Truthful(t)'
    <3>1. Truthful(taking)
      BY <2>3 DEF FetchDay, CapturesInv
    <3>2. t = [taking EXCEPT !.days = With(@, d, [at |-> now, entries |-> DayFeed(d)])]
      BY <1>4, <2>3 DEF FetchDay
    <3> QED
      BY <1>2, <3>1, <3>2, FeedTruthful
  <2>4. ASSUME NEW m \in EventMatches, FetchMatch(m) PROVE Truthful(t)'
    <3>1. Truthful(taking) /\ m \in Ended(taking)
      BY <2>4 DEF FetchMatch, CapturesInv
    <3>2. t = [taking EXCEPT !.matches = With(@, m, [at |-> now, seen |-> ended[m]])]
      BY <1>4, <2>4 DEF FetchMatch
    <3> QED
      BY <1>2, <3>1, <3>2, RecordTruthful
  <2>5. CASE taking' = taking \/ taking' = NotYet
    BY <1>4, <2>1, <2>5
  <2> QED
    BY <2>2, <2>3, <2>4, <2>5 DEF EventNext, eventVars, TimePasses, EndMatch, PublishCapture,
       AbandonCapture, StartBuild, FitAndClassify, AttemptLock, WriteReport, CrashBuild
<1>5. \A c \in captured' : c \in captured \/ (c = taking /\ PublishCapture)
  BY DEF EventNext, eventVars, TimePasses, EndMatch, StartCapture, FetchDay, FetchMatch,
     PublishCapture, AbandonCapture, StartBuild, FitAndClassify, AttemptLock, WriteReport,
     CrashBuild
<1>6. ASSUME NEW c \in captured' PROVE Truthful(c)' /\ Whole(c)'
  <2>1. CASE c \in captured
    BY <1>3, <2>1
  <2>2. CASE c = taking /\ PublishCapture
    <3>1. Truthful(c) /\ Whole(c)
      BY <2>2 DEF PublishCapture, CapturesInv, Whole
    <3> QED
      BY <1>2, <3>1 DEF Whole, Ended
  <2> QED
    BY <1>5, <2>1, <2>2
<1>7. (taking # NotYet => Truthful(taking))'
  <2>1. PICK t : t = taking'
    OBVIOUS
  <2>2. t # NotYet => Truthful(t)'
    BY <1>4, <2>1
  <2> QED
    BY <2>1, <2>2 DEF Truthful
<1> QED
  BY <1>6, <1>7 DEF CapturesInv

-----------------------------------------------------------------------------
(* What a build makes of a capture *)

Tells(c, cutoff, o) ==
  /\ o = Output(o.stage, o.used, o.terminations, o.lock)
  /\ o.used = Used(c, cutoff)
  /\ o.stage # "opened" =>
       /\ ~ FitsRefused(c, cutoff)
       /\ o.terminations = {Termination(PlayerRow(c, s)) : s \in o.used}
BuildsInv ==
  /\ \A run \in DOMAIN outputs :
       /\ run \in captured \X Nat
       /\ Tells(run[1], run[2], outputs[run])
  /\ building # NotYet => building \in DOMAIN outputs

EventInv == CourtInv /\ CapturesInv /\ BuildsInv

LEMMA LatestIsInstant ==
  ASSUME NEW c, Truthful(c), Whole(c)
  PROVE  LatestRetrieval(c) \in Nat
<1> DEFINE dayAt == [d \in FeedDays |-> c.days[d].at]
           matchAt == [m \in DOMAIN c.matches |-> c.matches[m].at]
           days == {c.days[d].at : d \in FeedDays}
           matches == {c.matches[m].at : m \in DOMAIN c.matches}
<1>1. dayAt \in Surjection(FeedDays, days) /\ matchAt \in Surjection(DOMAIN c.matches, matches)
  BY DEF Surjection
<1>2. IsFiniteSet(FeedDays) /\ IsFiniteSet(DOMAIN c.matches)
  BY FeedAssumption, FS_Subset DEF Truthful
<1>3. days \subseteq Nat /\ matches \subseteq Nat
  BY DEF Truthful, Whole
<1> HIDE DEF dayAt, matchAt
<1>4. IsFiniteSet(days) /\ IsFiniteSet(matches)
  BY <1>1, <1>2, FS_Surjection
<1> DEFINE all == {0} \cup days \cup matches
<1>5. LatestRetrieval(c) = Max(all)
  BY DEF LatestRetrieval
<1> HIDE DEF days, matches
<1>6. IsFiniteSet({0} \cup days)
  BY <1>4, FS_Union, FS_Singleton
<1>7. IsFiniteSet(all)
  BY <1>4, <1>6, FS_Union
<1>8. all \in SUBSET Nat /\ all # {}
  BY <1>3
<1> HIDE DEF all
<1>9. all \in SUBSET Int
  BY <1>8
<1>10. Max(all) \in all
  BY <1>7, <1>8, <1>9, MaxOfFinite
<1> QED
  BY <1>5, <1>8, <1>10

LEMMA LaterIsInstant ==
  ASSUME NEW x \in Nat, NEW y \in Nat
  PROVE  Max({x, y}) \in Nat
<1>1. IsFiniteSet({x, y})
  <2> DEFINE single == {x}
  <2>1. {x, y} = single \cup {y} /\ IsFiniteSet(single)
    BY FS_Singleton
  <2> HIDE DEF single
  <2> QED
    BY <2>1, FS_AddElement
<1> QED
  BY <1>1, MaxOfFinite

LEMMA BuildStarts ==
  ASSUME EventInv, NEW c \in captured, NEW cutoff \in Nat, StartBuild(c, cutoff)
  PROVE  BuildsInv'
<1> DEFINE run == <<c, cutoff>>
           o == Output("opened", Used(c, cutoff), {}, "none")
<1>1. /\ building' = run /\ outputs' = With(outputs, run, o) /\ UNCHANGED captured
  BY DEF StartBuild
<1>2. /\ DOMAIN outputs' = DOMAIN outputs \cup {run} /\ outputs'[run] = o
      /\ \A r \in DOMAIN outputs : r # run => outputs'[r] = outputs[r]
  BY <1>1 DEF With
<1>3. Tells(c, cutoff, o)
  BY DEF Tells, Output
<1>4. run \in captured \X Nat /\ run[1] = c /\ run[2] = cutoff
  OBVIOUS
<1> HIDE DEF run, o
<1>5. ASSUME NEW r \in DOMAIN outputs'
      PROVE  r \in captured' \X Nat /\ Tells(r[1], r[2], outputs'[r])
  <2>1. CASE r = run
    BY <1>1, <1>2, <1>3, <1>4, <2>1
  <2>2. CASE r # run
    BY <1>1, <1>2, <2>2 DEF EventInv, BuildsInv
  <2> QED
    BY <2>1, <2>2
<1> QED
  BY <1>1, <1>2, <1>5 DEF BuildsInv

\* A step of a build under way.
LEMMA BuildMoves ==
  ASSUME EventInv, building # NotYet, NEW o, MoveOn(o), UNCHANGED captured,
         Tells(building[1], building[2], o), building' \in {building, NotYet}
  PROVE  BuildsInv'
<1>1. building \in DOMAIN outputs
  BY DEF EventInv, BuildsInv
<1>2. /\ DOMAIN outputs' = DOMAIN outputs /\ outputs'[building] = o
      /\ \A r \in DOMAIN outputs : r # building => outputs'[r] = outputs[r]
  BY <1>1 DEF MoveOn
<1>3. ASSUME NEW r \in DOMAIN outputs'
      PROVE  r \in captured' \X Nat /\ Tells(r[1], r[2], outputs'[r])
  <2>1. CASE r = building
    BY <1>2, <2>1 DEF EventInv, BuildsInv
  <2>2. CASE r # building
    BY <1>2, <2>2 DEF EventInv, BuildsInv
  <2> QED
    BY <2>1, <2>2
<1> QED
  BY <1>1, <1>2, <1>3 DEF BuildsInv

LEMMA BuildsKeep ==
  ASSUME EventInv, [EventNext]_eventVars
  PROVE  BuildsInv'
<1>0. building # NotYet => building \in DOMAIN outputs /\ Tells(building[1], building[2], outputs[building])
  BY DEF EventInv, BuildsInv
<1>1. ASSUME NEW c \in captured, StartBuild(c, Max({now, LatestRetrieval(c) + 1}))
      PROVE  BuildsInv'
  <2>1. LatestRetrieval(c) + 1 \in Nat /\ now \in Nat
    BY LatestIsInstant DEF EventInv, CapturesInv, CourtInv
  <2>2. Max({now, LatestRetrieval(c) + 1}) \in Nat
    BY <2>1, LaterIsInstant
  <2> QED
    BY <1>1, <2>2, BuildStarts
<1>2. ASSUME NEW c \in captured, NEW cutoff \in AskedCutoffs, StartBuild(c, cutoff)
      PROVE  BuildsInv'
  BY <1>2, BuildStarts, FeedAssumption
<1>3. CASE FitAndClassify
  <2> DEFINE o == outputs[building]
             new == Output("fitted", o.used,
                      {Termination(PlayerRow(building[1], s)) : s \in o.used}, "none")
  <2>1. building # NotYet /\ UNCHANGED captured
    BY <1>3 DEF FitAndClassify, AtStage
  <2>2. CASE FitsRefused(building[1], building[2])
    BY <1>3, <2>2 DEF FitAndClassify, EventInv, BuildsInv
  <2>3. CASE ~ FitsRefused(building[1], building[2])
    <3>1. MoveOn(new) /\ UNCHANGED building
      BY <1>3, <2>3 DEF FitAndClassify
    <3>2. Tells(building[1], building[2], new)
      BY <1>0, <2>1, <2>3 DEF Tells, Output
    <3> HIDE DEF new
    <3> QED
      BY <2>1, <3>1, <3>2, BuildMoves
  <2> QED
    BY <2>2, <2>3
<1>4. CASE AttemptLock
  <2> DEFINE o == outputs[building]
  <2>1. building # NotYet /\ UNCHANGED captured /\ o.stage = "fitted"
    BY <1>4 DEF AttemptLock, AtStage
  <2>2. PICK lock : IF lock = "failed" THEN building' = NotYet /\ UNCHANGED outputs
                    ELSE MoveOn(Output("locked", o.used, o.terminations, lock))
                         /\ UNCHANGED building
    BY <1>4 DEF AttemptLock
  <2>3. CASE lock = "failed"
    BY <2>1, <2>2, <2>3 DEF EventInv, BuildsInv
  <2>4. CASE lock # "failed"
    <3> DEFINE new == Output("locked", o.used, o.terminations, lock)
    <3>1. Tells(building[1], building[2], o)
      BY <1>0, <2>1
    <3>3. Tells(building[1], building[2], new)
      <4> HIDE DEF o
      <4> QED
        BY <2>1, <3>1 DEF Tells, Output
    <3>4. MoveOn(new) /\ UNCHANGED building
      BY <2>2, <2>4
    <3> HIDE DEF new
    <3> QED
      BY <2>1, <3>3, <3>4, BuildMoves
  <2> QED
    BY <2>3, <2>4
<1>5. CASE WriteReport
  <2> DEFINE o == outputs[building]
             new == [o EXCEPT !.stage = "reported"]
  <2>1. building # NotYet /\ UNCHANGED captured /\ o.stage = "locked"
    BY <1>5 DEF WriteReport, AtStage
  <2>2. Tells(building[1], building[2], o)
    BY <1>0, <2>1
  <2>3. new = Output("reported", o.used, o.terminations, o.lock)
    <3>1. o = [stage |-> o.stage, used |-> o.used, terminations |-> o.terminations,
               lock |-> o.lock]
      BY <2>2 DEF Tells, Output
    <3> HIDE DEF o
    <3> QED
      BY <3>1 DEF Output
  <2>4. Tells(building[1], building[2], new)
    <3> HIDE DEF o, new
    <3> QED
      BY <2>1, <2>2, <2>3 DEF Tells, Output
  <2>5. MoveOn(new) /\ building' = NotYet
    BY <1>5 DEF WriteReport
  <2> HIDE DEF new
  <2> QED
    BY <2>1, <2>4, <2>5, BuildMoves
<1>6. CASE CrashBuild
  BY <1>6 DEF CrashBuild, EventInv, BuildsInv
<1>7. CASE UNCHANGED <<outputs, building>> /\ captured \subseteq captured'
  BY <1>7 DEF EventInv, BuildsInv
<1> QED
  BY <1>1, <1>2, <1>3, <1>4, <1>5, <1>6, <1>7
  DEF EventNext, eventVars, TimePasses, EndMatch, StartCapture, FetchDay, FetchMatch,
      PublishCapture, AbandonCapture

LEMMA EventInvStarts == EventInit => EventInv
BY DEF EventInit, EventInv, CourtInv, CapturesInv, BuildsInv, NoObjects

LEMMA EventInvKeeps == EventInv /\ [EventNext]_eventVars => EventInv'
BY CourtGoesOn, CapturesKeep, BuildsKeep DEF EventInv

-----------------------------------------------------------------------------
(* What a report tells *)

LEMMA UsedEntries ==
  ASSUME CourtInv, NEW c, Truthful(c), Whole(c), NEW cutoff \in Nat, NEW s \in Used(c, cutoff)
  PROVE  /\ s[2].match \in EventMatches /\ ended[s[2].match] # NotYet
         /\ s[2].how = ended[s[2].match].how /\ s[2].at = ended[s[2].match].at
         /\ s[2].at < cutoff
         /\ c.matches[s[2].match].seen = ended[s[2].match]
<1>1. PICK d \in FeedDays : s \in {<<d, e>> : e \in c.days[d].entries}
  BY DEF Used, FeedEntries
<1>2. PICK e \in c.days[d].entries : s = <<d, e>>
  BY <1>1
<1>3. d \in DOMAIN c.days /\ s[2] = e
  BY <1>2 DEF Whole
<1>4. /\ e.match \in Listed[d] /\ ended[e.match] # NotYet
      /\ e.how = ended[e.match].how /\ e.at = ended[e.match].at
  BY <1>3 DEF Truthful
<1>5. e.match \in EventMatches /\ ended[e.match].at \in Nat
  BY <1>4, FeedAssumption DEF CourtInv
<1>6. LeftOut(c, cutoff, e) = "none"
  BY <1>3 DEF Used
<1>7. e.match \in DOMAIN c.matches
  <2>1. e.match \in Ended(c)
    BY <1>3 DEF Ended
  <2> QED
    BY <2>1 DEF Whole
<1>8. ~ (e.at >= cutoff)
  <2> SUFFICES ASSUME e.at >= cutoff PROVE FALSE
    OBVIOUS
  <2>1. LeftOut(c, cutoff, e) \in {"INVALID_COMPLETION_TIMESTAMP", "AT_OR_AFTER_CUTOFF"}
    BY <1>7 DEF LeftOut
  <2> QED
    BY <1>6, <2>1
<1>9. c.matches[e.match].seen = ended[e.match]
  BY <1>7 DEF Truthful
<1> QED
  BY <1>3, <1>4, <1>5, <1>8, <1>9

LEMMA CountedOnce ==
  ASSUME CourtInv, NEW c, Truthful(c), Whole(c), NEW cutoff \in Nat,
         ~ FitsRefused(c, cutoff)
  PROVE  Cardinality(Used(c, cutoff)) = Cardinality({s[2].match : s \in Used(c, cutoff)})
<1> DEFINE used == Used(c, cutoff)
           matches == {s[2].match : s \in used}
           matchOf == [s \in used |-> s[2].match]
<1>1. \A s, t \in used : s[2].match = t[2].match => s = t
  BY DEF FitsRefused
<1>2. matches \subseteq EventMatches
  BY UsedEntries
<1> HIDE DEF used
<1>3. matchOf \in Injection(used, matches) /\ matchOf \in Surjection(used, matches)
  BY <1>1 DEF Injection, Surjection, IsInjective
<1>4. IsFiniteSet(matches)
  BY <1>2, FS_Subset, FeedAssumption
<1> HIDE DEF matches, matchOf
<1>5. IsFiniteSet(used) /\ Cardinality(used) = Cardinality(matches)
  BY <1>3, <1>4, FS_Injection
<1> QED
  BY <1>5 DEF used, matches

LEMMA TrueTermination ==
  ASSUME CourtInv, NEW c, Truthful(c), Whole(c), NEW cutoff \in Nat,
         NEW s \in Used(c, cutoff), NEW t, t = Termination(PlayerRow(c, s))
  PROVE  /\ t.match = s[2].match
         /\ LET how == ended[t.match].how IN
            /\ t.retirement <=> how.code = "E"
            /\ t.winner = Canonical(SidesOf[t.match][how.winner])
            /\ t.retirement => t.retiree = Canonical(SidesOf[t.match][3 - how.winner])
<1> DEFINE m == s[2].match
           how == ended[m].how
           players == [i \in {1, 2} |-> Canonical(SidesOf[m][i])]
           row == PlayerRow(c, s)
<1>1. /\ ended[m] # NotYet /\ s[2].how = how /\ how \in Endings
      /\ c.matches[m].seen = ended[m]
  BY UsedEntries DEF CourtInv
<1>2. how.winner \in {1, 2}
  BY <1>1 DEF Endings
<1>3. /\ row.match = m /\ row.retirement = (how.code = "E") /\ row.player = players
      /\ row.raw = ended[m]
  BY <1>1 DEF PlayerRow
<1> HIDE DEF m, how, players, row
<1>4. /\ Termination(row).match = m
      /\ Termination(row).retirement = (how.code = "E")
      /\ Termination(row).winner = players[how.winner]
      /\ how.code = "E" => Termination(row).retiree = players[3 - how.winner]
  <2>1. row.raw.how.winner = how.winner /\ row.raw # NotYet
    BY <1>1, <1>3 DEF how
  <2>2. how.winner \in {1, 2} /\ 3 - how.winner \in {1, 2}
    BY <1>2
  <2> QED
    BY <1>3, <2>1, <2>2 DEF Termination
<1>5. /\ players[how.winner] = Canonical(SidesOf[m][how.winner])
      /\ players[3 - how.winner] = Canonical(SidesOf[m][3 - how.winner])
  BY <1>2 DEF players
<1> QED
  BY <1>4, <1>5 DEF m, how, row

\* However captures, matches and builds interleave, crashes included: what a
\* report says of the matches is what happened, and none that had ended before
\* its capture began is passed over without a reason.
THEOREM ReportsAreTrue == EventSpec => []ReportsTellTheTruth
<1>1. EventInv => ReportsTellTheTruth
  <2> SUFFICES ASSUME EventInv, NEW run \in DOMAIN outputs, outputs[run].stage = "reported"
               PROVE  LET o == outputs[run]
                          matches == {s[2].match : s \in o.used}
                      IN  /\ Cardinality(o.used) = Cardinality(matches)
                          /\ {t.match : t \in o.terminations} = matches
                          /\ \A t \in o.terminations :
                               /\ ended[t.match] # NotYet /\ ended[t.match].at < run[2]
                               /\ LET how == ended[t.match].how IN
                                  /\ t.retirement <=> how.code = "E"
                                  /\ t.winner = Canonical(SidesOf[t.match][how.winner])
                                  /\ t.retirement =>
                                       t.retiree = Canonical(SidesOf[t.match][3 - how.winner])
                          /\ \A d \in FeedDays : \A m \in Listed[d] :
                               ended[m] # NotYet /\ ended[m].at < run[1].began =>
                                 \/ m \in matches
                                 \/ \E s \in FeedEntries(run[1]) :
                                      s[2].match = m /\ LeftOut(run[1], run[2], s[2]) # "none"
    BY DEF ReportsTellTheTruth
  <2> DEFINE o == outputs[run]
             c == run[1]
             cutoff == run[2]
             used == Used(c, cutoff)
             matches == {s[2].match : s \in used}
  <2>1. /\ c \in captured /\ cutoff \in Nat /\ o.used = used /\ ~ FitsRefused(c, cutoff)
        /\ o.terminations = {Termination(PlayerRow(c, s)) : s \in used}
    BY DEF EventInv, BuildsInv, Tells
  <2>2. CourtInv /\ Truthful(c) /\ Whole(c)
    BY <2>1 DEF EventInv, CapturesInv
  <2> HIDE DEF o, c, cutoff
  <2>3. Cardinality(used) = Cardinality(matches)
    BY <2>1, <2>2, CountedOnce
  <2>4. ASSUME NEW s \in used, NEW t, t = Termination(PlayerRow(c, s))
        PROVE  /\ t.match = s[2].match
               /\ ended[t.match] # NotYet /\ ended[t.match].at < cutoff
               /\ LET how == ended[t.match].how IN
                  /\ t.retirement <=> how.code = "E"
                  /\ t.winner = Canonical(SidesOf[t.match][how.winner])
                  /\ t.retirement => t.retiree = Canonical(SidesOf[t.match][3 - how.winner])
    BY <2>1, <2>2, <2>4, UsedEntries, TrueTermination
  <2>5. {t.match : t \in o.terminations} = matches
    BY <2>1, <2>4
  <2>6. ASSUME NEW d \in FeedDays, NEW m \in Listed[d],
               ended[m] # NotYet, ended[m].at < c.began
        PROVE  \/ m \in matches
               \/ \E s \in FeedEntries(c) : s[2].match = m /\ LeftOut(c, cutoff, s[2]) # "none"
    <3>1. PICK e \in c.days[d].entries : e.match = m
      BY <2>2, <2>6 DEF Truthful, Whole
    <3>2. <<d, e>> \in FeedEntries(c)
      BY DEF FeedEntries
    <3>3. LeftOut(c, cutoff, e) = "none" => <<d, e>> \in used
      BY <3>2 DEF Used
    <3> QED
      BY <3>1, <3>2, <3>3
  <2> QED
    BY <2>1, <2>3, <2>4, <2>5, <2>6 DEF o, c, cutoff
<1> QED
  BY <1>1, EventInvStarts, EventInvKeeps, PTL DEF EventSpec

-----------------------------------------------------------------------------
(* Requests, locks and replays *)

\* What LocksUseThePast asks of one lock.
UsesThePast(lock) ==
  LET snapshot == lock.record.snapshot
      cutoffs == {snapshot.data, snapshot.retirement, snapshot.duration}
              \cup (IF WithStrength(snapshot.framework)
                    THEN {snapshot.anchor, snapshot.integration} ELSE {})
              \cup (IF lock.rally = Absent THEN {} ELSE {RallyCutoffs[lock.rally]})
      known == {t - 1 : t \in cutoffs} \cup lock.information.items
               \cup {r.available : r \in lock.information.inactivity}
               \cup (IF lock.vintage = "retrospective" THEN {}
                     ELSE {s.available : s \in {s \in lock.sources :
                                                s.tour = snapshot.tour}})
  IN  /\ \A t \in known : t < lock.record.context.cutoff
      /\ lock.market.observed <= lock.record.context.cutoff
      /\ lock.market.observed < lock.record.context.start
      /\ lock.market.captured <= lock.record.context.cutoff

\* What has been checked of the request at hand, by how far it is: the checks
\* come before the estimate and stand until the lock is built.
Phases == {"idle", "asked", "checked", "simulating", "simulated"}
RequestInv ==
  /\ chain \in 1..Len(RallyCutoffs)
  /\ phase \in Phases
  /\ phase # "idle" => request \in Requests
  /\ phase \in {"checked", "simulating", "simulated"} => RequestAccepted
  /\ phase \in {"simulating", "simulated"} =>
       /\ ParametersAccepted
       /\ parameters.record = ParameterRecord(Snapshot, Context, Inactivity,
                                              request.mixtures, Production)
       /\ parameters.rally = RallyUsed(Snapshot, Context, SubSeq(RallyCutoffs, 1, chain))

LocksInv ==
  /\ \E S : locks \in Seq(S)
  /\ \A i \in DOMAIN locks : UsesThePast(locks[i])

PastInv == RequestInv /\ LocksInv

-----------------------------------------------------------------------------
LEMMA RallyLength ==
  /\ RallyCutoffs \in Seq(Nat)
  /\ Len(RallyCutoffs) \in Nat /\ Len(RallyCutoffs) >= 1
<1>1. RallyCutoffs \in Seq(Nat) /\ RallyCutoffs # <<>>
  BY RequestAssumption
<1> QED
  BY <1>1, EmptySeq

LEMMA RequestStarts == LockInit => PastInv
<1> SUFFICES ASSUME LockInit PROVE PastInv
  OBVIOUS
<1>1. RequestInv
  BY RallyLength DEF LockInit, RequestInv, Phases
<1>2. LocksInv
  <2>1. locks = <<>> /\ <<>> \in Seq({})
    BY DEF LockInit
  <2>2. \A i \in DOMAIN locks : UsesThePast(locks[i])
    BY <2>1
  <2> QED
    BY <2>1, <2>2, Zenon DEF LocksInv
<1> QED
  BY <1>1, <1>2 DEF PastInv

LEMMA AskKeeps == RequestInv /\ Ask => RequestInv'
BY DEF RequestInv, Phases, Ask

LEMMA AcceptedAgain ==
  ASSUME UNCHANGED request
  PROVE  /\ RequestAccepted' = RequestAccepted
         /\ ParametersAccepted' = ParametersAccepted
         /\ Inactivity' = Inactivity
BY DEF RequestAccepted, RunArranged, InformationFits, MarketFits, InactivityResolved, SourcesFit, ProductionReady, PathsDeclared, Requested, ParametersAccepted, ManifestsAgree, TrainingRetained, ScenariosPinned, DurationKnown, Inactivity, Snapshot, Context, Production

LEMMA CheckKeeps == RequestInv /\ Check => RequestInv'
<1> SUFFICES ASSUME RequestInv, Check PROVE RequestInv'
  OBVIOUS
<1>1. CASE RequestAccepted
  <2>1. phase' = "checked" /\ UNCHANGED <<request, chain>> /\ phase = "asked"
    BY <1>1 DEF Check
  <2> QED
    BY <1>1, <2>1, AcceptedAgain DEF RequestInv, Phases
<1>2. CASE ~ RequestAccepted
  BY <1>2 DEF Check, Forget, RequestInv, Phases
<1> QED
  BY <1>1, <1>2

LEMMA EstimateKeeps == RequestInv /\ Estimate => RequestInv'
<1> SUFFICES ASSUME RequestInv, Estimate PROVE RequestInv'
  OBVIOUS
<1>1. CASE ParametersAccepted
  <2>1. /\ phase = "checked" /\ phase' = "simulating" /\ UNCHANGED <<request, chain>>
        /\ parameters' =
             [record |-> ParameterRecord(Snapshot, Context, Inactivity,
                           request.mixtures, Production),
              rally |-> RallyUsed(Snapshot, Context, SubSeq(RallyCutoffs, 1, chain))]
    BY <1>1 DEF Estimate
  <2>2. Inactivity' = Inactivity /\ RequestAccepted' /\ ParametersAccepted'
    BY <1>1, <2>1, AcceptedAgain DEF RequestInv
  <2>3. Snapshot' = Snapshot /\ Context' = Context /\ Production' = Production
    BY <2>1 DEF Snapshot, Context, Production
  <2> QED
    BY <2>1, <2>2, <2>3 DEF RequestInv, Phases
<1>2. CASE ~ ParametersAccepted
  BY <1>2 DEF Estimate, Forget, RequestInv, Phases
<1> QED
  BY <1>1, <1>2

\* A step that keeps the request, the parameters and the chain, and goes on
\* from simulating to simulating or simulated.
LEMMA SimulateKeeps ==
  ASSUME RequestInv, UNCHANGED <<request, parameters, chain>>, phase = "simulating",
         phase' \in {"simulating", "simulated"}
  PROVE  RequestInv'
<1>1. Inactivity' = Inactivity /\ RequestAccepted' /\ ParametersAccepted'
  BY AcceptedAgain DEF RequestInv
<1>2. Snapshot' = Snapshot /\ Context' = Context /\ Production' = Production
  BY DEF Snapshot, Context, Production
<1> QED
  BY <1>1, <1>2 DEF RequestInv, Phases

\* A step that touches none of them.
LEMMA RequestRests ==
  ASSUME RequestInv, UNCHANGED <<request, parameters, chain, phase>>
  PROVE  RequestInv'
<1>1. /\ Inactivity' = Inactivity /\ RequestAccepted' = RequestAccepted
      /\ ParametersAccepted' = ParametersAccepted
  BY AcceptedAgain DEF RequestInv
<1>2. Snapshot' = Snapshot /\ Context' = Context /\ Production' = Production
  BY DEF Snapshot, Context, Production
<1> QED
  BY <1>1, <1>2 DEF RequestInv

LEMMA ActivateKeeps == RequestInv /\ ActivateRally => RequestInv'
BY RallyLength DEF RequestInv, Phases, ActivateRally

-----------------------------------------------------------------------------
\* The newest artifact of a chain of numbers that ends before the cutoff does.
LEMMA RallyBefore ==
  ASSUME NEW snapshot, NEW context, NEW count \in 1..Len(RallyCutoffs)
  PROVE  LET used == RallyUsed(snapshot, context, SubSeq(RallyCutoffs, 1, count))
         IN  used # Absent => /\ RallyCutoffs[used] \in Nat
                              /\ RallyCutoffs[used] < context.cutoff
<1> DEFINE row == SubSeq(RallyCutoffs, 1, count)
           safe == {i \in DOMAIN row : row[i] < context.cutoff}
           used == RallyUsed(snapshot, context, row)
<1>1. DOMAIN row = 1..count /\ \A i \in 1..count : row[i] = RallyCutoffs[i]
  <2>1. RallyCutoffs \in Seq(Nat) /\ 1 \in 1..Len(RallyCutoffs) + 1
        /\ count \in 0..Len(RallyCutoffs)
    BY RallyLength
  <2>2. /\ row \in Seq(Nat) /\ Len(row) = count
        /\ \A i \in 1..count : row[i] = RallyCutoffs[i]
    BY <2>1, SubSeqProperties, RallyLength
  <2> QED
    BY <2>2, LenProperties
<1> HIDE DEF row
<1>2. SUFFICES ASSUME used # Absent
               PROVE  RallyCutoffs[used] \in Nat /\ RallyCutoffs[used] < context.cutoff
  BY DEF row
<1>3. safe # {} /\ used = CHOOSE i \in safe : \A j \in safe : j <= i
  BY <1>2 DEF RallyUsed
<1>4. safe \in SUBSET Nat /\ IsFiniteSet(safe)
  <2>1. IsFiniteSet(1..count) /\ safe \in SUBSET (1..count) /\ 1..count \subseteq Nat
    BY <1>1, FS_Interval
  <2> QED
    BY <2>1, FS_Subset
<1>5. \E i \in safe : \A j \in safe : j <= i
  <2> HIDE DEF safe
  <2>1. safe \in SUBSET Int
    BY <1>4
  <2> QED
    BY <2>1, <1>3, <1>4, MaxOfFinite
<1>6. used \in safe
  BY <1>3, <1>5
<1>7. RallyCutoffs \in [1..Len(RallyCutoffs) -> Nat]
  BY RallyLength, LenProperties
<1> QED
  BY <1>1, <1>6, <1>7, RallyLength

LEMMA DraftParts ==
  /\ Draft.record = parameters.record /\ Draft.rally = parameters.rally
  /\ Draft.information = request.information /\ Draft.vintage = request.vintage
  /\ Draft.sources = request.sources /\ Draft.market = request.market
BY DEF Draft

\* What the checks say of the fits, of the bundle and of the quote.
LEMMA DraftUsesThePast ==
  ASSUME RequestInv, phase = "simulated", LockAccepted(Draft)
  PROVE  UsesThePast(Draft)
<1> DEFINE cutoff == Context.cutoff
<1>1. /\ RequestAccepted /\ ParametersAccepted /\ request \in Requests
      /\ parameters.record = ParameterRecord(Snapshot, Context, Inactivity,
                                             request.mixtures, Production)
      /\ parameters.rally = RallyUsed(Snapshot, Context, SubSeq(RallyCutoffs, 1, chain))
      /\ chain \in 1..Len(RallyCutoffs)
  BY DEF RequestInv
<1>2. Draft.record.snapshot = Snapshot /\ Draft.record.context = Context
  BY <1>1, DraftParts DEF ParameterRecord
<1>3. cutoff \in Nat /\ Context.start \in Nat \ {0}
  BY <1>1, RequestAssumption DEF Context
<1>4. /\ {Snapshot.data, Snapshot.retirement, Snapshot.duration} \subseteq Nat
      /\ Snapshot.anchor \in Nat /\ Snapshot.integration \in Nat
  BY <1>1, RequestAssumption DEF Snapshot
<1>5. /\ Snapshot.data <= cutoff /\ Snapshot.retirement <= cutoff
      /\ Snapshot.duration <= cutoff
      /\ WithStrength(Snapshot.framework) =>
           Snapshot.anchor <= cutoff /\ Snapshot.integration <= cutoff
  <2>1. EstimateAccepted(Snapshot, Context, Inactivity, request.mixtures, Production)
    BY <1>1 DEF ParametersAccepted
  <2>2. Snapshot.retirement <= cutoff
    BY <2>1, <1>3 DEF EstimateAccepted, RetirementMatches, Complete, Absent
  <2>3. Snapshot.duration <= cutoff
    BY <2>1, <1>3 DEF EstimateAccepted, WithDuration, Absent
  <2> QED
    BY <2>1, <2>2, <2>3 DEF EstimateAccepted, StrengthMatches
<1>6. Draft.rally # Absent => /\ RallyCutoffs[Draft.rally] \in Nat
                              /\ RallyCutoffs[Draft.rally] < cutoff
  BY <1>1, DraftParts, RallyBefore
<1>7. /\ \A t \in request.information.items : t < cutoff
      /\ \A r \in request.information.inactivity : r.available < cutoff
  BY <1>1 DEF RequestAccepted, InformationFits
<1>8. request.vintage # "retrospective" =>
        \A s \in request.sources : s.tour = Snapshot.tour => s.available < cutoff
  BY <1>1, RequestAssumption DEF RequestAccepted, SourcesFit
<1>9. /\ request.market.observed <= cutoff /\ request.market.captured <= cutoff
      /\ request.market.observed < Context.start
  <2>1. MarketCoherent(Draft)
    BY DEF LockAccepted
  <2>2. CASE Snapshot.framework = "v1.3"
    BY <2>1, <2>2, <1>2, DraftParts DEF MarketCoherent
  <2>3. CASE Snapshot.framework # "v1.3"
    BY <2>1, <2>3, <1>2, <1>3, DraftParts DEF MarketCoherent, NoQuote
  <2> QED
    BY <2>2, <2>3
<1> HIDE DEF cutoff
<1>10. \A t \in {Snapshot.data, Snapshot.retirement, Snapshot.duration}
               \cup (IF WithStrength(Snapshot.framework)
                     THEN {Snapshot.anchor, Snapshot.integration} ELSE {}) :
         t - 1 < cutoff
  BY <1>3, <1>4, <1>5 DEF cutoff
<1>11. Draft.rally # Absent => RallyCutoffs[Draft.rally] - 1 < cutoff
  BY <1>3, <1>6 DEF cutoff
<1> QED
  BY <1>2, <1>7, <1>8, <1>9, <1>10, <1>11, DraftParts DEF UsesThePast, cutoff

LEMMA LocksGrow ==
  ASSUME LocksInv, NEW lock, UsesThePast(lock), locks' = Append(locks, lock)
  PROVE  LocksInv'
<1>1. PICK S : locks \in Seq(S)
  BY DEF LocksInv
<1> DEFINE T == S \cup {lock}
<1>2. locks \in Seq(T) /\ lock \in T
  BY <1>1, SeqMonotonic
<1>3. locks' \in Seq(T)
  BY <1>2
<1>4. \A i \in DOMAIN locks' : i \in DOMAIN locks \/ locks'[i] = lock
  BY <1>2, AppendProperties, LenProperties
<1>5. \A i \in DOMAIN locks : locks'[i] = locks[i]
  BY <1>2, AppendProperties, LenProperties
<1>6. \A i \in DOMAIN locks' : UsesThePast(locks'[i])
  BY <1>4, <1>5 DEF LocksInv
<1> QED
  BY <1>3, <1>6, Zenon DEF LocksInv

LEMMA BuildKeeps == PastInv /\ Build => PastInv'
<1> SUFFICES ASSUME PastInv, Build PROVE PastInv'
  OBVIOUS
<1>1. RequestInv'
  BY DEF PastInv, RequestInv, Build, Forget, Phases
<1>2. CASE locks' = Append(locks, Draft) /\ LockAccepted(Draft)
  BY <1>1, <1>2, DraftUsesThePast, LocksGrow DEF PastInv, Build
<1>3. CASE UNCHANGED locks
  BY <1>1, <1>3 DEF PastInv, LocksInv
<1> QED
  BY <1>2, <1>3 DEF Build

LEMMA PastKeeps == PastInv /\ [LockNext]_lockVars => PastInv'
<1> SUFFICES ASSUME PastInv, [LockNext]_lockVars PROVE PastInv'
  OBVIOUS
<1>1. ASSUME UNCHANGED locks, RequestInv' PROVE PastInv'
  BY <1>1 DEF PastInv, LocksInv
<1>2. CASE Ask
  BY <1>1, <1>2, AskKeeps DEF Ask, PastInv
<1>3. CASE Check
  BY <1>1, <1>3, CheckKeeps DEF Check, PastInv
<1>4. CASE Estimate
  BY <1>1, <1>4, EstimateKeeps DEF Estimate, PastInv
<1>5. CASE SimulateFixed
  BY <1>1, <1>5, SimulateKeeps DEF SimulateFixed, PastInv
<1>6. CASE SimulateCheckpoint
  BY <1>1, <1>6, SimulateKeeps DEF SimulateCheckpoint, PastInv
<1>7. CASE Build
  BY <1>7, BuildKeeps
<1>8. CASE \E i \in DOMAIN locks : Replay(i)
  BY <1>1, <1>8, RequestRests DEF Replay, PastInv
<1>9. CASE ActivateRally
  BY <1>1, <1>9, ActivateKeeps DEF ActivateRally, PastInv
<1>10. CASE UNCHANGED lockVars
  BY <1>1, <1>10, RequestRests DEF lockVars, PastInv
<1> QED
  BY <1>2, <1>3, <1>4, <1>5, <1>6, <1>7, <1>8, <1>9, <1>10 DEF LockNext

\* For any requests, in any order, with artifacts activated between them:
\* nothing a lock rests on came to be known after its cutoff.
THEOREM LocksAlwaysUseThePast == LockSpec => []LocksUseThePast
<1>1. PastInv => LocksUseThePast
  BY DEF PastInv, LocksInv, UsesThePast, LocksUseThePast
<1> QED
  BY <1>1, RequestStarts, PastKeeps, PTL DEF LockSpec

-----------------------------------------------------------------------------
\* A record of accepted parameters passes the validator it is restored by:
\* its mixtures are complete, and completing them again adds none.
LEMMA MixturesComplete ==
  ASSUME NEW mixtures, NEW context
  PROVE  LET all == Mixtures(mixtures, context)
         IN  Players \ {m.player : m \in all} = {} /\ Mixtures(all, context) = all
<1> DEFINE all == Mixtures(mixtures, context)
<1>1. ASSUME NEW p \in Players, \A m \in all : m.player # p PROVE FALSE
  <2>1. p \notin {m.player : m \in mixtures}
    BY <1>1 DEF Mixtures
  <2>2. CentralMixture(p, context) \in all
    BY <2>1 DEF Mixtures
  <2> QED
    BY <1>1, <2>2 DEF CentralMixture
<1>2. Players \ {m.player : m \in all} = {}
  BY <1>1
<1> HIDE DEF all
<1>3. Mixtures(all, context) = all
  BY <1>2 DEF Mixtures
<1> QED
  BY <1>2, <1>3 DEF all

LEMMA MixturesApart ==
  ASSUME NEW mixtures, NEW context, IsFiniteSet(mixtures),
         Cardinality({m.player : m \in mixtures}) = Cardinality(mixtures)
  PROVE  LET all == Mixtures(mixtures, context)
         IN  Cardinality({m.player : m \in all}) = Cardinality(all)
<1> DEFINE all == Mixtures(mixtures, context)
           Named(set) == {m.player : m \in set}
           nameOf(set) == [m \in set |-> m.player]
<1>1. \A set : nameOf(set) \in Surjection(set, Named(set))
  BY DEF Surjection
<1>2. nameOf(mixtures) \in Injection(mixtures, Named(mixtures))
  <2>1. nameOf(mixtures) \in Surjection(mixtures, Named(mixtures))
    BY <1>1
  <2> HIDE DEF nameOf
  <2> QED
    BY <2>1, FS_Surjection
<1>3. \A m, n \in mixtures : m.player = n.player => m = n
  <2>1. \A m, n \in mixtures : nameOf(mixtures)[m] = nameOf(mixtures)[n] => m = n
    BY <1>2 DEF Injection, IsInjective
  <2> QED
    BY <2>1
<1>4. all = mixtures \cup {CentralMixture(p, context) :
                            p \in Players \ {m.player : m \in mixtures}}
  BY DEF Mixtures
<1>5. IsFiniteSet(all)
  <2>1. all \in SUBSET (mixtures \cup {CentralMixture("a", context), CentralMixture("b", context)})
    BY <1>4 DEF Players
  <2>2. IsFiniteSet(mixtures \cup {CentralMixture("a", context)})
    BY FS_AddElement
  <2>3. IsFiniteSet((mixtures \cup {CentralMixture("a", context)})
                      \cup {CentralMixture("b", context)})
    BY <2>2, FS_AddElement
  <2>4. (mixtures \cup {CentralMixture("a", context)}) \cup {CentralMixture("b", context)}
          = mixtures \cup {CentralMixture("a", context), CentralMixture("b", context)}
    OBVIOUS
  <2> QED
    BY <2>1, <2>3, <2>4, FS_Subset
<1>6. \A m, n \in all : m.player = n.player => m = n
  <2>1. \A p : CentralMixture(p, context).player = p
    BY DEF CentralMixture
  <2> QED
    BY <1>3, <1>4, <2>1
<1>7. nameOf(all) \in Injection(all, Named(all))
  <2>1. nameOf(all) \in Surjection(all, Named(all))
    BY <1>1
  <2>2. \A m, n \in all : nameOf(all)[m] = nameOf(all)[n] => m = n
    BY <1>6
  <2> QED
    BY <2>1, <2>2 DEF Injection, IsInjective, Surjection
<1>8. nameOf(all) \in Surjection(all, Named(all))
  BY <1>1
<1> HIDE DEF all, nameOf
<1>9. Cardinality(Named(all)) = Cardinality(all)
  BY <1>5, <1>7, <1>8, FS_Surjection
<1> QED
  BY <1>9 DEF all

LEMMA RecordRestores ==
  ASSUME NEW snapshot, NEW context, NEW records, NEW mixtures, NEW production,
         IsFiniteSet(mixtures),
         EstimateAccepted(snapshot, context, records, mixtures, production)
  PROVE  RestoreAccepted(ParameterRecord(snapshot, context, records, mixtures, production))
<1> DEFINE record == ParameterRecord(snapshot, context, records, mixtures, production)
           all == IF Complete(snapshot) THEN Mixtures(mixtures, context) ELSE {}
<1>1. /\ record.snapshot = snapshot /\ record.context = context
      /\ record.inactivity = records /\ record.production = production
      /\ record.mixtures = all
  BY DEF ParameterRecord
<1>2. Complete(snapshot) => Mixtures(all, context) = all
  BY MixturesComplete
<1>3. ParameterRecord(snapshot, context, records, all, production) = record
  BY <1>2 DEF ParameterRecord
<1>4. RetirementMatches(snapshot, context, all, production)
  <2>1. RetirementMatches(snapshot, context, mixtures, production)
    BY DEF EstimateAccepted
  <2>2. CASE Complete(snapshot)
    <3>1. Cardinality({m.player : m \in all}) = Cardinality(all)
      BY <2>1, <2>2, MixturesApart DEF RetirementMatches
    <3>2. \A m \in all : m.player \in Players
      BY <2>1, <2>2 DEF RetirementMatches, Mixtures, CentralMixture
    <3>3. \A m \in Mixtures(all, context) : m.cutoff = context.cutoff
      BY <1>2, <2>1, <2>2 DEF RetirementMatches
    <3> HIDE DEF all
    <3> QED
      BY <2>1, <2>2, <3>1, <3>2, <3>3 DEF RetirementMatches
  <2>3. CASE ~ Complete(snapshot)
    BY <2>3 DEF RetirementMatches
  <2> QED
    BY <2>2, <2>3
<1>5. EstimateAccepted(snapshot, context, records, all, production)
  BY <1>4 DEF EstimateAccepted
<1> HIDE DEF record, all
<1>6. RestoreAccepted(record)
  BY <1>1, <1>3, <1>5 DEF RestoreAccepted
<1> QED
  BY <1>6 DEF record

-----------------------------------------------------------------------------
\* What a lock keeps of its run: its paths are 1 to n in order, those of one
\* batch start at none, and its records, with final diagnostics, are those of
\* its paths.
OneBatch(paths) == \A k \in DOMAIN paths : paths[k].start = 0
InOrder(paths, n) == DOMAIN paths = 1..n /\ \A k \in 1..n : paths[k].path = k
PropsOf(lock) == [i \in DOMAIN lock.estimates |-> lock.estimates[i].prop]
Counted(lock) == Evaluated(PropsOf(lock), lock.paths, lock.rally)

PathsKept(lock) ==
  /\ lock.simulation.actual \in Nat
  /\ InOrder(lock.paths, lock.simulation.actual)
  /\ lock.runtime.chunk = lock.simulation.actual =>
       OneBatch(lock.paths) \/ ~ Len(lock.simulation.inspected) <= 1
  /\ lock.runtime = [lock.runtime EXCEPT !.chunk = lock.runtime.chunk]
RecordsKept(lock) ==
  /\ \E decisions, platform :
       lock.estimates = Records(PropsOf(lock), Counted(lock), decisions,
                                Stopping(Counted(lock), lock.simulation.policy), platform)
  /\ lock.summary = Summary(PropsOf(lock), lock.paths, Counted(lock))
RunKept(lock) ==
  RestoreAccepted(lock.record) /\ PathsKept(lock) /\ RecordsKept(lock)

\* What ReplayAgrees supposes of a lock.
Replayable(lock) ==
  /\ lock.runtime.chunk = lock.simulation.actual
  /\ (\E k \in DOMAIN lock.estimates : UsesRally(lock.estimates[k].prop)) =>
       /\ lock.rally = ReplayedRally(lock)
       /\ lock.rally = Absent \/ Len(lock.simulation.inspected) <= 1

LEMMA SameOutcome ==
  ASSUME NEW prop, NEW p, NEW q, NEW used, NEW other, p.path = q.path,
         UsesRally(prop) => used = other /\ (used = Absent \/ p.start = q.start)
  PROVE  Outcome(prop, p, used) = Outcome(prop, q, other)
<1>1. CASE ~ UsesRally(prop)
  BY <1>1 DEF Outcome
<1>2. CASE UsesRally(prop) /\ used = Absent
  BY <1>2 DEF Outcome
<1>3. CASE UsesRally(prop) /\ used # Absent
  BY <1>3 DEF Outcome
<1> QED
  BY <1>1, <1>2, <1>3

\* One path settles a prop as it did, whatever batch it is drawn in.
LEMMA OutcomeAgain ==
  ASSUME NEW lock, RunKept(lock), Replayable(lock),
         NEW i \in DOMAIN lock.estimates, NEW k \in 1..lock.simulation.actual
  PROVE  Outcome(PropsOf(lock)[i], PathBatch(0, lock.simulation.actual)[k],
                 ReplayedRally(lock))
           = Outcome(PropsOf(lock)[i], lock.paths[k], lock.rally)
<1>1. /\ PathBatch(0, lock.simulation.actual)[k].path = k
      /\ PathBatch(0, lock.simulation.actual)[k].start = 0
  BY DEF PathBatch, RunKept, PathsKept
<1>2. lock.paths[k].path = k
  BY DEF RunKept, PathsKept, InOrder
<1>3. PropsOf(lock)[i] = lock.estimates[i].prop
  BY DEF PropsOf
<1>4. UsesRally(PropsOf(lock)[i]) =>
        ReplayedRally(lock) = lock.rally /\ (lock.rally = Absent \/ lock.paths[k].start = 0)
  BY <1>3 DEF Replayable, RunKept, PathsKept, InOrder, OneBatch
<1> QED
  BY <1>1, <1>2, <1>4, SameOutcome

LEMMA CountedAgain ==
  ASSUME NEW lock, RunKept(lock), Replayable(lock)
  PROVE  Evaluated(PropsOf(lock), PathBatch(0, lock.simulation.actual),
                   ReplayedRally(lock)) = Counted(lock)
<1> DEFINE n == lock.simulation.actual
           paths == PathBatch(0, n)
           Way(i) == [k \in DOMAIN paths |->
                        Outcome(PropsOf(lock)[i], paths[k], ReplayedRally(lock))]
           Was(i) == [k \in DOMAIN lock.paths |->
                        Outcome(PropsOf(lock)[i], lock.paths[k], lock.rally)]
<1>1. DOMAIN paths = 1..n /\ DOMAIN lock.paths = 1..n
  BY DEF PathBatch, RunKept, PathsKept, InOrder
<1>2. ASSUME NEW i \in DOMAIN lock.estimates PROVE Way(i) = Was(i)
  <2>1. \A k \in 1..n : Outcome(PropsOf(lock)[i], paths[k], ReplayedRally(lock))
                          = Outcome(PropsOf(lock)[i], lock.paths[k], lock.rally)
    BY OutcomeAgain
  <2> HIDE DEF paths, n
  <2> QED
    BY <1>1, <2>1
<1>3. DOMAIN PropsOf(lock) = DOMAIN lock.estimates
  BY DEF PropsOf
<1> HIDE DEF n, paths
<1>4. /\ Evaluated(PropsOf(lock), paths, ReplayedRally(lock))
           = [i \in DOMAIN PropsOf(lock) |-> PathCounts(Way(i))]
      /\ Counted(lock) = [i \in DOMAIN PropsOf(lock) |-> PathCounts(Was(i))]
  BY DEF Evaluated, Counted
<1> HIDE DEF Way, Was
<1> QED
  BY <1>2, <1>3, <1>4 DEF n, paths

LEMMA NoPlatform ==
  ASSUME NEW prop, NEW estimate, NEW decision, NEW stopping
  PROVE  EstimateRecord(prop, estimate, decision, stopping, "none").platform = NoInteger
BY DEF EstimateRecord

\* A record is made again from its own decision, on the platform it was for
\* or where none has an integer of a platform.
LEMMA RecordAgain ==
  ASSUME NEW prop, NEW estimate, NEW decision, NEW stopping, NEW platform, NEW other,
         LET r == EstimateRecord(prop, estimate, decision, stopping, platform)
         IN  \/ platform # "none" /\ other # "none"
             \/ other = "none" /\ r.platform = NoInteger
  PROVE  LET r == EstimateRecord(prop, estimate, decision, stopping, platform)
         IN  EstimateRecord(prop, estimate, r.support, stopping, other) = r
<1> DEFINE final == IF decision = "SUPPORTED" /\ stopping = "UNAVAILABLE"
                    THEN "DATA_UNAVAILABLE" ELSE decision
           r == EstimateRecord(prop, estimate, decision, stopping, platform)
           usable == /\ final = "SUPPORTED"
                     /\ estimate.unresolved = 0 /\ Settled(estimate) > 0
           integer == IF Settled(estimate) = 0 THEN NoInteger
                      ELSE Hundredth[<<estimate.yes, Settled(estimate)>>]
           adaptive == stopping # "none"
           Made(p) ==
             [prop |-> prop, estimate |-> estimate, support |-> final,
              stopping |-> stopping,
              grade |-> IF ContainsDuration(prop) THEN "B" ELSE "A",
              model |-> IF adaptive THEN integer ELSE NoInteger,
              submitted |-> IF ~ adaptive /\ usable THEN Clamped(integer) ELSE NoInteger,
              platform |-> IF adaptive /\ usable /\ p # "none"
                           THEN Clamped(integer) ELSE NoInteger]
<1>1. r = Made(platform)
  BY DEF EstimateRecord
<1>2. (IF final = "SUPPORTED" /\ stopping = "UNAVAILABLE"
       THEN "DATA_UNAVAILABLE" ELSE final) = final
  OBVIOUS
<1>3. EstimateRecord(prop, estimate, final, stopping, other) = Made(other)
  BY <1>2 DEF EstimateRecord
<1> HIDE DEF final, usable, integer, adaptive
<1>4. r.support = final
  BY <1>1
<1>5. r.platform = Made(platform).platform
  BY <1>1
<1> HIDE DEF r
<1>6. Made(other).platform = Made(platform).platform
  BY <1>5 DEF r
<1>7. Made(other) = Made(platform)
  BY <1>6
<1> QED
  BY <1>1, <1>3, <1>4, <1>7 DEF r

LEMMA RunReplays ==
  ASSUME NEW lock, RunKept(lock), Replayable(lock)
  PROVE  Exact(ReplayReport(lock)) /\ RestoreAccepted(lock.record)
<1> DEFINE props == PropsOf(lock)
           paths == PathBatch(0, lock.simulation.actual)
           estimates == Evaluated(props, paths, ReplayedRally(lock))
           stopping == Stopping(Counted(lock), lock.simulation.policy)
           other == IF \E i \in DOMAIN lock.estimates :
                         lock.estimates[i].platform # NoInteger
                    THEN "sportspredict" ELSE "none"
<1>1. estimates = Counted(lock)
  BY CountedAgain
<1>2. PICK decisions, platform :
        lock.estimates = Records(props, Counted(lock), decisions, stopping, platform)
  BY DEF RunKept, RecordsKept
<1>3. DOMAIN lock.estimates = DOMAIN props
  BY DEF PropsOf
<1>4. \A i \in DOMAIN props :
        lock.estimates[i] = EstimateRecord(props[i], Counted(lock)[i], decisions[i],
                                           stopping[i], platform)
  <2> HIDE DEF props, stopping
  <2> QED
    BY <1>2 DEF Records
<1>5. \A i \in DOMAIN props :
        EstimateRecord(props[i], Counted(lock)[i], lock.estimates[i].support,
                       stopping[i], other) = lock.estimates[i]
  <2>1. platform = "none" => \A i \in DOMAIN props : lock.estimates[i].platform = NoInteger
    <3> HIDE DEF props, stopping, other
    <3> QED
      BY <1>4, NoPlatform
  <2>2. other = "none" => \A i \in DOMAIN props : lock.estimates[i].platform = NoInteger
    <3> HIDE DEF props
    <3> QED
      BY <1>3
  <2>3. other # "none" => platform # "none"
    <3> HIDE DEF props
    <3> QED
      BY <1>3, <2>1
  <2> HIDE DEF props, stopping, other
  <2>4. TAKE i \in DOMAIN props
  <2>5. lock.estimates[i] = EstimateRecord(props[i], Counted(lock)[i], decisions[i],
                                           stopping[i], platform)
    BY <1>4
  <2>6. \/ platform # "none" /\ other # "none"
        \/ other = "none" /\ lock.estimates[i].platform = NoInteger
    BY <2>2, <2>3
  <2> QED
    BY <2>5, <2>6, RecordAgain
<1>6. Recorded(lock, props) = [i \in DOMAIN props |-> lock.estimates[i].support]
  BY DEF Recorded
<1>7. Records(props, estimates, Recorded(lock, props),
              Stopping(estimates, lock.simulation.policy), other) = lock.estimates
  <2> HIDE DEF props, stopping, other, estimates
  <2>1. Records(props, Counted(lock), Recorded(lock, props), stopping, other)
          = [i \in DOMAIN props |-> lock.estimates[i]]
    BY <1>5, <1>6 DEF Records
  <2>2. lock.estimates = [i \in DOMAIN props |-> lock.estimates[i]]
    BY <1>2 DEF Records
  <2> QED
    BY <1>1, <2>1, <2>2 DEF stopping
<1>8. Summary(props, paths, estimates) = lock.summary
  <2>1. lock.summary = Summary(props, lock.paths, Counted(lock))
    BY DEF RunKept, RecordsKept
  <2>2. [i \in DOMAIN paths |-> paths[i].path] = [i \in DOMAIN lock.paths |-> lock.paths[i].path]
    BY DEF PathBatch, RunKept, PathsKept, InOrder
  <2> HIDE DEF props, paths, estimates
  <2> QED
    BY <1>1, <2>1, <2>2 DEF Summary
<1>9. lock.runtime = [lock.runtime EXCEPT !.chunk = lock.simulation.actual]
  BY DEF RunKept, PathsKept, Replayable
<1>10. Exact(ReplayReport(lock))
  <2> HIDE DEF paths, estimates, stopping, other
  <2>1. props = [i \in DOMAIN lock.estimates |-> lock.estimates[i].prop]
    BY DEF PropsOf
  <2> HIDE DEF props
  <2>2. ReplayReport(lock) =
          [records |-> lock.estimates =
             Records(props, estimates, Recorded(lock, props),
                     Stopping(estimates, lock.simulation.policy), other),
           summary |-> lock.summary = Summary(props, paths, estimates),
           runtime |-> lock.identity =>
             lock.runtime = [lock.runtime EXCEPT !.chunk = lock.simulation.actual]]
    BY <2>1, Zenon DEF ReplayReport, paths, estimates, other
  <2> DEFINE A == lock.estimates =
                    Records(props, estimates, Recorded(lock, props),
                            Stopping(estimates, lock.simulation.policy), other)
             B == lock.summary = Summary(props, paths, estimates)
             C == lock.identity =>
                    lock.runtime = [lock.runtime EXCEPT !.chunk = lock.simulation.actual]
  <2>3. A /\ B /\ C
    BY <1>7, <1>8, <1>9
  <2> HIDE DEF A, B, C
  <2>4. ReplayReport(lock) = [records |-> A, summary |-> B, runtime |-> C]
    BY <2>2 DEF A, B, C
  <2> QED
    BY <2>3, <2>4 DEF Exact
<1> QED
  BY <1>10 DEF RunKept

-----------------------------------------------------------------------------
\* A run on its way to a lock.  An adaptive one has seen the checkpoints so far
\* and the paths up to the last of them, and ends at the last of all or where
\* every diagnostic is stable; a fixed one is done at once.
AdaptiveRun ==
  /\ inspected \in Seq(Nat) /\ Len(inspected) <= Len(Checkpoints)
  /\ \A i \in 1..Len(inspected) : inspected[i] = Checkpoints[i]
  /\ Len(batch.paths) = IF inspected = <<>> THEN 0 ELSE Last(inspected)
  /\ batch.chunk = Len(batch.paths)
  /\ Len(inspected) <= 1 => OneBatch(batch.paths)
  /\ phase = "simulating" => Len(inspected) < Len(Checkpoints)
  /\ phase = "simulated" =>
       Len(batch.paths) = Last(Checkpoints) \/ AllStable(Estimates, FALSE)
FixedRun ==
  /\ inspected = <<>>
  /\ batch.chunk = Len(batch.paths) => OneBatch(batch.paths)

RunInv ==
  /\ phase \in {"idle", "asked", "checked"} => batch = NoBatch /\ inspected = <<>>
  /\ phase \in {"simulating", "simulated"} =>
       /\ \E S : batch.paths \in Seq(S)
       /\ InOrder(batch.paths, Len(batch.paths))
       /\ IF Adaptive(request.policy) THEN AdaptiveRun ELSE FixedRun

ReplayInv ==
  /\ PastInv /\ RunInv
  /\ \A i \in DOMAIN locks : RunKept(locks[i])

-----------------------------------------------------------------------------
LEMMA SameCounts ==
  ASSUME UNCHANGED world
  PROVE  \A props, paths, used : Evaluated(props, paths, used)' = Evaluated(props, paths, used)
BY DEF Evaluated, Outcome

LEMMA SameRun ==
  ASSUME UNCHANGED world, NEW lock, RunKept(lock)
  PROVE  RunKept(lock)'
<1>1. Counted(lock)' = Counted(lock)
  BY SameCounts DEF Counted
<1>2. RecordsKept(lock)' = RecordsKept(lock)
  BY <1>1 DEF RecordsKept
<1> QED
  BY <1>2 DEF RunKept

LEMMA SameEstimates ==
  ASSUME UNCHANGED <<world, request, parameters>>
  PROVE  /\ GeneratedProps' = GeneratedProps
         /\ batch' = batch => Estimates' = Estimates
<1>1. GeneratedProps' = GeneratedProps
  BY DEF GeneratedProps
<1> QED
  BY <1>1, SameCounts DEF Estimates

\* Functions on 1..n are sequences.
LEMMA TupleIsSequence ==
  ASSUME NEW n \in Nat, NEW f, f = [i \in 1..n |-> f[i]]
  PROVE  Len(f) = n /\ \E S : f \in Seq(S)
<1> DEFINE S == {f[i] : i \in 1..n}
<1>1. f \in [1..n -> S]
  OBVIOUS
<1>2. f \in Seq(S)
  <2> HIDE DEF S
  <2> QED
    BY <1>1
<1>3. DOMAIN f = 1..Len(f) /\ Len(f) \in Nat /\ DOMAIN f = 1..n
  BY <1>1, <1>2, LenProperties
<1>4. Len(f) = n
  BY <1>3
<1> QED
  BY <1>2, <1>4, Zenon

LEMMA BatchInOrder ==
  ASSUME NEW start \in Nat, NEW n \in Nat
  PROVE  /\ Len(PathBatch(start, n)) = n
         /\ \E S : PathBatch(start, n) \in Seq(S)
         /\ \A i \in 1..n : /\ PathBatch(start, n)[i].path = start + i
                            /\ PathBatch(start, n)[i].start = start
<1>1. PathBatch(start, n) = [i \in 1..n |-> PathBatch(start, n)[i]]
  BY DEF PathBatch
<1>2. \A i \in 1..n : /\ PathBatch(start, n)[i].path = start + i
                      /\ PathBatch(start, n)[i].start = start
  BY DEF PathBatch
<1> QED
  BY <1>1, <1>2, TupleIsSequence

LEMMA ChunkedInOrder ==
  ASSUME NEW size \in Nat \ {0}, NEW n \in Nat
  PROVE  /\ Len(Chunked(n, size)) = n
         /\ \E S : Chunked(n, size) \in Seq(S)
         /\ \A i \in 1..n : Chunked(n, size)[i].path = i
         /\ size = n => \A i \in 1..n : Chunked(n, size)[i].start = 0
<1>1. Chunked(n, size) = [i \in 1..n |-> Chunked(n, size)[i]]
  BY DEF Chunked
<1>2. \A i \in 1..n : /\ Chunked(n, size)[i].path = i
                      /\ Chunked(n, size)[i].start = ((i - 1) \div size) * size
  BY DEF Chunked
<1>3. ASSUME size = n, NEW i \in 1..n PROVE ((i - 1) \div size) * size = 0
  <2>1. (i - 1) \in Nat /\ i - 1 < size
    BY <1>3
  <2>2. (i - 1) \div size = 0
    BY <2>1
  <2> QED
    BY <2>2
<1> QED
  BY <1>1, <1>2, <1>3, TupleIsSequence

LEMMA SimulatedInOrder ==
  ASSUME NEW n \in Nat, NEW checkpoint \in Nat
  PROVE  LET run == Simulated(n, checkpoint)
         IN  /\ \E S : run.paths \in Seq(S)
             /\ InOrder(run.paths, Len(run.paths))
             /\ run.chunk = Len(run.paths) => OneBatch(run.paths)
<1> DEFINE run == Simulated(n, checkpoint)
<1> SUFFICES /\ \E S : run.paths \in Seq(S)
             /\ InOrder(run.paths, Len(run.paths))
             /\ run.chunk = Len(run.paths) => OneBatch(run.paths)
  OBVIOUS
<1>1. CASE checkpoint > 0
  <2>1. run.paths = Chunked(n, checkpoint) /\ run.chunk = checkpoint
    BY <1>1 DEF Simulated
  <2> HIDE DEF run
  <2>2. checkpoint \in Nat \ {0}
    BY <1>1
  <2>3. /\ Len(run.paths) = n /\ \E S : run.paths \in Seq(S)
        /\ \A i \in 1..n : run.paths[i].path = i
        /\ checkpoint = n => \A i \in 1..n : run.paths[i].start = 0
    <3>1. PICK paths : paths = Chunked(n, checkpoint)
      OBVIOUS
    <3>2. /\ Len(paths) = n /\ \E S : paths \in Seq(S)
          /\ \A i \in 1..n : paths[i].path = i
          /\ checkpoint = n => \A i \in 1..n : paths[i].start = 0
      BY <2>2, <3>1, ChunkedInOrder
    <3>3. run.paths = paths
      BY <2>1, <3>1
    <3> QED
      BY <3>2, <3>3
  <2>4. DOMAIN run.paths = 1..n
    BY <2>3, LenProperties
  <2> QED
    BY <2>1, <2>3, <2>4 DEF InOrder, OneBatch
<1>2. CASE ~ checkpoint > 0
  <2>1. run.paths = PathBatch(0, n)
    BY <1>2 DEF Simulated
  <2> HIDE DEF run
  <2>2. /\ Len(run.paths) = n /\ \E S : run.paths \in Seq(S)
        /\ \A i \in 1..n : run.paths[i].path = i /\ run.paths[i].start = 0
    <3> DEFINE first == 0
    <3>1. first \in Nat /\ \A i \in 1..n : first + i = i
      OBVIOUS
    <3> HIDE DEF first
    <3>2. /\ Len(PathBatch(first, n)) = n
          /\ \E S : PathBatch(first, n) \in Seq(S)
          /\ \A i \in 1..n : /\ PathBatch(first, n)[i].path = first + i
                             /\ PathBatch(first, n)[i].start = first
      BY <3>1, BatchInOrder
    <3> QED
      BY <2>1, <3>1, <3>2 DEF first
  <2>3. DOMAIN run.paths = 1..n
    BY <2>2, LenProperties
  <2> QED
    BY <2>2, <2>3 DEF InOrder, OneBatch
<1> QED
  BY <1>1, <1>2

-----------------------------------------------------------------------------
\* The steps of a run.
LEMMA FixedSimulates ==
  ASSUME RequestInv, RunInv, SimulateFixed
  PROVE  RunInv'
<1> DEFINE again == /\ Requested = StandardPaths(request.policy)
                    /\ FixedPaths.escalated > Requested
                    /\ Escalates(Evaluated(GeneratedProps,
                                    Simulated(Requested, request.checkpoint).paths,
                                    parameters.rally),
                         IF request.policy = "fixed" THEN FixedPaths.escalated
                                                     ELSE MinimumSettled)
           n == IF again THEN FixedPaths.escalated ELSE Requested
<1>1. /\ phase = "simulating" /\ ~ Adaptive(request.policy) /\ phase' = "simulated"
      /\ UNCHANGED <<request, inspected>>
      /\ batch' = Simulated(n, request.checkpoint)
  BY DEF SimulateFixed
<1>2. n \in Nat /\ request.checkpoint \in Nat
  <2>1. request \in Requests /\ PathsDeclared
    BY <1>1 DEF RequestInv, RequestAccepted
  <2>2. Requested \in {StandardPaths(request.policy), FixedPaths.escalated}
    BY <1>1, <2>1 DEF PathsDeclared
  <2>3. FixedPaths.standard \in Nat /\ FixedPaths.escalated \in Nat
    BY RequestAssumption
  <2>4. Requested \in Nat
    BY <2>2, <2>3 DEF StandardPaths
  <2> HIDE DEF again
  <2> QED
    BY <2>1, <2>3, <2>4, RequestAssumption
<1> HIDE DEF n, again
<1>3. /\ \E S : batch'.paths \in Seq(S)
      /\ InOrder(batch'.paths, Len(batch'.paths))
      /\ batch'.chunk = Len(batch'.paths) => OneBatch(batch'.paths)
  BY <1>1, <1>2, SimulatedInOrder
<1>4. inspected' = <<>>
  BY <1>1 DEF RunInv, FixedRun
<1> QED
  BY <1>1, <1>3, <1>4 DEF RunInv, FixedRun, Adaptive

LEMMA CheckpointTypes ==
  /\ Checkpoints \in Seq(Nat \ {0}) /\ Len(Checkpoints) \in Nat
  /\ \A i \in 1..Len(Checkpoints) : Checkpoints[i] \in Nat \ {0}
  /\ \A i, j \in 1..Len(Checkpoints) : i < j => Checkpoints[i] < Checkpoints[j]
<1>1. Checkpoints \in Seq(Nat \ {0})
  BY RequestAssumption
<1> QED
  BY <1>1, LockAssumption, LenProperties, ElementOfSeq

LEMMA AdaptiveSimulates ==
  ASSUME RequestInv, RunInv, SimulateCheckpoint
  PROVE  RunInv'
<1> DEFINE seen == Len(inspected)
           prior == IF inspected = <<>> THEN 0 ELSE Last(inspected)
           checkpoint == Checkpoints[seen + 1]
           chunk == PathBatch(prior, checkpoint - prior)
           paths == batch.paths \o chunk
           terminal == checkpoint = Last(Checkpoints)
<1>1. /\ phase = "simulating" /\ Adaptive(request.policy)
      /\ batch' = [paths |-> paths, chunk |-> checkpoint]
      /\ inspected' = Append(inspected, checkpoint)
      /\ phase' = IF terminal \/ AllStable(Evaluated(GeneratedProps, paths,
                                                     parameters.rally), terminal)
                  THEN "simulated" ELSE "simulating"
      /\ UNCHANGED <<world, request, parameters>>
  BY DEF SimulateCheckpoint, NextChunk
<1>2. AdaptiveRun /\ InOrder(batch.paths, Len(batch.paths))
  BY <1>1 DEF RunInv
<1>3. seen \in Nat /\ seen < Len(Checkpoints) /\ seen + 1 \in 1..Len(Checkpoints)
  BY <1>1, <1>2, CheckpointTypes, LenProperties DEF AdaptiveRun
<1>4. checkpoint \in Nat \ {0}
  BY <1>3, CheckpointTypes
<1>5. prior \in Nat /\ prior < checkpoint /\ Len(batch.paths) = prior
  <2>1. CASE inspected = <<>>
    BY <1>2, <1>4, <2>1 DEF AdaptiveRun
  <2>2. CASE inspected # <<>>
    <3>1. seen \in 1..Len(Checkpoints) /\ prior = Checkpoints[seen]
      <4>1. seen \in Nat \ {0}
        BY <1>2, <2>2, EmptySeq DEF AdaptiveRun
      <4>2. Last(inspected) = Checkpoints[seen]
        BY <1>2, <4>1 DEF AdaptiveRun, Last
      <4> QED
        BY <1>3, <2>2, <4>1, <4>2
    <3>2. Checkpoints[seen] < Checkpoints[seen + 1] /\ Checkpoints[seen] \in Nat
      BY <1>3, <3>1, CheckpointTypes
    <3> QED
      BY <1>2, <2>2, <3>1, <3>2 DEF AdaptiveRun
  <2> QED
    BY <2>1, <2>2
<1>6. checkpoint - prior \in Nat
  BY <1>4, <1>5
<1> HIDE DEF prior, checkpoint
<1>7. /\ Len(chunk) = checkpoint - prior /\ \E S : chunk \in Seq(S)
      /\ \A i \in 1..(checkpoint - prior) :
           chunk[i].path = prior + i /\ chunk[i].start = prior
  BY <1>5, <1>6, BatchInOrder
<1> HIDE DEF chunk
<1>8. PICK S : batch.paths \in Seq(S) /\ chunk \in Seq(S)
  <2>1. PICK A : batch.paths \in Seq(A)
    BY <1>1 DEF RunInv
  <2>2. PICK B : chunk \in Seq(B)
    BY <1>7
  <2>3. batch.paths \in Seq(A \cup B) /\ chunk \in Seq(A \cup B)
    BY <2>1, <2>2, SeqMonotonic
  <2> QED
    BY <2>3
<1>9. /\ paths \in Seq(S) /\ Len(paths) = checkpoint
      /\ \A i \in 1..prior : paths[i] = batch.paths[i]
      /\ \A i \in (prior + 1)..checkpoint : paths[i] = chunk[i - prior]
  <2>1. /\ paths \in Seq(S) /\ Len(paths) = Len(batch.paths) + Len(chunk)
        /\ \A i \in 1..(Len(batch.paths) + Len(chunk)) :
             paths[i] = IF i <= Len(batch.paths) THEN batch.paths[i]
                        ELSE chunk[i - Len(batch.paths)]
    BY <1>8, ConcatProperties
  <2>2. Len(batch.paths) + Len(chunk) = checkpoint
    BY <1>4, <1>5, <1>7
  <2> HIDE DEF paths
  <2> QED
    BY <1>4, <1>5, <2>1, <2>2
<1>10. InOrder(paths, checkpoint)
  <2>1. DOMAIN paths = 1..checkpoint
    BY <1>9, LenProperties
  <2>2. ASSUME NEW i \in 1..checkpoint PROVE paths[i].path = i
    <3>1. CASE i <= prior
      <4>1. i \in 1..prior
        BY <3>1, <1>5
      <4> QED
        BY <4>1, <1>2, <1>5, <1>9 DEF InOrder
    <3>2. CASE ~ i <= prior
      <4>1. i \in (prior + 1)..checkpoint /\ i - prior \in 1..(checkpoint - prior)
        BY <3>2, <1>4, <1>5
      <4>2. chunk[i - prior].path = prior + (i - prior)
        BY <4>1, <1>7
      <4> QED
        BY <4>1, <4>2, <1>4, <1>5, <1>9
    <3> QED
      BY <3>1, <3>2
  <2> QED
    BY <2>1, <2>2 DEF InOrder
<1>11. inspected = <<>> => OneBatch(paths)
  <2>1. SUFFICES ASSUME inspected = <<>>, NEW i \in 1..checkpoint
                 PROVE  paths[i].start = 0
    BY <1>10 DEF OneBatch, InOrder
  <2>2. prior = 0
    BY <2>1 DEF prior
  <2>3. i \in (prior + 1)..checkpoint /\ i - prior \in 1..(checkpoint - prior)
    BY <1>4, <2>2
  <2> QED
    BY <1>7, <1>9, <2>2, <2>3
<1> HIDE DEF paths
<1>12. /\ inspected' \in Seq(Nat) /\ Len(inspected') = seen + 1
       /\ inspected' # <<>> /\ Last(inspected') = checkpoint
       /\ \A i \in 1..(seen + 1) : inspected'[i] = Checkpoints[i]
  <2>1. /\ inspected' \in Seq(Nat) /\ inspected' # <<>> /\ Len(inspected') = seen + 1
        /\ \A i \in 1..seen : inspected'[i] = inspected[i]
        /\ inspected'[seen + 1] = checkpoint
    BY <1>1, <1>2, <1>4, AppendProperties DEF AdaptiveRun
  <2>2. Last(inspected') = checkpoint
    BY <2>1 DEF Last
  <2>3. ASSUME NEW i \in 1..(seen + 1) PROVE inspected'[i] = Checkpoints[i]
    <3>1. CASE i = seen + 1
      BY <2>1, <3>1 DEF checkpoint
    <3>2. CASE i # seen + 1
      <4>1. i \in 1..seen
        BY <3>2, <1>3
      <4> QED
        BY <4>1, <1>2, <2>1 DEF AdaptiveRun
    <3> QED
      BY <3>1, <3>2
  <2> QED
    BY <2>1, <2>2, <2>3
<1>13. batch'.paths = paths /\ batch'.chunk = checkpoint
  BY <1>1
<1>14. Len(inspected') <= 1 => OneBatch(paths)
  <2>1. SUFFICES ASSUME seen + 1 <= 1 PROVE inspected = <<>>
    BY <1>11, <1>12
  <2>2. seen = 0
    BY <2>1, <1>3
  <2> QED
    BY <2>2, <1>2, EmptySeq DEF AdaptiveRun
<1>15. Estimates' = Evaluated(GeneratedProps, paths, parameters.rally)
  <2>1. GeneratedProps' = GeneratedProps /\ parameters' = parameters /\ world' = world
    BY <1>1, SameEstimates
  <2> QED
    BY <1>13, <2>1 DEF Estimates, Evaluated, Outcome
<1>16. phase' = "simulating" => seen + 1 < Len(Checkpoints)
  <2>1. SUFFICES ASSUME ~ terminal PROVE seen + 1 # Len(Checkpoints)
    BY <1>1, <1>3
  <2> QED
    BY <2>1 DEF checkpoint, Last
<1>17. phase' = "simulated" =>
         Len(paths) = Last(Checkpoints) \/ AllStable(Estimates', FALSE)
  <2>1. CASE terminal
    BY <1>9, <2>1
  <2>2. CASE ~ terminal
    <3>1. terminal = FALSE
      BY <2>2
    <3> HIDE DEF terminal
    <3> QED
      BY <1>1, <1>15, <3>1
  <2> QED
    BY <2>1, <2>2
<1>18. AdaptiveRun'
  <2> HIDE DEF terminal
  <2>1. /\ inspected' \in Seq(Nat) /\ Len(inspected') <= Len(Checkpoints)
        /\ \A i \in 1..Len(inspected') : inspected'[i] = Checkpoints[i]
    BY <1>3, <1>12
  <2>2. Len(batch'.paths) = IF inspected' = <<>> THEN 0 ELSE Last(inspected')
    BY <1>9, <1>12, <1>13
  <2>3. batch'.chunk = Len(batch'.paths)
    BY <1>9, <1>13
  <2>4. Len(inspected') <= 1 => OneBatch(batch'.paths)
    BY <1>13, <1>14
  <2>5. phase' = "simulating" => Len(inspected') < Len(Checkpoints)
    BY <1>12, <1>16
  <2>6. phase' = "simulated" =>
          Len(batch'.paths) = Last(Checkpoints) \/ AllStable(Estimates', FALSE)
    BY <1>13, <1>17
  <2> QED
    BY <2>1, <2>2, <2>3, <2>4, <2>5, <2>6 DEF AdaptiveRun
<1>19. phase' \in {"simulating", "simulated"}
  BY <1>1
<1> QED
  BY <1>1, <1>9, <1>10, <1>13, <1>18, <1>19 DEF RunInv, Adaptive

\* The lock that is built keeps its run.
LEMMA DraftFields ==
  /\ Draft.paths = batch.paths
  /\ Draft.simulation = [requested |-> Requested, actual |-> Len(batch.paths),
                         policy |-> request.policy, inspected |-> inspected,
                         platform |-> request.platform,
                         escalated |-> Draft.simulation.escalated]
  /\ Draft.runtime = [chunk |-> batch.chunk, processes |-> request.workers,
                      duration |-> WithDuration(Snapshot)]
  /\ Draft.summary = Summary(GeneratedProps, batch.paths, Estimates)
  /\ \E decisions :
       Draft.estimates = Records(GeneratedProps, Estimates, decisions, StoppingFound,
                                 request.platform)
<1> DEFINE props == GeneratedProps
           duration == WithDuration(Snapshot)
           decisions == [i \in DOMAIN props |->
             Decision(Support(props[i], duration), Estimates[i], StoppingFound[i])]
<1>1. Draft.estimates = Records(GeneratedProps, Estimates, decisions, StoppingFound,
                                request.platform)
  BY DEF Draft
<1> QED
  BY <1>1 DEF Draft

\* Stable diagnostics do not change when they are taken for final ones.
LEMMA StableIsFinal ==
  ASSUME NEW estimate, NEW terminal, StoppingStatus(estimate, terminal) = "INTEGER_STABLE"
  PROVE  StoppingStatus(estimate, TRUE) = "INTEGER_STABLE"
BY DEF StoppingStatus

LEMMA FinalDiagnostics ==
  ASSUME RunInv, phase = "simulated"
  PROVE  StoppingFound = Stopping(Estimates, request.policy)
<1>1. CASE ~ Adaptive(request.policy)
  BY <1>1 DEF StoppingFound, Stopping
<1>2. CASE Adaptive(request.policy)
  <2> DEFINE terminal == Len(batch.paths) = Last(Checkpoints)
  <2>1. terminal \/ AllStable(Estimates, FALSE)
    BY <1>2 DEF RunInv, AdaptiveRun
  <2>2. StoppingFound = [i \in DOMAIN Estimates |-> StoppingStatus(Estimates[i], terminal)]
    BY <1>2 DEF StoppingFound
  <2>3. Stopping(Estimates, request.policy)
          = [i \in DOMAIN Estimates |-> StoppingStatus(Estimates[i], TRUE)]
    BY <1>2 DEF Stopping
  <2>4. terminal \in BOOLEAN
    OBVIOUS
  <2> HIDE DEF terminal
  <2>5. CASE terminal = TRUE
    BY <2>2, <2>3, <2>5
  <2>6. CASE terminal = FALSE
    <3>1. \A i \in DOMAIN Estimates :
            StoppingStatus(Estimates[i], FALSE) = StoppingStatus(Estimates[i], TRUE)
      BY <2>1, <2>6, StableIsFinal DEF AllStable
    <3> QED
      BY <2>2, <2>3, <2>6, <3>1
  <2> QED
    BY <2>4, <2>5, <2>6
<1> QED
  BY <1>1, <1>2

LEMMA DraftKeepsRun ==
  ASSUME RequestInv, RunInv, phase = "simulated"
  PROVE  RunKept(Draft)
<1> DEFINE props == GeneratedProps
           d == Draft
<1>1. /\ d.paths = batch.paths /\ d.rally = parameters.rally
      /\ d.simulation.actual = Len(batch.paths)
      /\ d.simulation.policy = request.policy
      /\ d.simulation.inspected = inspected
      /\ d.runtime = [chunk |-> batch.chunk, processes |-> request.workers,
                      duration |-> WithDuration(Snapshot)]
      /\ d.summary = Summary(props, batch.paths, Estimates)
  BY DraftFields, DraftParts
<1>2. PICK decisions :
        d.estimates = Records(props, Estimates, decisions, StoppingFound, request.platform)
  BY DraftFields
<1>3. StoppingFound = Stopping(Estimates, request.policy)
  BY FinalDiagnostics
<1>4. RestoreAccepted(d.record)
  <2>1. /\ ParametersAccepted /\ request \in Requests
        /\ d.record = ParameterRecord(Snapshot, Context, Inactivity,
                                      request.mixtures, Production)
    BY DraftParts DEF RequestInv
  <2>2. IsFiniteSet(request.mixtures)
    BY <2>1, RequestAssumption
  <2> HIDE DEF d
  <2> QED
    BY <2>1, <2>2, RecordRestores DEF ParametersAccepted
<1>5. PathsKept(d)
  <2>1. Len(batch.paths) \in Nat /\ InOrder(batch.paths, Len(batch.paths))
    BY LenProperties DEF RunInv
  <2>2. batch.chunk = Len(batch.paths) => OneBatch(batch.paths) \/ ~ Len(inspected) <= 1
    BY DEF RunInv, AdaptiveRun, FixedRun
  <2> HIDE DEF d
  <2>3. d.runtime.chunk = batch.chunk
    BY <1>1
  <2>4. d.runtime = [d.runtime EXCEPT !.chunk = d.runtime.chunk]
    BY <1>1
  <2> QED
    BY <1>1, <2>1, <2>2, <2>3, <2>4 DEF PathsKept
<1> HIDE DEF d
<1>6. RecordsKept(d)
  <2>1. DOMAIN d.estimates = DOMAIN props
    BY <1>2 DEF Records
  <2>2. \A i \in DOMAIN props : d.estimates[i].prop = props[i]
    BY <1>2 DEF Records, EstimateRecord
  <2>3. PropsOf(d) = [i \in DOMAIN props |-> props[i]]
    BY <2>1, <2>2 DEF PropsOf
  <2>4. DOMAIN PropsOf(d) = DOMAIN props /\ \A i \in DOMAIN props : PropsOf(d)[i] = props[i]
    BY <2>3
  <2> HIDE DEF props
  <2>5. Counted(d) = Estimates
    <3>1. \A i \in DOMAIN props : \A k \in DOMAIN batch.paths :
            Outcome(PropsOf(d)[i], batch.paths[k], parameters.rally)
              = Outcome(props[i], batch.paths[k], parameters.rally)
      BY <2>4
    <3> DEFINE Ways(prop) ==
                 [k \in DOMAIN batch.paths |-> Outcome(prop, batch.paths[k], parameters.rally)]
    <3>2. /\ Counted(d) = [i \in DOMAIN PropsOf(d) |-> PathCounts(Ways(PropsOf(d)[i]))]
          /\ Estimates = [i \in DOMAIN props |-> PathCounts(Ways(props[i]))]
      BY <1>1 DEF Counted, Estimates, Evaluated, props
    <3> HIDE DEF Ways
    <3> QED
      BY <2>4, <3>2
  <2>6. d.estimates = Records(PropsOf(d), Estimates, decisions, StoppingFound, request.platform)
    BY <1>2, <2>4 DEF Records
  <2>7. d.summary = Summary(PropsOf(d), batch.paths, Estimates)
    BY <1>1, <2>4 DEF Summary
  <2> QED
    BY <1>1, <1>3, <2>5, <2>6, <2>7 DEF RecordsKept
<1> QED
  BY <1>4, <1>5, <1>6 DEF RunKept, d

LEMMA ReplayStarts == LockInit => ReplayInv
<1> SUFFICES ASSUME LockInit PROVE ReplayInv
  OBVIOUS
<1>1. RunInv
  BY DEF LockInit, RunInv
<1>2. locks = <<>>
  BY DEF LockInit
<1>3. \A i \in DOMAIN locks : RunKept(locks[i])
  BY <1>2
<1> QED
  BY <1>1, <1>3, RequestStarts DEF ReplayInv

LEMMA RunRests ==
  ASSUME RunInv, UNCHANGED <<world, request, parameters, batch, inspected, phase>>
  PROVE  RunInv'
<1>1. Estimates' = Estimates
  BY SameEstimates
<1>2. AdaptiveRun' = AdaptiveRun
  BY <1>1 DEF AdaptiveRun
<1> QED
  BY <1>2 DEF RunInv, FixedRun, Adaptive

LEMMA RunKeeps ==
  ASSUME RequestInv, RunInv, [LockNext]_lockVars
  PROVE  RunInv'
<1>1. CASE Ask
  BY <1>1 DEF Ask, RunInv
<1>2. CASE Check
  BY <1>2 DEF Check, Forget, RunInv
<1>3. CASE Estimate
  <2>1. CASE ParametersAccepted
    <3>1. /\ phase' = "simulating" /\ UNCHANGED <<world, request, batch, inspected>>
          /\ batch = NoBatch /\ inspected = <<>>
      BY <1>3, <2>1 DEF Estimate, RunInv
    <3>2. /\ batch.paths = <<>> /\ Len(batch.paths) = 0 /\ batch.chunk = 0
          /\ <<>> \in Seq({}) /\ DOMAIN batch.paths = 1..0
      BY <3>1 DEF NoBatch
    <3>3. InOrder(batch.paths, Len(batch.paths)) /\ OneBatch(batch.paths)
      BY <3>2 DEF InOrder, OneBatch
    <3>4. AdaptiveRun'
      <4>1. Len(Checkpoints) \in Nat /\ Len(Checkpoints) > 0
        BY CheckpointTypes, LockAssumption, EmptySeq
      <4>2. inspected' = <<>> /\ Len(inspected') = 0 /\ inspected' \in Seq(Nat)
        BY <3>1
      <4> QED
        BY <3>1, <3>2, <3>3, <4>1, <4>2 DEF AdaptiveRun
    <3>5. FixedRun'
      BY <3>1, <3>3 DEF FixedRun
    <3>6. \E S : batch'.paths \in Seq(S)
      BY <3>1, <3>2
    <3>7. InOrder(batch'.paths, Len(batch'.paths))
      BY <3>1, <3>3
    <3> QED
      BY <3>1, <3>4, <3>5, <3>6, <3>7 DEF RunInv
  <2>2. CASE ~ ParametersAccepted
    BY <1>3, <2>2 DEF Estimate, Forget, RunInv
  <2> QED
    BY <2>1, <2>2
<1>4. CASE SimulateFixed
  BY <1>4, FixedSimulates
<1>5. CASE SimulateCheckpoint
  BY <1>5, AdaptiveSimulates
<1>6. CASE Build
  BY <1>6 DEF Build, Forget, RunInv
<1>7. CASE \E i \in DOMAIN locks : Replay(i)
  BY <1>7, RunRests DEF Replay
<1>8. CASE ActivateRally
  BY <1>8, RunRests DEF ActivateRally
<1>9. CASE UNCHANGED lockVars
  BY <1>9, RunRests DEF lockVars
<1> QED
  BY <1>1, <1>2, <1>3, <1>4, <1>5, <1>6, <1>7, <1>8, <1>9 DEF LockNext

LEMMA WorldRests == [LockNext]_lockVars => UNCHANGED world
BY DEF LockNext, lockVars, Ask, Check, Estimate, SimulateFixed, SimulateCheckpoint,
       Build, Replay, ActivateRally

\* Locks are only added, and only those that have just been simulated.
LEMMA LocksAdded ==
  ASSUME [LockNext]_lockVars
  PROVE  \/ UNCHANGED locks
         \/ phase = "simulated" /\ locks' = Append(locks, Draft)
BY DEF LockNext, lockVars, Ask, Check, Estimate, SimulateFixed, SimulateCheckpoint,
       Build, Replay, ActivateRally

LEMMA ReplayKeeps == ReplayInv /\ [LockNext]_lockVars => ReplayInv'
<1> SUFFICES ASSUME ReplayInv, [LockNext]_lockVars PROVE ReplayInv'
  OBVIOUS
<1>1. PastInv' /\ RunInv' /\ UNCHANGED world
  BY PastKeeps, RunKeeps, WorldRests DEF ReplayInv, PastInv
<1>2. ASSUME NEW i \in DOMAIN locks' PROVE RunKept(locks[i])'
  <2>1. PICK lock : lock = locks'[i]
    OBVIOUS
  <2>2. RunKept(lock)
    <3>1. CASE UNCHANGED locks
      BY <2>1, <3>1 DEF ReplayInv
    <3>2. CASE phase = "simulated" /\ locks' = Append(locks, Draft)
      <4>1. RunKept(Draft)
        BY <3>2, DraftKeepsRun DEF ReplayInv, PastInv
      <4>2. PICK S : locks \in Seq(S)
        BY DEF ReplayInv, PastInv, LocksInv
      <4> DEFINE T == S \cup {Draft}
      <4>3. locks \in Seq(T) /\ Draft \in T
        BY <4>2, SeqMonotonic
      <4>4. CASE i \in DOMAIN locks
        <5>1. locks'[i] = locks[i]
          BY <3>2, <4>3, <4>4, AppendProperties, LenProperties
        <5> QED
          BY <2>1, <4>4, <5>1 DEF ReplayInv
      <4>5. CASE i \notin DOMAIN locks
        <5>1. locks'[i] = Draft
          BY <3>2, <4>3, <4>5, AppendProperties, LenProperties
        <5> QED
          BY <2>1, <4>1, <5>1
      <4> QED
        BY <4>4, <4>5
    <3> QED
      BY <3>1, <3>2, LocksAdded
  <2>3. RunKept(lock)'
    BY <1>1, <2>2, SameRun
  <2> QED
    BY <2>1, <2>3 DEF RunKept
<1> QED
  BY <1>1, <1>2 DEF ReplayInv

\* For any paths of the seed, any checkpoints and any diagnostics: whatever is
\* activated between, the replay of a lock that was not run in chunks and whose
\* rally counts are of the artifact still used is the lock, in every field.
THEOREM ReplaysAgree == LockSpec => []ReplayAgrees
<1>1. ReplayInv => ReplayAgrees
  <2> SUFFICES ASSUME ReplayInv, NEW i \in DOMAIN locks, Replayable(locks[i])
               PROVE  Exact(ReplayReport(locks[i])) /\ RestoreAccepted(locks[i].record)
    BY DEF ReplayAgrees, Replayable
  <2> QED
    BY RunReplays DEF ReplayInv
<1> QED
  BY <1>1, ReplayStarts, ReplayKeeps, PTL DEF LockSpec
-----------------------------------------------------------------------------
(* Ratings: the order of a set *)

StrictOrder(S, R) ==
  /\ \A x \in S : <<x, x>> \notin R
  /\ \A x, y \in S : x # y => <<x, y>> \in R \/ <<y, x>> \in R
  /\ \A x, y, z \in S : <<x, y>> \in R /\ <<y, z>> \in R => <<x, z>> \in R
BelowIn(S, R, x) == {y \in S : <<y, x>> \in R}

\* A sequence that has all of S, each member after those before it.
Sorted(s, n, S, R) ==
  /\ s \in [1..n -> S]
  /\ \A x \in S : \E i \in 1..n : s[i] = x
  /\ \A i, j \in 1..n : i < j => <<s[i], s[j]>> \in R

\* In such a sequence the member at k is the one that has k - 1 before it.
LEMMA SortedRanks ==
  ASSUME NEW S, NEW R, StrictOrder(S, R), NEW n \in Nat, NEW s, Sorted(s, n, S, R),
         NEW k \in 1..n
  PROVE  Cardinality(BelowIn(S, R, s[k])) = k - 1
<1>1. k \in Int /\ k - 1 \in Int /\ 1..(k - 1) \subseteq 1..n
  OBVIOUS
<1>2. PICK B : B = BelowIn(S, R, s[k])
  OBVIOUS
<1>3. PICK f : f = [i \in 1..(k - 1) |-> s[i]]
  OBVIOUS
<1>4. \A i \in 1..(k - 1) : s[i] \in B
  BY <1>1, <1>2 DEF Sorted, BelowIn
<1>5. ASSUME NEW x \in B PROVE \E i \in 1..(k - 1) : s[i] = x
  <2>1. x \in S /\ <<x, s[k]>> \in R
    BY <1>2 DEF BelowIn
  <2>2. PICK i \in 1..n : s[i] = x
    BY <2>1 DEF Sorted
  <2>3. s[k] \in S
    BY DEF Sorted
  <2>4. CASE i >= k
    <3>1. i = k \/ k < i
      BY <2>4
    <3>2. CASE i = k
      BY <2>1, <2>2, <2>3, <3>2 DEF StrictOrder
    <3>3. CASE k < i
      <4>1. <<s[k], x>> \in R
        BY <2>2, <3>3 DEF Sorted
      <4>2. <<x, x>> \in R
        BY <2>1, <2>3, <4>1 DEF StrictOrder
      <4> QED
        BY <2>1, <4>2 DEF StrictOrder
    <3> QED
      BY <3>1, <3>2, <3>3
  <2> QED
    BY <2>2, <2>4
<1>6. ASSUME NEW i \in 1..(k - 1), NEW j \in 1..(k - 1), s[i] = s[j] PROVE i = j
  <2>1. i \in 1..n /\ j \in 1..n /\ s[i] \in S
    BY <1>1 DEF Sorted
  <2>2. ~ i < j
    BY <1>6, <2>1 DEF Sorted, StrictOrder
  <2>3. ~ j < i
    BY <1>6, <2>1 DEF Sorted, StrictOrder
  <2> QED
    BY <2>2, <2>3
<1>7. f \in Bijection(1..(k - 1), B)
  <2>1. f \in [1..(k - 1) -> B]
    BY <1>3, <1>4
  <2>2. f \in Surjection(1..(k - 1), B)
    BY <1>3, <1>5, <2>1 DEF Surjection
  <2>3. f \in Injection(1..(k - 1), B)
    BY <1>3, <1>6, <2>1 DEF Injection, IsInjective
  <2> QED
    BY <2>2, <2>3 DEF Bijection
<1>8. Cardinality(1..(k - 1)) = k - 1 /\ IsFiniteSet(1..(k - 1))
  BY <1>1, FS_Interval
<1>9. ExistsBijection(1..(k - 1), B)
  BY <1>7 DEF ExistsBijection
<1>10. Cardinality(B) = Cardinality(1..(k - 1))
  BY <1>8, <1>9, FS_Bijection
<1> QED
  BY <1>2, <1>8, <1>10

\* There is one such sequence at most, and it is Ordered(S, R).
LEMMA SortedIsOrdered ==
  ASSUME NEW S, NEW R, StrictOrder(S, R), NEW n \in Nat, NEW s, Sorted(s, n, S, R)
  PROVE  IsFiniteSet(S) /\ Cardinality(S) = n /\ s = Ordered(S, R)
<1>1. ASSUME NEW i \in 1..n, NEW j \in 1..n, s[i] = s[j] PROVE i = j
  <2>1. s[i] \in S
    BY DEF Sorted
  <2>2. ~ i < j /\ ~ j < i
    BY <1>1, <2>1 DEF Sorted, StrictOrder
  <2> QED
    BY <2>2
<1>2. s \in Bijection(1..n, S)
  BY <1>1 DEF Sorted, Bijection, Injection, IsInjective, Surjection
<1>3. Cardinality(1..n) = n /\ IsFiniteSet(1..n)
  BY FS_Interval
<1>4. ExistsBijection(1..n, S)
  BY <1>2 DEF ExistsBijection
<1>5. IsFiniteSet(S) /\ Cardinality(S) = n
  BY <1>3, <1>4, FS_Bijection
<1>6. ASSUME NEW k \in 1..n
      PROVE  s[k] = CHOOSE x \in S : Cardinality({y \in S : <<y, x>> \in R}) = k - 1
  <2> DEFINE P(x) == Cardinality({y \in S : <<y, x>> \in R}) = k - 1
  <2>1. \A j \in 1..n : Cardinality({y \in S : <<y, s[j]>> \in R}) = j - 1
    BY SortedRanks DEF BelowIn
  <2>2. s[k] \in S /\ P(s[k])
    BY <2>1 DEF Sorted
  <2>3. ASSUME NEW x \in S, P(x) PROVE x = s[k]
    <3>1. PICK j \in 1..n : s[j] = x
      BY DEF Sorted
    <3>2. j - 1 = k - 1
      BY <2>1, <2>3, <3>1
    <3> QED
      BY <3>1, <3>2
  <2> HIDE DEF P
  <2>4. s[k] = CHOOSE x \in S : P(x)
    BY <2>2, <2>3
  <2> QED
    BY <2>4 DEF P
<1>7. s = [k \in 1..n |-> s[k]]
  BY DEF Sorted
<1> QED
  BY <1>5, <1>6, <1>7 DEF Ordered

\* In a finite set there is one.
LEMMA OrderedIsSorted ==
  ASSUME NEW S, NEW R, StrictOrder(S, R), IsFiniteSet(S)
  PROVE  Cardinality(S) \in Nat /\ Sorted(Ordered(S, R), Cardinality(S), S, R)
<1>1. PICK n \in Nat : n = Cardinality(S)
  BY FS_CardinalityType
<1>2. PICK r : r = [x \in S |-> Cardinality(BelowIn(S, R, x))]
  OBVIOUS
<1>3. ASSUME NEW x \in S
      PROVE  IsFiniteSet(BelowIn(S, R, x)) /\ r[x] \in 0..(n - 1)
  <2>1. PICK B : B = BelowIn(S, R, x)
    OBVIOUS
  <2>2. B \in SUBSET S /\ B # S
    BY <2>1 DEF BelowIn, StrictOrder
  <2>3. IsFiniteSet(B) /\ Cardinality(B) <= n /\ Cardinality(B) # n
    BY <1>1, <2>2, FS_Subset
  <2>4. Cardinality(B) \in Nat
    BY <2>3, FS_CardinalityType
  <2> QED
    BY <1>2, <2>1, <2>3, <2>4
<1>4. ASSUME NEW x \in S, NEW y \in S, <<x, y>> \in R PROVE r[x] < r[y]
  <2>1. PICK A : A = BelowIn(S, R, x)
    OBVIOUS
  <2>2. PICK B : B = BelowIn(S, R, y)
    OBVIOUS
  <2>3. A \in SUBSET B
    BY <1>4, <2>1, <2>2 DEF BelowIn, StrictOrder
  <2>4. x \in B /\ x \notin A
    BY <1>4, <2>1, <2>2 DEF BelowIn, StrictOrder
  <2>5. IsFiniteSet(B) /\ IsFiniteSet(A)
    BY <1>3, <2>1, <2>2
  <2>6. Cardinality(A) <= Cardinality(B) /\ Cardinality(A) # Cardinality(B)
    BY <2>3, <2>4, <2>5, FS_Subset
  <2>7. Cardinality(A) \in Nat /\ Cardinality(B) \in Nat
    BY <2>5, FS_CardinalityType
  <2> QED
    BY <1>2, <2>1, <2>2, <2>6, <2>7
<1>5. ASSUME NEW x \in S, NEW y \in S, r[x] = r[y] PROVE x = y
  <2>1. SUFFICES ASSUME x # y PROVE FALSE
    OBVIOUS
  <2>2. <<x, y>> \in R \/ <<y, x>> \in R
    BY <2>1 DEF StrictOrder
  <2>3. r[x] \in 0..(n - 1) /\ r[y] \in 0..(n - 1)
    BY <1>3
  <2> QED
    BY <1>4, <1>5, <2>2, <2>3
<1>6. r \in Surjection(S, 0..(n - 1))
  <2>1. r \in [S -> 0..(n - 1)]
    BY <1>2, <1>3
  <2>2. r \in Injection(S, 0..(n - 1))
    BY <1>5, <2>1 DEF Injection, IsInjective
  <2>3. n - 1 \in Int /\ 0 \in Int
    OBVIOUS
  <2>4. IsFiniteSet(0..(n - 1))
    BY <2>3, FS_Interval
  <2>5. Cardinality(0..(n - 1)) = IF 0 > n - 1 THEN 0 ELSE (n - 1) - 0 + 1
    BY <2>3, FS_Interval
  <2>6. Cardinality(0..(n - 1)) = n
    BY <2>5
  <2> QED
    BY <1>1, <2>2, <2>4, <2>6, FS_Injection
<1>7. ASSUME NEW k \in 1..n
      PROVE  \E x \in S : r[x] = k - 1 /\ Ordered(S, R)[k] = x
  <2>1. k - 1 \in 0..(n - 1)
    OBVIOUS
  <2>2. PICK x \in S : r[x] = k - 1
    BY <1>6, <2>1 DEF Surjection
  <2>3. Ordered(S, R)[k] = CHOOSE z \in S : Cardinality({y \in S : <<y, z>> \in R}) = k - 1
    BY <1>1 DEF Ordered
  <2> DEFINE P(z) == Cardinality({y \in S : <<y, z>> \in R}) = k - 1
  <2>4. \A z \in S : P(z) <=> r[z] = k - 1
    BY <1>2 DEF BelowIn
  <2> HIDE DEF P
  <2>5. (CHOOSE z \in S : P(z)) = x
    BY <1>5, <2>2, <2>4
  <2>6. Ordered(S, R)[k] = x
    BY <2>3, <2>5 DEF P
  <2> QED
    BY <2>2, <2>6
<1>8. PICK s : s = Ordered(S, R)
  OBVIOUS
<1>9. DOMAIN s = 1..n /\ s = [k \in 1..n |-> s[k]]
  <2> DEFINE e(k) == CHOOSE x \in S : Cardinality({y \in S : <<y, x>> \in R}) = k - 1
  <2>1. s = [k \in 1..n |-> e(k)]
    BY <1>1, <1>8 DEF Ordered
  <2> HIDE DEF e
  <2> QED
    BY <2>1
<1>10. \A k \in 1..n : s[k] \in S /\ r[s[k]] = k - 1
  BY <1>7, <1>8
<1>11. s \in [1..n -> S]
  BY <1>9, <1>10
<1>12. ASSUME NEW x \in S PROVE \E i \in 1..n : s[i] = x
  <2>1. PICK k : k = r[x] + 1
    OBVIOUS
  <2>2. k \in 1..n /\ r[x] = k - 1
    BY <1>3, <2>1
  <2>3. s[k] \in S /\ r[s[k]] = r[x]
    BY <1>10, <2>2
  <2> QED
    BY <1>5, <2>2, <2>3
<1>13. ASSUME NEW i \in 1..n, NEW j \in 1..n, i < j PROVE <<s[i], s[j]>> \in R
  <2>1. s[i] \in S /\ s[j] \in S /\ r[s[i]] = i - 1 /\ r[s[j]] = j - 1
    BY <1>10
  <2>2. s[i] # s[j]
    BY <1>13, <2>1
  <2>3. CASE <<s[j], s[i]>> \in R
    BY <1>4, <1>13, <2>1, <2>3
  <2> QED
    BY <2>1, <2>2, <2>3 DEF StrictOrder
<1> QED
  BY <1>1, <1>8, <1>11, <1>12, <1>13 DEF Sorted

\* What keeps the order keeps the sequence.
LEMMA OrderCarried ==
  ASSUME NEW S, NEW R, StrictOrder(S, R), IsFiniteSet(S), NEW T, NEW Q, StrictOrder(T, Q),
         NEW f, f \in [S -> T], \A y \in T : \E x \in S : f[x] = y,
         \A x, y \in S : <<x, y>> \in R => <<f[x], f[y]>> \in Q
  PROVE  /\ IsFiniteSet(T) /\ Cardinality(T) = Cardinality(S)
         /\ \A k \in 1..Cardinality(S) : Ordered(T, Q)[k] = f[Ordered(S, R)[k]]
<1>1. PICK n \in Nat : n = Cardinality(S)
  BY FS_CardinalityType
<1>2. PICK s : s = Ordered(S, R)
  OBVIOUS
<1>3. Sorted(s, n, S, R)
  BY <1>1, <1>2, OrderedIsSorted
<1>4. PICK t : t = [k \in 1..n |-> f[s[k]]]
  OBVIOUS
<1>5. t \in [1..n -> T]
  BY <1>3, <1>4 DEF Sorted
<1>6. ASSUME NEW y \in T PROVE \E i \in 1..n : t[i] = y
  <2>1. PICK x \in S : f[x] = y
    OBVIOUS
  <2>2. PICK i \in 1..n : s[i] = x
    BY <1>3 DEF Sorted
  <2> QED
    BY <1>4, <2>1, <2>2
<1>7. ASSUME NEW i \in 1..n, NEW j \in 1..n, i < j PROVE <<t[i], t[j]>> \in Q
  <2>1. s[i] \in S /\ s[j] \in S /\ <<s[i], s[j]>> \in R
    BY <1>3, <1>7 DEF Sorted
  <2> QED
    BY <1>4, <2>1
<1>8. Sorted(t, n, T, Q)
  BY <1>5, <1>6, <1>7 DEF Sorted
<1>9. IsFiniteSet(T) /\ Cardinality(T) = n /\ t = Ordered(T, Q)
  BY <1>8, SortedIsOrdered
<1> QED
  BY <1>1, <1>2, <1>4, <1>9

Joined(A, B, S, R, n, m) ==
  /\ Cardinality(S) = n + m
  /\ \A k \in 1..n : Ordered(S, R)[k] = Ordered(A, R)[k]
  /\ \A k \in 1..m : Ordered(S, R)[n + k] = Ordered(B, R)[k]
BeforeAll(A, B, R) == \A a \in A, b \in B : <<a, b>> \in R

\* Of two sets, one before the other, the one is followed by the other.
LEMMA OrderJoined ==
  ASSUME NEW A, NEW B, NEW S, S = A \cup B, NEW R, StrictOrder(S, R),
         IsFiniteSet(A), IsFiniteSet(B),
         BeforeAll(A, B, R),
         NEW n \in Nat, n = Cardinality(A), NEW m \in Nat, m = Cardinality(B)
  PROVE  IsFiniteSet(S) /\ Joined(A, B, S, R, n, m)
<1>1. StrictOrder(A, R) /\ StrictOrder(B, R)
  BY DEF StrictOrder
<1>2. PICK s : s = Ordered(A, R)
  OBVIOUS
<1>3. PICK t : t = Ordered(B, R)
  OBVIOUS
<1>4. Sorted(s, n, A, R) /\ Sorted(t, m, B, R)
  BY <1>1, <1>2, <1>3, OrderedIsSorted
<1>5. S = A \cup B
  OBVIOUS
<1>6. PICK u : u = [k \in 1..(n + m) |-> IF k <= n THEN s[k] ELSE t[k - n]]
  OBVIOUS
<1>7. \A k \in 1..n : k \in 1..(n + m) /\ u[k] = s[k]
  BY <1>6
<1>8. \A k \in 1..m : n + k \in 1..(n + m) /\ u[n + k] = t[k]
  BY <1>6
<1>9. ASSUME NEW k \in 1..(n + m)
      PROVE  k \in 1..n \/ (k - n \in 1..m /\ k = n + (k - n) /\ ~ k <= n)
  OBVIOUS
<1>10. u \in [1..(n + m) -> S]
  <2>1. ASSUME NEW k \in 1..(n + m) PROVE (IF k <= n THEN s[k] ELSE t[k - n]) \in S
    <3>1. CASE k \in 1..n
      BY <1>4, <1>5, <3>1 DEF Sorted
    <3>2. CASE k - n \in 1..m /\ ~ k <= n
      BY <1>4, <1>5, <3>2 DEF Sorted
    <3> QED
      BY <1>9, <3>1, <3>2
  <2> QED
    BY <1>6, <2>1
<1>11. ASSUME NEW x \in S PROVE \E i \in 1..(n + m) : u[i] = x
  <2>1. CASE x \in A
    <3>1. PICK i \in 1..n : s[i] = x
      BY <1>4, <2>1 DEF Sorted
    <3> QED
      BY <1>7, <3>1
  <2>2. CASE x \in B
    <3>1. PICK i \in 1..m : t[i] = x
      BY <1>4, <2>2 DEF Sorted
    <3> QED
      BY <1>8, <3>1
  <2> QED
    BY <1>5, <2>1, <2>2
<1>12. ASSUME NEW i \in 1..(n + m), NEW j \in 1..(n + m), i < j PROVE <<u[i], u[j]>> \in R
  <2>1. CASE i \in 1..n /\ j \in 1..n
    BY <1>4, <1>7, <1>12, <2>1 DEF Sorted
  <2>2. CASE i \in 1..n /\ j - n \in 1..m /\ j = n + (j - n)
    <3>1. u[i] = s[i] /\ u[j] = t[j - n]
      BY <1>7, <1>8, <2>2
    <3>2. s[i] \in A /\ t[j - n] \in B
      BY <1>4, <2>2 DEF Sorted
    <3> QED
      BY <3>1, <3>2 DEF BeforeAll
  <2>3. CASE i - n \in 1..m /\ i = n + (i - n) /\ j - n \in 1..m /\ j = n + (j - n)
    <3>1. u[i] = t[i - n] /\ u[j] = t[j - n]
      BY <1>8, <2>3
    <3>2. i - n < j - n
      BY <1>12
    <3> QED
      BY <1>4, <2>3, <3>1, <3>2 DEF Sorted
  <2>4. CASE ~ i <= n /\ j \in 1..n
    BY <1>12, <2>4
  <2> QED
    BY <1>9, <2>1, <2>2, <2>3, <2>4
<1>13. n + m \in Nat
  OBVIOUS
<1>14. Sorted(u, n + m, S, R)
  BY <1>10, <1>11, <1>12 DEF Sorted
<1>15. PICK l \in Nat : l = n + m
  BY <1>13
<1>16. Sorted(u, l, S, R) /\ StrictOrder(S, R)
  BY <1>5, <1>14, <1>15
<1>17. IsFiniteSet(S) /\ Cardinality(S) = l /\ u = Ordered(S, R)
  BY <1>16, SortedIsOrdered
<1> QED
  BY <1>2, <1>3, <1>5, <1>7, <1>8, <1>15, <1>17 DEF Joined

-----------------------------------------------------------------------------
(* Tables row by row *)

RowByRow(after, table, order) ==
  /\ after[0] = table
  /\ \A k \in 1..Len(order) : after[k] = RateRow(after[k - 1], order[k])
ObjectByObject(after, table, order) ==
  /\ after[0] = table
  /\ \A k \in 1..Len(order) : after[k] = RateObject(after[k - 1], order[k])

LEMMA RowsAreRated ==
  ASSUME NEW table, NEW order, Len(order) \in Nat
  PROVE  \E after : RowByRow(after, table, order) /\ RateRows(table, order) = after[Len(order)]
<1>1. PICK n \in Nat : n = Len(order)
  OBVIOUS
<1> DEFINE After(f, m) ==
      f = [k \in 0..m |-> IF k = 0 THEN table ELSE RateRow(f[k - 1], order[k])]
<1> DEFINE T == {m \in 0..n : \E f : After(f, m)}
<1>2. 0 \in T
  <2>1. PICK f : f = [k \in 0..0 |-> table]
    OBVIOUS
  <2>2. f = [k \in 0..0 |-> IF k = 0 THEN table ELSE RateRow(f[k - 1], order[k])]
    <3>1. \A k \in 0..0 : k = 0
      OBVIOUS
    <3> QED
      BY <2>1, <3>1
  <2>3. 0 \in 0..n
    OBVIOUS
  <2> QED
    BY <2>2, <2>3
<1>3. ASSUME NEW m \in 0..n, m < n, m \in T PROVE m + 1 \in T
  <2>1. PICK f : After(f, m)
    BY <1>3
  <2>2. PICK g : g = [k \in 0..(m + 1) |-> IF k <= m THEN f[k] ELSE RateRow(f[m], order[m + 1])]
    OBVIOUS
  <2>3. ASSUME NEW k \in 0..(m + 1)
        PROVE  g[k] = IF k = 0 THEN table ELSE RateRow(g[k - 1], order[k])
    <3>1. CASE k = 0
      BY <2>1, <2>2, <3>1
    <3>2. CASE k # 0 /\ k <= m
      <4>1. k \in 0..m /\ k - 1 \in 0..m /\ k - 1 \in 0..(m + 1) /\ k - 1 <= m
        BY <3>2
      <4>2. g[k] = f[k] /\ g[k - 1] = f[k - 1]
        BY <2>2, <3>2, <4>1
      <4>3. f[k] = RateRow(f[k - 1], order[k])
        BY <2>1, <3>2, <4>1
      <4> QED
        BY <3>2, <4>2, <4>3
    <3>3. CASE ~ k <= m
      <4>1. k = m + 1 /\ k - 1 = m /\ m \in 0..(m + 1) /\ k # 0
        BY <3>3
      <4>2. g[m] = f[m] /\ g[k] = RateRow(f[m], order[m + 1])
        BY <2>2, <3>3, <4>1
      <4> QED
        BY <4>1, <4>2
    <3> QED
      BY <3>1, <3>2, <3>3
  <2>4. After(g, m + 1)
    BY <2>2, <2>3
  <2>5. m + 1 \in 0..n
    BY <1>3
  <2> QED
    BY <2>4, <2>5
<1>4. T \subseteq 0..n
  OBVIOUS
<1> HIDE DEF T
<1>5. 0..n \subseteq T
  BY <1>2, <1>3, InductionTo
<1>6. \E f : After(f, n)
  <2>1. n \in 0..n
    OBVIOUS
  <2>2. n \in T
    BY <1>5, <2>1
  <2> HIDE DEF After
  <2> QED
    BY <2>2 DEF T
<1>7. PICK f : f = CHOOSE h : After(h, n)
  OBVIOUS
<1>8. After(f, n)
  <2> HIDE DEF After
  <2> QED
    BY <1>6, <1>7
<1>9. RateRows(table, order) = f[n]
  BY <1>1, <1>7 DEF RateRows
<1>10. f[0] = table
  BY <1>8
<1>11. ASSUME NEW k \in 1..n PROVE f[k] = RateRow(f[k - 1], order[k])
  <2>1. k \in 0..n /\ k # 0
    OBVIOUS
  <2> QED
    BY <1>8, <2>1
<1> QED
  BY <1>1, <1>9, <1>10, <1>11 DEF RowByRow

\* A table follows from the rows.
LEMMA RowsRateOnce ==
  ASSUME NEW table, NEW order, Len(order) \in Nat, NEW g, RowByRow(g, table, order)
  PROVE  RateRows(table, order) = g[Len(order)]
<1>1. PICK n \in Nat : n = Len(order)
  OBVIOUS
<1>2. PICK f : RowByRow(f, table, order) /\ RateRows(table, order) = f[n]
  BY <1>1, RowsAreRated
<1> DEFINE T == {k \in 0..n : f[k] = g[k]}
<1>3. 0 \in T
  BY <1>2 DEF RowByRow
<1>4. ASSUME NEW k \in 0..n, k < n, k \in T PROVE k + 1 \in T
  <2>1. k + 1 \in 1..n /\ (k + 1) - 1 = k /\ k + 1 \in 0..n
    BY <1>4
  <2>2. f[k + 1] = RateRow(f[k], order[k + 1])
    BY <1>1, <1>2, <2>1 DEF RowByRow
  <2>3. g[k + 1] = RateRow(g[k], order[k + 1])
    BY <1>1, <2>1 DEF RowByRow
  <2> QED
    BY <1>4, <2>1, <2>2, <2>3
<1> HIDE DEF T
<1>5. 0..n \subseteq T
  BY <1>3, <1>4, InductionTo
<1>6. n \in 0..n
  OBVIOUS
<1> QED
  BY <1>1, <1>2, <1>5, <1>6 DEF T

LEMMA ObjectsAreRated ==
  ASSUME NEW table, NEW order, Len(order) \in Nat
  PROVE  \E after : /\ ObjectByObject(after, table, order)
                    /\ RateObjects(table, order) = after[Len(order)]
<1>1. PICK n \in Nat : n = Len(order)
  OBVIOUS
<1> DEFINE After(f, m) ==
      f = [k \in 0..m |-> IF k = 0 THEN table ELSE RateObject(f[k - 1], order[k])]
<1> DEFINE T == {m \in 0..n : \E f : After(f, m)}
<1>2. 0 \in T
  <2>1. PICK f : f = [k \in 0..0 |-> table]
    OBVIOUS
  <2>2. f = [k \in 0..0 |-> IF k = 0 THEN table ELSE RateObject(f[k - 1], order[k])]
    <3>1. \A k \in 0..0 : k = 0
      OBVIOUS
    <3> QED
      BY <2>1, <3>1
  <2>3. 0 \in 0..n
    OBVIOUS
  <2> QED
    BY <2>2, <2>3
<1>3. ASSUME NEW m \in 0..n, m < n, m \in T PROVE m + 1 \in T
  <2>1. PICK f : After(f, m)
    BY <1>3
  <2>2. PICK g : g = [k \in 0..(m + 1) |->
                    IF k <= m THEN f[k] ELSE RateObject(f[m], order[m + 1])]
    OBVIOUS
  <2>3. ASSUME NEW k \in 0..(m + 1)
        PROVE  g[k] = IF k = 0 THEN table ELSE RateObject(g[k - 1], order[k])
    <3>1. CASE k = 0
      BY <2>1, <2>2, <3>1
    <3>2. CASE k # 0 /\ k <= m
      <4>1. k \in 0..m /\ k - 1 \in 0..m /\ k - 1 \in 0..(m + 1) /\ k - 1 <= m
        BY <3>2
      <4>2. g[k] = f[k] /\ g[k - 1] = f[k - 1]
        BY <2>2, <3>2, <4>1
      <4>3. f[k] = RateObject(f[k - 1], order[k])
        BY <2>1, <3>2, <4>1
      <4> QED
        BY <3>2, <4>2, <4>3
    <3>3. CASE ~ k <= m
      <4>1. k = m + 1 /\ k - 1 = m /\ m \in 0..(m + 1) /\ k # 0
        BY <3>3
      <4>2. g[m] = f[m] /\ g[k] = RateObject(f[m], order[m + 1])
        BY <2>2, <3>3, <4>1
      <4> QED
        BY <4>1, <4>2
    <3> QED
      BY <3>1, <3>2, <3>3
  <2>4. After(g, m + 1)
    BY <2>2, <2>3
  <2>5. m + 1 \in 0..n
    BY <1>3
  <2> QED
    BY <2>4, <2>5
<1>4. T \subseteq 0..n
  OBVIOUS
<1> HIDE DEF T
<1>5. 0..n \subseteq T
  BY <1>2, <1>3, InductionTo
<1>6. \E f : After(f, n)
  <2>1. n \in 0..n
    OBVIOUS
  <2>2. n \in T
    BY <1>5, <2>1
  <2> HIDE DEF After
  <2> QED
    BY <2>2 DEF T
<1>7. PICK f : f = CHOOSE h : After(h, n)
  OBVIOUS
<1>8. After(f, n)
  <2> HIDE DEF After
  <2> QED
    BY <1>6, <1>7
<1>9. RateObjects(table, order) = f[n]
  BY <1>1, <1>7 DEF RateObjects
<1>10. f[0] = table
  BY <1>8
<1>11. ASSUME NEW k \in 1..n PROVE f[k] = RateObject(f[k - 1], order[k])
  <2>1. k \in 0..n /\ k # 0
    OBVIOUS
  <2> QED
    BY <1>8, <2>1
<1> QED
  BY <1>1, <1>9, <1>10, <1>11 DEF ObjectByObject

-----------------------------------------------------------------------------
(* Points and players *)

LEMMA SumOfZeros ==
  ASSUME NEW S, IsFiniteSet(S), NEW g, \A x \in S : g[x] = 0
  PROVE  SumOf(g, S) = 0
<1>1. PICK G : G = {s \in SUBSET S : SumOf(g, s) = 0}
  OBVIOUS
<1>2. ASSUME NEW s \in SUBSET S, \A r \in SUBSET s : r # s => r \in G
      PROVE  s \in G
  <2>1. IsFiniteSet(s)
    BY FS_Subset
  <2>2. \A x \in s : g[x] \in Int
    OBVIOUS
  <2>3. CASE s = {}
    BY <1>1, <2>1, <2>2, <2>3, SumOfTake
  <2>4. CASE s # {}
    <3>1. PICK x \in s : TRUE
      BY <2>4
    <3>2. SumOf(g, s) = g[x] + SumOf(g, s \ {x})
      BY <2>1, <2>2, <3>1, SumOfTake
    <3>3. SumOf(g, s \ {x}) = 0
      BY <1>1, <1>2, <3>1
    <3>4. g[x] = 0
      BY <3>1
    <3> QED
      BY <1>1, <3>2, <3>3, <3>4
  <2> QED
    BY <2>3, <2>4
<1>3. SUBSET S \subseteq G
  BY <1>2, SmallerFirst
<1> QED
  BY <1>1, <1>3

\* More of what is 0 does not change a sum.
LEMMA SumOfMoreZeros ==
  ASSUME NEW S, NEW T, IsFiniteSet(T), S \subseteq T, NEW g, \A x \in S : g[x] \in Int,
         NEW h, \A x \in S : h[x] = g[x], \A x \in T \ S : h[x] = 0
  PROVE  SumOf(h, T) = SumOf(g, S)
<1>1. PICK R : R = T \ S
  OBVIOUS
<1>2. IsFiniteSet(S) /\ IsFiniteSet(R) /\ S \cap R = {} /\ T = S \cup R
  BY <1>1, FS_Subset
<1>3. \A x \in S \cup R : h[x] \in Int
  BY <1>1
<1>4. SumOf(h, S \cup R) = SumOf(h, S) + SumOf(h, R)
  BY <1>2, <1>3, SumOfUnion
<1>5. SumOf(h, R) = 0
  BY <1>1, <1>2, SumOfZeros
<1>6. SumOf(h, S) = SumOf(g, S)
  BY <1>2, SumOfSame
<1>7. SumOf(g, S) \in Int
  BY <1>2, SumOfTake
<1> QED
  BY <1>2, <1>4, <1>5, <1>6, <1>7

\* What one of two has lost and the other won does not change a sum.
LEMMA SumOfExchange ==
  ASSUME NEW S, IsFiniteSet(S), NEW g, \A x \in S : g[x] \in Int,
         NEW h, \A x \in S : h[x] \in Int, NEW a \in S, NEW b \in S, a # b,
         \A x \in S : x # a /\ x # b => h[x] = g[x], h[a] + h[b] = g[a] + g[b]
  PROVE  SumOf(h, S) = SumOf(g, S)
<1>1. PICK A : A = S \ {a}
  OBVIOUS
<1>2. PICK B : B = A \ {b}
  OBVIOUS
<1>3. IsFiniteSet(A) /\ IsFiniteSet(B) /\ b \in A
  BY <1>1, <1>2, FS_Subset
<1>4. \A x \in A : g[x] \in Int /\ h[x] \in Int
  BY <1>1
<1>5. SumOf(g, S) = g[a] + SumOf(g, A) /\ SumOf(h, S) = h[a] + SumOf(h, A)
  BY <1>1, SumOfTake
<1>6. SumOf(g, A) = g[b] + SumOf(g, B) /\ SumOf(h, A) = h[b] + SumOf(h, B)
  BY <1>2, <1>3, <1>4, SumOfTake
<1>7. \A x \in B : g[x] \in Int /\ h[x] = g[x]
  BY <1>1, <1>2
<1>8. SumOf(h, B) = SumOf(g, B) /\ SumOf(g, B) \in Int
  BY <1>3, <1>7, SumOfSame, SumOfTake
<1>9. g[a] \in Int /\ g[b] \in Int /\ h[a] \in Int /\ h[b] \in Int
  OBVIOUS
<1> QED
  BY <1>5, <1>6, <1>8, <1>9

\* What the players of a table have won.
Gains(table) == [k \in DOMAIN table |-> table[k].global - InitialElo]
Won(table) == MapThenSumSet(LAMBDA k : table[k].global - InitialElo, DOMAIN table)

LEMMA WonIsSum ==
  ASSUME NEW table, NEW S, S = DOMAIN table, IsFiniteSet(S), NEW g, g = Gains(table)
  PROVE  Won(table) = SumOf(g, S)
<1>1. PICK jt : SumsOver(jt, g, S) /\ SumOf(g, S) = jt[S]
  BY SumOfSums
<1>2. ASSUME NEW s \in SUBSET S, s # {} PROVE g[OneOf(s)] = table[OneOf(s)].global - InitialElo
  BY <1>2 DEF OneOf, Gains
<1> DEFINE Goes(f) == f = [s \in SUBSET S |-> IF s = {} THEN 0
                             ELSE table[OneOf(s)].global - InitialElo + f[s \ {OneOf(s)}]]
<1>3. ASSUME NEW f PROVE Goes(f) <=> SumsOver(f, g, S)
  <2>1. [s \in SUBSET S |-> IF s = {} THEN 0
           ELSE table[OneOf(s)].global - InitialElo + f[s \ {OneOf(s)}]]
        = [s \in SUBSET S |-> IF s = {} THEN 0 ELSE g[OneOf(s)] + f[s \ {OneOf(s)}]]
    BY <1>2
  <2>2. QED
    BY <2>1 DEF SumsOver
<1>4. PICK it : it = CHOOSE f : Goes(f)
  OBVIOUS
<1>5. Won(table) = it[S]
  BY <1>4 DEF Won, MapThenSumSet, MapThenFoldSet, OneOf
<1>6. SumsOver(it, g, S)
  BY <1>1, <1>3, <1>4
<1> HIDE DEF Goes
<1>7. it = jt
  BY <1>1, <1>6, SumsAgree
<1>8. QED
  BY <1>1, <1>5, <1>7

NamesKnown == {Names[id] : id \in DOMAIN Names}
RatedPlayers == [name : NamesKnown, global : Int, surface : [Surfaces -> Int],
            matches : Int, last : Int]

LEMMA NewIsPlayer ==
  ASSUME NEW id \in DOMAIN Names
  PROVE  /\ NewPlayer(Names[id]) \in RatedPlayers
         /\ NewPlayer(Names[id]).name = Names[id]
         /\ NewPlayer(Names[id]).global = InitialElo
<1>1. InitialElo \in Int
  BY EloParameters DEF EloAssumption
<1> QED
  BY <1>1 DEF NewPlayer, RatedPlayers, NamesKnown

LEMMA PointsAreWhole == \A gap \in Int : WinPoints(gap) \in Int
<1> SUFFICES ASSUME NEW gap \in Int PROVE WinPoints(gap) \in Int
  OBVIOUS
<1>1. Scale \in Nat \ {0} /\ CurveSteps \in Int
  BY EloParameters DEF EloAssumption
<1>2. gap \div Scale \in Int /\ -((-gap) \div Scale) \in Int
  BY <1>1
<1>3. PICK step \in Int : step = IF gap >= 0 THEN gap \div Scale ELSE -((-gap) \div Scale)
  BY <1>2
<1>4. PICK near \in Int : near = IF step > CurveSteps - 1 THEN CurveSteps - 1
                                 ELSE IF step < 1 - CurveSteps THEN 1 - CurveSteps ELSE step
  BY <1>1
<1>5. WinPoints(gap) = CurveSteps - near
  BY <1>3, <1>4 DEF WinPoints
<1> QED
  BY <1>1, <1>5

LEMMA MovedIsPlayer ==
  ASSUME NEW p \in RatedPlayers, NEW surface \in Surfaces, NEW points \in Int, NEW date \in Int
  PROVE  /\ Moved(p, surface, points, date) \in RatedPlayers
         /\ Moved(p, surface, points, date).name = p.name
         /\ Moved(p, surface, points, date).global = p.global + points
<1>1. p.surface[surface] \in Int /\ p.surface \in [Surfaces -> Int]
  BY DEF RatedPlayers
<1>2. PICK there : there = [p.surface EXCEPT ![surface] = @ + points]
  OBVIOUS
<1>3. there \in [Surfaces -> Int]
  BY <1>1, <1>2
<1>4. PICK last \in Int : last = IF date > p.last THEN date ELSE p.last
  BY DEF RatedPlayers
<1>5. Moved(p, surface, points, date)
        = [p EXCEPT !.global = @ + points, !.surface = there, !.matches = @ + 1, !.last = last]
  BY <1>2, <1>4 DEF Moved
<1>6. p = [name |-> p.name, global |-> p.global, surface |-> p.surface,
            matches |-> p.matches, last |-> p.last]
  BY DEF RatedPlayers
<1>7. Moved(p, surface, points, date)
        = [name |-> p.name, global |-> p.global + points, surface |-> there,
           matches |-> p.matches + 1, last |-> last]
  BY <1>5, <1>6
<1>8. p.name \in NamesKnown /\ p.global + points \in Int /\ p.matches + 1 \in Int
  BY DEF RatedPlayers
<1> QED
  BY <1>3, <1>4, <1>7, <1>8 DEF RatedPlayers

\* A result moves both sides by the same points and nobody else.
Exchanged(before, after, winner, loser, surface, date) ==
  /\ DOMAIN after = DOMAIN before
  /\ after \in [DOMAIN before -> RatedPlayers]
  /\ \A k \in DOMAIN before : after[k].name = before[k].name
  /\ \A k \in DOMAIN before : k # winner /\ k # loser => after[k] = before[k]
  /\ LET points == WinPoints(EffectiveElo(before[winner], surface)
                               - EffectiveElo(before[loser], surface))
     IN  /\ after[winner] = Moved(before[winner], surface, points, date)
         /\ after[loser] = Moved(before[loser], surface, -points, date)
  /\ SumOf(Gains(after), DOMAIN after) = SumOf(Gains(before), DOMAIN before)

LEMMA RateExchanges ==
  ASSUME NEW table, NEW D, D = DOMAIN table, table \in [D -> RatedPlayers], IsFiniteSet(D),
         NEW winner \in D, NEW loser \in D, winner # loser,
         NEW surface \in Surfaces, NEW date \in Int
  PROVE  Exchanged(table, Rate(table, winner, loser, surface, date), winner, loser,
                   surface, date)
<1>1. PICK gap : gap = EffectiveElo(table[winner], surface) - EffectiveElo(table[loser], surface)
  OBVIOUS
<1>2. gap \in Int
  BY <1>1 DEF EffectiveElo, RatedPlayers
<1>3. PICK points : points = WinPoints(gap)
  OBVIOUS
<1>4. points \in Int /\ -points \in Int
  BY <1>2, <1>3, PointsAreWhole
<1>5. PICK w : w = Moved(table[winner], surface, points, date)
  OBVIOUS
<1>6. PICK l : l = Moved(table[loser], surface, -points, date)
  OBVIOUS
<1>7. table[winner] \in RatedPlayers /\ table[loser] \in RatedPlayers
  OBVIOUS
<1>8. w \in RatedPlayers /\ w.name = table[winner].name /\ w.global = table[winner].global + points
  BY <1>4, <1>5, <1>7, MovedIsPlayer
<1>9. l \in RatedPlayers /\ l.name = table[loser].name /\ l.global = table[loser].global + (-points)
  BY <1>4, <1>6, <1>7, MovedIsPlayer
<1>10. PICK after : after = Rate(table, winner, loser, surface, date)
  OBVIOUS
<1>11. after = [table EXCEPT ![winner] = w, ![loser] = l]
  BY <1>1, <1>3, <1>5, <1>6, <1>10 DEF Rate
<1>12. /\ DOMAIN after = D /\ after[winner] = w /\ after[loser] = l
       /\ \A k \in D : k # winner /\ k # loser => after[k] = table[k]
  BY <1>11
<1>13. after \in [D -> RatedPlayers]
  BY <1>8, <1>9, <1>11
<1>14. \A k \in D : after[k].name = table[k].name
  BY <1>8, <1>9, <1>12
<1>15. PICK g : g = Gains(table)
  OBVIOUS
<1>16. PICK h : h = Gains(after)
  OBVIOUS
<1>17. InitialElo \in Int
  BY EloParameters DEF EloAssumption
<1>18. \A k \in D : table[k].global \in Int /\ after[k].global \in Int
  BY <1>13 DEF RatedPlayers
<1>19. \A k \in D : g[k] = table[k].global - InitialElo /\ h[k] = after[k].global - InitialElo
  BY <1>12, <1>15, <1>16 DEF Gains
<1>20. \A k \in D : g[k] \in Int /\ h[k] \in Int
  BY <1>17, <1>18, <1>19
<1>21. \A k \in D : k # winner /\ k # loser => h[k] = g[k]
  BY <1>12, <1>19
<1>22. h[winner] + h[loser] = g[winner] + g[loser]
  BY <1>4, <1>8, <1>9, <1>12, <1>17, <1>18, <1>19
<1>23. SumOf(h, D) = SumOf(g, D)
  BY <1>20, <1>21, <1>22, SumOfExchange
<1> QED
  BY <1>1, <1>3, <1>5, <1>6, <1>10, <1>12, <1>13, <1>14, <1>15, <1>16, <1>23 DEF Exchanged

-----------------------------------------------------------------------------
(* The table of the files, and that of the draw *)

\* Where a player of the event is in the table with the draw, and as what.
EntrantKey(table, id) ==
  IF FileKey(id) \in DOMAIN table THEN FileKey(id) ELSE <<"draw", Names[id]>>
StateIn(table, id) ==
  IF FileKey(id) \in DOMAIN table THEN table[FileKey(id)] ELSE NewPlayer(Names[id])

FileTable(table) ==
  /\ table \in [DOMAIN table -> RatedPlayers] /\ IsFiniteSet(DOMAIN table)
  /\ \A k \in DOMAIN table :
       \E id \in DOMAIN Names : k = FileKey(id) /\ table[k].name = Names[id]
  /\ SumOf(Gains(table), DOMAIN table) = 0
DrawTable(draw, table) ==
  /\ draw \in [DOMAIN draw -> RatedPlayers] /\ IsFiniteSet(DOMAIN draw)
  /\ \A k \in DOMAIN draw :
       \/ \E id \in DOMAIN Names :
            k = FileKey(id) /\ k \in DOMAIN table /\ draw[k].name = Names[id]
       \/ \E id \in EventEntrants :
            /\ k = <<"draw", Names[id]>> /\ FileKey(id) \notin DOMAIN table
            /\ draw[k].name = Names[id]
  /\ \A id \in EventEntrants : EntrantKey(table, id) \in DOMAIN draw
  /\ SumOf(Gains(draw), DOMAIN draw) = 0

LEMMA KeysDiffer ==
  /\ \A a, b : FileKey(a) = FileKey(b) <=> a = b
  /\ \A a, b : FileKey(a) # <<"draw", b>>
  /\ \A a, b : <<"draw", a>> = <<"draw", b>> <=> a = b
BY DEF FileKey

LEMMA EntrantsNamed ==
  /\ EventEntrants \subseteq DOMAIN Names
  /\ \A a, b \in DOMAIN Names : Names[a] = Names[b] => a = b
BY EloParameters DEF EloAssumption, EventEntrants, EventGames

\* A name is that of one row.
LEMMA KeyOfName ==
  ASSUME NEW table, NEW draw, DrawTable(draw, table), NEW id \in EventEntrants,
         NEW key, key = EntrantKey(table, id)
  PROVE  /\ key \in DOMAIN draw /\ draw[key].name = Names[id]
         /\ \A k \in DOMAIN draw : draw[k].name = Names[id] => k = key
<1>1. id \in DOMAIN Names
  BY EntrantsNamed
<1>2. ASSUME NEW k \in DOMAIN draw, draw[k].name = Names[id] PROVE k = key
  <2>1. CASE \E j \in DOMAIN Names :
               k = FileKey(j) /\ k \in DOMAIN table /\ draw[k].name = Names[j]
    <3>1. PICK j \in DOMAIN Names :
            k = FileKey(j) /\ k \in DOMAIN table /\ draw[k].name = Names[j]
      BY <2>1
    <3>2. j = id
      BY <1>1, <1>2, <3>1, EntrantsNamed
    <3> QED
      BY <3>1, <3>2 DEF EntrantKey
  <2>2. CASE \E j \in EventEntrants :
               /\ k = <<"draw", Names[j]>> /\ FileKey(j) \notin DOMAIN table
               /\ draw[k].name = Names[j]
    <3>1. PICK j \in EventEntrants :
            /\ k = <<"draw", Names[j]>> /\ FileKey(j) \notin DOMAIN table
            /\ draw[k].name = Names[j]
      BY <2>2
    <3>2. j = id
      BY <1>1, <1>2, <3>1, EntrantsNamed
    <3> QED
      BY <3>1, <3>2 DEF EntrantKey
  <2> QED
    BY <2>1, <2>2 DEF DrawTable
<1>3. key \in DOMAIN draw
  BY DEF DrawTable
<1>4. draw[key].name = Names[id]
  <2>1. CASE \E j \in DOMAIN Names :
               key = FileKey(j) /\ key \in DOMAIN table /\ draw[key].name = Names[j]
    <3>1. PICK j \in DOMAIN Names :
            key = FileKey(j) /\ key \in DOMAIN table /\ draw[key].name = Names[j]
      BY <2>1
    <3>2. j = id
      BY <3>1, KeysDiffer DEF EntrantKey
    <3> QED
      BY <3>1, <3>2
  <2>2. CASE \E j \in EventEntrants :
               /\ key = <<"draw", Names[j]>> /\ FileKey(j) \notin DOMAIN table
               /\ draw[key].name = Names[j]
    <3>1. PICK j \in EventEntrants :
            /\ key = <<"draw", Names[j]>> /\ FileKey(j) \notin DOMAIN table
            /\ draw[key].name = Names[j]
      BY <2>2
    <3>2. Names[j] = Names[id]
      BY <3>1, KeysDiffer DEF EntrantKey
    <3> QED
      BY <3>1, <3>2
  <2> QED
    BY <1>3, <2>1, <2>2 DEF DrawTable
<1> QED
  BY <1>2, <1>3, <1>4

\* To know a player makes no difference to what anybody is.
LEMMA KnownKeeps ==
  ASSUME NEW table, FileTable(table), NEW id \in DOMAIN Names, NEW after,
         after = KnowPlayer(table, FileKey(id), NewPlayer(Names[id]))
  PROVE  /\ FileTable(after) /\ DOMAIN after = DOMAIN table \cup {FileKey(id)}
         /\ \A j \in DOMAIN Names : StateIn(after, j) = StateIn(table, j)
<1>1. PICK D : D = DOMAIN table
  OBVIOUS
<1>2. PICK E : E = D \cup {FileKey(id)}
  OBVIOUS
<1>3. PICK new : new = NewPlayer(Names[id])
  OBVIOUS
<1>4. new \in RatedPlayers /\ new.name = Names[id] /\ new.global = InitialElo
  BY <1>3, NewIsPlayer
<1>5. after = [k \in E |-> IF k \in D THEN table[k] ELSE new]
  BY <1>1, <1>2, <1>3 DEF KnowPlayer
<1>6. DOMAIN after = E /\ \A k \in E : after[k] = IF k \in D THEN table[k] ELSE new
  BY <1>5
<1>7. IsFiniteSet(D) /\ table \in [D -> RatedPlayers]
  BY <1>1 DEF FileTable
<1>8. IsFiniteSet(E)
  BY <1>2, <1>7, FS_AddElement
<1>9. after \in [E -> RatedPlayers]
  BY <1>4, <1>5, <1>7
<1>10. ASSUME NEW k \in E
       PROVE  \E j \in DOMAIN Names : k = FileKey(j) /\ after[k].name = Names[j]
  <2>1. CASE k \in D
    BY <1>1, <1>6, <2>1 DEF FileTable
  <2>2. CASE k \notin D
    BY <1>2, <1>4, <1>6, <2>2
  <2> QED
    BY <2>1, <2>2
<1>11. SumOf(Gains(after), E) = 0
  <2>1. PICK g : g = Gains(table)
    OBVIOUS
  <2>2. PICK h : h = Gains(after)
    OBVIOUS
  <2>3. InitialElo \in Int
    BY EloParameters DEF EloAssumption
  <2>4. \A k \in D : g[k] = table[k].global - InitialElo /\ table[k].global \in Int
    BY <1>1, <1>7, <2>1 DEF Gains, RatedPlayers
  <2>5. \A k \in E : h[k] = after[k].global - InitialElo
    BY <1>6, <2>2 DEF Gains
  <2>6. \A k \in D : g[k] \in Int /\ h[k] = g[k]
    BY <1>2, <1>6, <2>3, <2>4, <2>5
  <2>7. \A k \in E \ D : h[k] = 0
    BY <1>4, <1>6, <2>3, <2>5
  <2>8. D \subseteq E
    BY <1>2
  <2>9. SumOf(h, E) = SumOf(g, D)
    BY <1>8, <2>6, <2>7, <2>8, SumOfMoreZeros
  <2> QED
    BY <1>1, <2>1, <2>2, <2>9 DEF FileTable
<1>12. FileTable(after)
  BY <1>6, <1>8, <1>9, <1>10, <1>11 DEF FileTable
<1>13. ASSUME NEW j \in DOMAIN Names PROVE StateIn(after, j) = StateIn(table, j)
  <2>1. CASE FileKey(j) \in D
    BY <1>1, <1>2, <1>6, <2>1 DEF StateIn
  <2>2. CASE FileKey(j) \notin D /\ j = id
    BY <1>1, <1>2, <1>3, <1>6, <2>2 DEF StateIn
  <2>3. CASE FileKey(j) \notin D /\ j # id
    <3>1. FileKey(j) \notin E
      BY <1>2, <2>3, KeysDiffer
    <3> QED
      BY <1>1, <1>6, <2>3, <3>1 DEF StateIn
  <2> QED
    BY <2>1, <2>2, <2>3
<1> QED
  BY <1>1, <1>2, <1>6, <1>12, <1>13

\* What a row makes of the table.
Pointed(table, winner, loser, surface) ==
  WinPoints(EffectiveElo(StateIn(table, winner), surface)
              - EffectiveElo(StateIn(table, loser), surface))
RowMoves(before, after, row) ==
  /\ FileTable(after)
  /\ DOMAIN after = DOMAIN before \cup {FileKey(row.winner), FileKey(row.loser)}
  /\ \A j \in DOMAIN Names : j # row.winner /\ j # row.loser =>
       StateIn(after, j) = StateIn(before, j)
  /\ StateIn(after, row.winner)
       = Moved(StateIn(before, row.winner), row.surface,
               Pointed(before, row.winner, row.loser, row.surface), row.date)
  /\ StateIn(after, row.loser)
       = Moved(StateIn(before, row.loser), row.surface,
               -Pointed(before, row.winner, row.loser, row.surface), row.date)
RowPlayable(row) ==
  /\ row.winner \in DOMAIN Names /\ row.loser \in DOMAIN Names /\ row.winner # row.loser
  /\ row.surface \in Surfaces /\ row.date \in Int

LEMMA RowIsRated ==
  ASSUME NEW table, FileTable(table), NEW row, RowPlayable(row)
  PROVE  RowMoves(table, RateRow(table, row), row)
<1>1. PICK w \in DOMAIN Names : w = row.winner
  BY DEF RowPlayable
<1>2. PICK l \in DOMAIN Names : l = row.loser
  BY DEF RowPlayable
<1>3. PICK surface \in Surfaces : surface = row.surface
  BY DEF RowPlayable
<1>4. PICK date \in Int : date = row.date
  BY DEF RowPlayable
<1>5. w # l
  BY <1>1, <1>2 DEF RowPlayable
<1>6. PICK one : one = KnowPlayer(table, FileKey(w), NewPlayer(Names[w]))
  OBVIOUS
<1>7. /\ FileTable(one) /\ DOMAIN one = DOMAIN table \cup {FileKey(w)}
      /\ \A j \in DOMAIN Names : StateIn(one, j) = StateIn(table, j)
  BY <1>6, KnownKeeps
<1>8. PICK both : both = KnowPlayer(one, FileKey(l), NewPlayer(Names[l]))
  OBVIOUS
<1>9. /\ FileTable(both) /\ DOMAIN both = DOMAIN one \cup {FileKey(l)}
      /\ \A j \in DOMAIN Names : StateIn(both, j) = StateIn(one, j)
  BY <1>7, <1>8, KnownKeeps
<1>10. PICK after : after = Rate(both, FileKey(w), FileKey(l), surface, date)
  OBVIOUS
<1>11. after = RateRow(table, row)
  BY <1>1, <1>2, <1>3, <1>4, <1>6, <1>8, <1>10 DEF RateRow
<1>12. PICK D : D = DOMAIN both
  OBVIOUS
<1>13. D = DOMAIN table \cup {FileKey(w), FileKey(l)}
  BY <1>7, <1>9, <1>12
<1>14. PICK wk \in D : wk = FileKey(w)
  BY <1>13
<1>15. PICK lk \in D : lk = FileKey(l)
  BY <1>13
<1>16. wk # lk
  BY <1>5, <1>14, <1>15, KeysDiffer
<1>17. both \in [D -> RatedPlayers] /\ IsFiniteSet(D)
  BY <1>9, <1>12 DEF FileTable
<1>18. Exchanged(both, after, wk, lk, surface, date)
  BY <1>10, <1>12, <1>14, <1>15, <1>16, <1>17, RateExchanges
<1>19. DOMAIN after = D /\ after \in [D -> RatedPlayers]
  BY <1>12, <1>18 DEF Exchanged
<1>20. FileTable(after)
  <2>1. ASSUME NEW k \in D
        PROVE  \E id \in DOMAIN Names : k = FileKey(id) /\ after[k].name = Names[id]
    <3>1. PICK id \in DOMAIN Names : k = FileKey(id) /\ both[k].name = Names[id]
      BY <1>9, <1>12 DEF FileTable
    <3>2. after[k].name = both[k].name
      BY <1>12, <1>18 DEF Exchanged
    <3> QED
      BY <3>1, <3>2
  <2>2. SumOf(Gains(after), DOMAIN after) = 0
    BY <1>9, <1>18 DEF Exchanged, FileTable
  <2> QED
    BY <1>17, <1>19, <2>1, <2>2 DEF FileTable
<1>21. both[wk] = StateIn(table, w) /\ both[lk] = StateIn(table, l)
  <2>1. both[wk] = StateIn(both, w) /\ both[lk] = StateIn(both, l)
    BY <1>12, <1>14, <1>15 DEF StateIn
  <2> QED
    BY <1>7, <1>9, <2>1
<1>22. PICK points : points = Pointed(table, w, l, surface)
  OBVIOUS
<1>23. /\ after[wk] = Moved(StateIn(table, w), surface, points, date)
       /\ after[lk] = Moved(StateIn(table, l), surface, -points, date)
  BY <1>18, <1>21, <1>22 DEF Exchanged, Pointed
<1>24. StateIn(after, w) = after[wk] /\ StateIn(after, l) = after[lk]
  BY <1>14, <1>15, <1>19 DEF StateIn
<1>25. ASSUME NEW j \in DOMAIN Names, j # w, j # l PROVE StateIn(after, j) = StateIn(table, j)
  <2>1. FileKey(j) # wk /\ FileKey(j) # lk
    BY <1>14, <1>15, <1>25, KeysDiffer
  <2>2. FileKey(j) \in D => after[FileKey(j)] = both[FileKey(j)]
    BY <1>12, <1>18, <2>1 DEF Exchanged
  <2>3. StateIn(after, j) = StateIn(both, j)
    BY <1>12, <1>19, <2>2 DEF StateIn
  <2> QED
    BY <1>7, <1>9, <2>3
<1>26. DOMAIN after = DOMAIN table \cup {FileKey(w), FileKey(l)}
  BY <1>13, <1>19
<1> QED
  BY <1>1, <1>2, <1>3, <1>4, <1>11, <1>20, <1>22, <1>23, <1>24, <1>25, <1>26 DEF RowMoves

\* The draw adds the entrants no row has, each with nothing won.
LEMMA EntrantsAdded ==
  ASSUME NEW table, FileTable(table), IsFiniteSet(EventEntrants), NEW draw,
         draw = WithEntrants(table)
  PROVE  /\ DrawTable(draw, table)
         /\ \A id \in EventEntrants : draw[EntrantKey(table, id)] = StateIn(table, id)
<1>1. PICK D : D = DOMAIN table
  OBVIOUS
<1>2. PICK fresh : fresh = {Names[id] : id \in EventEntrants} \ {table[k].name : k \in DOMAIN table}
  OBVIOUS
<1>3. PICK E : E = {<<"draw", n>> : n \in fresh}
  OBVIOUS
<1>4. PICK F : F = D \cup E
  OBVIOUS
<1>5. draw = [k \in F |-> IF k \in D THEN table[k] ELSE NewPlayer(k[2])]
  BY <1>1, <1>2, <1>3, <1>4 DEF WithEntrants
<1>6. table \in [D -> RatedPlayers] /\ IsFiniteSet(D)
  BY <1>1 DEF FileTable
<1>7. ASSUME NEW id \in EventEntrants
      PROVE  Names[id] \in fresh <=> FileKey(id) \notin D
  <2>1. id \in DOMAIN Names
    BY EntrantsNamed
  <2>2. ASSUME FileKey(id) \in D PROVE Names[id] \notin fresh
    <3>1. PICK j \in DOMAIN Names :
            FileKey(id) = FileKey(j) /\ table[FileKey(id)].name = Names[j]
      BY <1>1, <2>2 DEF FileTable
    <3>2. table[FileKey(id)].name = Names[id]
      BY <3>1, KeysDiffer
    <3> QED
      BY <1>1, <1>2, <2>2, <3>2
  <2>3. ASSUME Names[id] \notin fresh PROVE FileKey(id) \in D
    <3>1. PICK k \in D : table[k].name = Names[id]
      BY <1>1, <1>2, <2>3
    <3>2. PICK j \in DOMAIN Names : k = FileKey(j) /\ table[k].name = Names[j]
      BY <1>1 DEF FileTable
    <3>3. j = id
      BY <2>1, <3>1, <3>2, EntrantsNamed
    <3> QED
      BY <3>2, <3>3
  <2> QED
    BY <2>2, <2>3
<1>8. ASSUME NEW k \in E
      PROVE  /\ k \notin D
             /\ \E id \in EventEntrants :
                  /\ k = <<"draw", Names[id]>> /\ FileKey(id) \notin D
                  /\ NewPlayer(k[2]) = NewPlayer(Names[id])
  <2>1. PICK n \in fresh : k = <<"draw", n>>
    BY <1>3
  <2>2. PICK id \in EventEntrants : n = Names[id]
    BY <1>2, <2>1
  <2>3. FileKey(id) \notin D
    BY <1>7, <2>1, <2>2
  <2>4. k \notin D
    <3>1. SUFFICES ASSUME k \in D PROVE FALSE
      OBVIOUS
    <3>2. PICK j \in DOMAIN Names : k = FileKey(j)
      BY <1>1, <3>1 DEF FileTable
    <3> QED
      BY <2>1, <3>2, KeysDiffer
  <2>5. k[2] = Names[id]
    BY <2>1, <2>2
  <2> QED
    BY <2>1, <2>2, <2>3, <2>4, <2>5
<1>9. DOMAIN draw = F /\ \A k \in F : draw[k] = IF k \in D THEN table[k] ELSE NewPlayer(k[2])
  BY <1>5
<1>10. ASSUME NEW k \in E
       PROVE  /\ draw[k] \in RatedPlayers /\ draw[k].global = InitialElo
              /\ \E id \in EventEntrants :
                   /\ k = <<"draw", Names[id]>> /\ FileKey(id) \notin D
                   /\ draw[k].name = Names[id]
  <2>1. PICK id \in EventEntrants : /\ k = <<"draw", Names[id]>> /\ FileKey(id) \notin D
                                    /\ NewPlayer(k[2]) = NewPlayer(Names[id])
    BY <1>8
  <2>2. k \in F /\ k \notin D
    BY <1>4, <1>8
  <2>3. draw[k] = NewPlayer(Names[id])
    BY <1>9, <2>1, <2>2
  <2>4. id \in DOMAIN Names
    BY EntrantsNamed
  <2>5. draw[k] \in RatedPlayers /\ draw[k].name = Names[id] /\ draw[k].global = InitialElo
    BY <2>3, <2>4, NewIsPlayer
  <2> QED
    BY <2>1, <2>5
<1>11. \A k \in D : k \in F /\ draw[k] = table[k] /\ draw[k] \in RatedPlayers
  BY <1>4, <1>6, <1>9
<1>12. draw \in [F -> RatedPlayers]
  <2>1. \A k \in F : draw[k] \in RatedPlayers
    BY <1>4, <1>10, <1>11
  <2>2. draw = [k \in F |-> draw[k]]
    BY <1>5
  <2> QED
    BY <2>1, <2>2
<1>13. IsFiniteSet(F)
  <2>1. PICK f : f = [id \in EventEntrants |-> <<"draw", Names[id]>>]
    OBVIOUS
  <2>2. PICK G : G = {f[id] : id \in EventEntrants}
    OBVIOUS
  <2>3. f \in Surjection(EventEntrants, G)
    BY <2>1, <2>2 DEF Surjection
  <2>4. IsFiniteSet(G)
    BY <2>3, FS_Surjection
  <2>5. E \subseteq G
    BY <1>8, <2>1, <2>2
  <2>6. IsFiniteSet(E)
    BY <2>4, <2>5, FS_Subset
  <2> QED
    BY <1>4, <1>6, <2>6, FS_Union
<1>14. ASSUME NEW id \in EventEntrants
       PROVE  /\ EntrantKey(table, id) \in F
              /\ draw[EntrantKey(table, id)] = StateIn(table, id)
  <2>1. CASE FileKey(id) \in D
    BY <1>1, <1>11, <2>1 DEF EntrantKey, StateIn
  <2>2. CASE FileKey(id) \notin D
    <3>1. PICK k : k = <<"draw", Names[id]>>
      OBVIOUS
    <3>2. k \in E
      BY <1>3, <1>7, <2>2, <3>1
    <3>3. k \in F /\ k \notin D /\ k[2] = Names[id]
      BY <1>4, <1>8, <3>1, <3>2
    <3>4. draw[k] = NewPlayer(Names[id])
      BY <1>9, <3>3
    <3> QED
      BY <1>1, <2>2, <3>1, <3>3, <3>4 DEF EntrantKey, StateIn
  <2> QED
    BY <2>1, <2>2
<1>15. ASSUME NEW k \in F
       PROVE  \/ \E id \in DOMAIN Names :
                   k = FileKey(id) /\ k \in D /\ draw[k].name = Names[id]
              \/ \E id \in EventEntrants :
                   /\ k = <<"draw", Names[id]>> /\ FileKey(id) \notin D
                   /\ draw[k].name = Names[id]
  <2>1. CASE k \in D
    <3>1. PICK id \in DOMAIN Names : k = FileKey(id) /\ table[k].name = Names[id]
      BY <1>1, <2>1 DEF FileTable
    <3> QED
      BY <1>11, <2>1, <3>1
  <2>2. CASE k \in E
    BY <1>10, <2>2
  <2> QED
    BY <1>4, <2>1, <2>2
<1>16. SumOf(Gains(draw), F) = 0
  <2>1. PICK g : g = Gains(table)
    OBVIOUS
  <2>2. PICK h : h = Gains(draw)
    OBVIOUS
  <2>3. InitialElo \in Int
    BY EloParameters DEF EloAssumption
  <2>4. \A k \in D : g[k] = table[k].global - InitialElo /\ table[k].global \in Int
    BY <1>1, <1>6, <2>1 DEF Gains, RatedPlayers
  <2>5. \A k \in F : h[k] = draw[k].global - InitialElo
    BY <1>9, <2>2 DEF Gains
  <2>6. \A k \in D : g[k] \in Int /\ h[k] = g[k]
    BY <1>11, <2>3, <2>4, <2>5
  <2>7. \A k \in F \ D : h[k] = 0
    BY <1>4, <1>10, <2>3, <2>5
  <2>8. D \subseteq F
    BY <1>4
  <2>9. SumOf(h, F) = SumOf(g, D)
    BY <1>13, <2>6, <2>7, <2>8, SumOfMoreZeros
  <2> QED
    BY <1>1, <2>1, <2>2, <2>9 DEF FileTable
<1>17. DrawTable(draw, table)
  BY <1>1, <1>9, <1>12, <1>13, <1>14, <1>15, <1>16 DEF DrawTable
<1> QED
  BY <1>14, <1>17

\* What an object makes of the table with the draw.
ObjectMoves(before, after, table, winner, loser) ==
  LET points == WinPoints(EffectiveElo(before[EntrantKey(table, winner)], EventSurface)
                            - EffectiveElo(before[EntrantKey(table, loser)], EventSurface))
  IN  /\ DrawTable(after, table)
      /\ \A j \in EventEntrants : j # winner /\ j # loser =>
           after[EntrantKey(table, j)] = before[EntrantKey(table, j)]
      /\ after[EntrantKey(table, winner)]
           = Moved(before[EntrantKey(table, winner)], EventSurface, points, EventDate)
      /\ after[EntrantKey(table, loser)]
           = Moved(before[EntrantKey(table, loser)], EventSurface, -points, EventDate)

LEMMA EntrantResolved ==
  ASSUME NEW table, NEW draw, DrawTable(draw, table), NEW id \in EventEntrants
  PROVE  ResolveRow(draw, id) = EntrantKey(table, id)
<1>1. PICK key : key = EntrantKey(table, id)
  OBVIOUS
<1>2. /\ key \in DOMAIN draw /\ draw[key].name = Names[id]
      /\ \A k \in DOMAIN draw : draw[k].name = Names[id] => k = key
  BY <1>1, KeyOfName
<1>3. PICK named : named = {k \in DOMAIN draw : draw[k].name = Names[id]}
  OBVIOUS
<1>4. named = {key}
  BY <1>2, <1>3
<1>5. draw[key].matches \in Int /\ draw[key].last \in Int
  BY <1>2 DEF DrawTable, RatedPlayers
<1> DEFINE Best(k) == \A j \in named : \/ draw[k].matches > draw[j].matches
                                       \/ /\ draw[k].matches = draw[j].matches
                                          /\ draw[k].last >= draw[j].last
<1>6. Best(key)
  BY <1>4, <1>5
<1>7. RowOfName(draw, Names[id]) = CHOOSE k \in named : Best(k)
  BY <1>3 DEF RowOfName
<1> HIDE DEF Best
<1>8. (CHOOSE k \in named : Best(k)) = key
  BY <1>4, <1>6
<1> QED
  BY <1>1, <1>2, <1>7, <1>8 DEF ResolveRow

LEMMA KnownAlready ==
  ASSUME NEW D, NEW table, table \in [D -> RatedPlayers], NEW key \in D, NEW player
  PROVE  KnowPlayer(table, key, player) = table
<1>1. DOMAIN table = D /\ D \cup {key} = D
  OBVIOUS
<1>2. KnowPlayer(table, key, player) = [k \in D |-> table[k]]
  BY <1>1 DEF KnowPlayer
<1> QED
  BY <1>2

LEMMA KeysOfEntrants ==
  ASSUME NEW table, NEW draw, DrawTable(draw, table), NEW a \in EventEntrants,
         NEW b \in EventEntrants, a # b
  PROVE  EntrantKey(table, a) # EntrantKey(table, b)
<1>1. PICK x : x = EntrantKey(table, a)
  OBVIOUS
<1>2. PICK y : y = EntrantKey(table, b)
  OBVIOUS
<1>3. draw[x].name = Names[a] /\ draw[y].name = Names[b]
  BY <1>1, <1>2, KeyOfName
<1>4. Names[a] # Names[b]
  BY EntrantsNamed
<1> QED
  BY <1>1, <1>2, <1>3, <1>4

LEMMA ObjectIsRated ==
  ASSUME NEW table, NEW draw, DrawTable(draw, table), NEW winner \in EventEntrants,
         NEW loser \in EventEntrants, winner # loser, NEW object,
         winner = EventPairs[object.match][object.ending.winner],
         loser = EventPairs[object.match][3 - object.ending.winner]
  PROVE  ObjectMoves(draw, RateObject(draw, object), table, winner, loser)
<1>1. PICK D : D = DOMAIN draw
  OBVIOUS
<1>2. draw \in [D -> RatedPlayers] /\ IsFiniteSet(D)
  BY <1>1 DEF DrawTable
<1>3. PICK w \in D : w = EntrantKey(table, winner)
  BY <1>1, KeyOfName
<1>4. PICK l \in D : l = EntrantKey(table, loser)
  BY <1>1, KeyOfName
<1>5. w # l
  BY <1>3, <1>4, KeysOfEntrants
<1>6. ResolveRow(draw, winner) = w /\ ResolveRow(draw, loser) = l
  BY <1>3, <1>4, EntrantResolved
<1>7. \A player : KnowPlayer(draw, w, player) = draw /\ KnowPlayer(draw, l, player) = draw
  BY <1>2, KnownAlready
<1>8. PICK after : after = Rate(draw, w, l, EventSurface, EventDate)
  OBVIOUS
<1>9. after = RateObject(draw, object)
  BY <1>6, <1>7, <1>8 DEF RateObject
<1>10. EventSurface \in Surfaces /\ EventDate \in Int
  BY EloParameters DEF EloAssumption
<1>11. Exchanged(draw, after, w, l, EventSurface, EventDate)
  BY <1>1, <1>2, <1>5, <1>8, <1>10, RateExchanges
<1>12. /\ DOMAIN after = D /\ after \in [D -> RatedPlayers]
       /\ \A k \in D : after[k].name = draw[k].name
       /\ \A k \in D : k # w /\ k # l => after[k] = draw[k]
       /\ SumOf(Gains(after), D) = SumOf(Gains(draw), D)
  BY <1>1, <1>11 DEF Exchanged
<1>13. SumOf(Gains(after), D) = 0
  BY <1>1, <1>12 DEF DrawTable
<1>14. ASSUME NEW k \in D
       PROVE  \/ \E id \in DOMAIN Names :
                   k = FileKey(id) /\ k \in DOMAIN table /\ after[k].name = Names[id]
              \/ \E id \in EventEntrants :
                   /\ k = <<"draw", Names[id]>> /\ FileKey(id) \notin DOMAIN table
                   /\ after[k].name = Names[id]
  <2>1. after[k].name = draw[k].name
    BY <1>12
  <2> QED
    BY <1>1, <2>1 DEF DrawTable
<1>15. \A id \in EventEntrants : EntrantKey(table, id) \in D
  BY <1>1 DEF DrawTable
<1>16. DrawTable(after, table)
  BY <1>2, <1>12, <1>13, <1>14, <1>15 DEF DrawTable
<1>17. ASSUME NEW j \in EventEntrants, j # winner, j # loser
       PROVE  after[EntrantKey(table, j)] = draw[EntrantKey(table, j)]
  <2>1. PICK k : k = EntrantKey(table, j)
    OBVIOUS
  <2>2. k # w /\ k # l /\ k \in D
    BY <1>3, <1>4, <1>15, <1>17, <2>1, KeysOfEntrants
  <2> QED
    BY <1>12, <2>1, <2>2
<1> QED
  BY <1>3, <1>4, <1>9, <1>11, <1>16, <1>17 DEF ObjectMoves, Exchanged

-----------------------------------------------------------------------------
(* Predictions *)

LEMMA EntrantRating ==
  ASSUME NEW table, NEW draw, DrawTable(draw, table), NEW id \in EventEntrants, NEW key,
         key = EntrantKey(table, id), NEW surface
  PROVE  /\ LookUp(Imported(draw), Names[id]) # {}
         /\ PlayerRating(Imported(draw), Names[id], surface) = EffectiveElo(draw[key], surface)
<1>1. /\ key \in DOMAIN draw /\ draw[key].name = Names[id]
      /\ \A k \in DOMAIN draw : draw[k].name = Names[id] => k = key
  BY KeyOfName
<1>2. PICK row : row = [key |-> key, state |-> draw[key]]
  OBVIOUS
<1>3. PICK named : named = {x \in Imported(draw) : x.state.name = Names[id]}
  OBVIOUS
<1>4. row \in named
  BY <1>1, <1>2, <1>3 DEF Imported
<1>5. ASSUME NEW x \in named PROVE x = row
  <2>1. PICK k \in DOMAIN draw : x = [key |-> k, state |-> draw[k]]
    BY <1>3 DEF Imported
  <2>2. draw[k].name = Names[id]
    BY <1>3, <2>1
  <2>3. k = key
    BY <1>1, <2>2
  <2> QED
    BY <1>2, <2>1, <2>3
<1>6. named = {row}
  BY <1>4, <1>5
<1>7. Cardinality(named) = 1
  BY <1>6, FS_Singleton
<1>8. LookUp(Imported(draw), Names[id]) = {row}
  BY <1>3, <1>6, <1>7 DEF LookUp
<1>9. (CHOOSE x \in {row} : TRUE) = row
  OBVIOUS
<1>10. row.state = draw[key]
  BY <1>2
<1> QED
  BY <1>8, <1>9, <1>10 DEF PlayerRating

LEMMA SamePredictions ==
  ASSUME NEW table, NEW draw, DrawTable(draw, table), NEW other, NEW drawn,
         DrawTable(drawn, other),
         \A id \in EventEntrants : draw[EntrantKey(table, id)] = drawn[EntrantKey(other, id)],
         NEW a \in EntrantNames, NEW b \in EntrantNames
  PROVE  PredictElo(Imported(draw), a, b, EventSurface)
           = PredictElo(Imported(drawn), a, b, EventSurface)
<1>1. ASSUME NEW n \in EntrantNames
      PROVE  /\ LookUp(Imported(draw), n) # {} /\ LookUp(Imported(drawn), n) # {}
             /\ PlayerRating(Imported(draw), n, EventSurface)
                  = PlayerRating(Imported(drawn), n, EventSurface)
  <2>1. PICK id \in EventEntrants : n = Names[id]
    BY DEF EntrantNames
  <2>2. PICK k : k = EntrantKey(table, id)
    OBVIOUS
  <2>3. PICK l : l = EntrantKey(other, id)
    OBVIOUS
  <2>4. /\ LookUp(Imported(draw), n) # {}
        /\ PlayerRating(Imported(draw), n, EventSurface) = EffectiveElo(draw[k], EventSurface)
    BY <2>1, <2>2, EntrantRating
  <2>5. /\ LookUp(Imported(drawn), n) # {}
        /\ PlayerRating(Imported(drawn), n, EventSurface) = EffectiveElo(drawn[l], EventSurface)
    BY <2>1, <2>3, EntrantRating
  <2>6. draw[k] = drawn[l]
    BY <2>2, <2>3
  <2> QED
    BY <2>4, <2>5, <2>6
<1>2. /\ {x \in {a, b} : LookUp(Imported(draw), x) # {}} = {a, b}
      /\ {x \in {a, b} : LookUp(Imported(drawn), x) # {}} = {a, b}
  BY <1>1
<1>3. /\ PlayerRating(Imported(draw), a, EventSurface)
           = PlayerRating(Imported(drawn), a, EventSurface)
      /\ PlayerRating(Imported(draw), b, EventSurface)
           = PlayerRating(Imported(drawn), b, EventSurface)
  BY <1>1
<1> QED
  BY <1>2, <1>3 DEF PredictElo

-----------------------------------------------------------------------------
(* Rows and captures *)

Numbered(all) ==
  /\ DOMAIN all \subseteq Int
  /\ \A i \in DOMAIN all : all[i].date \in Int /\ all[i].event \in Int /\ all[i].num \in Int

LEMMA LenOf ==
  ASSUME NEW S, NEW n \in Nat, NEW s \in [1..n -> S]
  PROVE  s \in Seq(S) /\ Len(s) = n
OBVIOUS

LEMMA InRowOrder ==
  ASSUME NEW all, NEW at, NEW x \in at, NEW y \in at
  PROVE  <<x, y>> \in RowOrder(all, at) <=>
           \/ RowBefore(all[x], all[y])
           \/ ~RowBefore(all[y], all[x]) /\ x < y
BY DEF RowOrder

LEMMA RowOrderIsStrict ==
  ASSUME NEW all, Numbered(all), NEW at \in SUBSET (DOMAIN all)
  PROVE  StrictOrder(at, RowOrder(all, at))
<1>1. ASSUME NEW x \in at
      PROVE  /\ x \in Int /\ all[x].date \in Int /\ all[x].event \in Int
             /\ all[x].num \in Int
  BY DEF Numbered
<1>2. ASSUME NEW x \in at PROVE <<x, x>> \notin RowOrder(all, at)
  <2>1. ~RowBefore(all[x], all[x]) /\ ~ x < x
    BY <1>1 DEF RowBefore
  <2> QED
    BY <2>1, InRowOrder
<1>3. ASSUME NEW x \in at, NEW y \in at, x # y
      PROVE  <<x, y>> \in RowOrder(all, at) \/ <<y, x>> \in RowOrder(all, at)
  <2>1. x < y \/ y < x
    BY <1>1, <1>3
  <2> QED
    BY <2>1, InRowOrder
<1>4. ASSUME NEW x \in at, NEW y \in at, NEW z \in at,
             <<x, y>> \in RowOrder(all, at), <<y, z>> \in RowOrder(all, at)
      PROVE  <<x, z>> \in RowOrder(all, at)
  <2>1. \/ RowBefore(all[x], all[y])
        \/ ~RowBefore(all[y], all[x]) /\ x < y
    BY <1>4, InRowOrder
  <2>2. \/ RowBefore(all[y], all[z])
        \/ ~RowBefore(all[z], all[y]) /\ y < z
    BY <1>4, InRowOrder
  <2>3. /\ x \in Int /\ all[x].date \in Int /\ all[x].event \in Int /\ all[x].num \in Int
        /\ y \in Int /\ all[y].date \in Int /\ all[y].event \in Int /\ all[y].num \in Int
        /\ z \in Int /\ all[z].date \in Int /\ all[z].event \in Int /\ all[z].num \in Int
    BY <1>1
  <2>4. \/ RowBefore(all[x], all[z])
        \/ ~RowBefore(all[z], all[x]) /\ x < z
    BY <2>1, <2>2, <2>3 DEF RowBefore
  <2> QED
    BY <2>4, InRowOrder
<1> QED
  BY <1>2, <1>3, <1>4 DEF StrictOrder

\* A capture has a match once, with how it ended.
IsCapture(capture) ==
  \A x \in capture :
    /\ x.match \in EventGames /\ x.round = RoundOf[x.match] /\ x.ending \in EventEndings
    /\ \A y \in capture : x.match = y.match => x = y
CountedObjects(capture) == {x \in capture : CountsInAdvance(x)}
ObjectOrder(objects) ==
  {p \in objects \X objects : \/ p[1].round < p[2].round
                              \/ p[1].round = p[2].round /\ p[1].match < p[2].match}

LEMMA ObjectFacts ==
  ASSUME NEW capture, IsCapture(capture), NEW x \in capture
  PROVE  /\ x.match \in EventGames /\ x.match \in Nat \ {0}
         /\ x.round \in Int /\ x.round = RoundOf[x.match]
         /\ FileRow(x).winner \in EventEntrants /\ FileRow(x).loser \in EventEntrants
         /\ FileRow(x).winner # FileRow(x).loser
         /\ FileRow(x).winner = EventPairs[x.match][x.ending.winner]
         /\ FileRow(x).loser = EventPairs[x.match][3 - x.ending.winner]
         /\ FileRow(x).date = EventDate /\ FileRow(x).num = x.match
         /\ FileRow(x).event = EventId
         /\ FileRow(x).surface = EventSurface /\ FileRow(x).level \in MainTour
         /\ FileRow(x).score = "completed" <=> x.ending.code = "D"
<1>1. x.match \in EventGames /\ x.round = RoundOf[x.match] /\ x.ending \in EventEndings
  BY DEF IsCapture
<1>2. /\ x.match \in Nat \ {0} /\ x.ending.winner \in {1, 2} /\ RoundOf[x.match] \in Int
      /\ EventPairs[x.match][1] # EventPairs[x.match][2]
  BY <1>1, EloParameters DEF EloAssumption
<1>3. EventPairs[x.match][1] \in EventEntrants /\ EventPairs[x.match][2] \in EventEntrants
  BY <1>1 DEF EventEntrants
<1>4. /\ FileRow(x).winner = EventPairs[x.match][x.ending.winner]
      /\ FileRow(x).loser = EventPairs[x.match][3 - x.ending.winner]
  BY DEF FileRow
<1>5. CASE x.ending.winner = 1
  BY <1>1, <1>2, <1>3, <1>4, <1>5 DEF FileRow, MainTour
<1>6. CASE x.ending.winner = 2
  BY <1>1, <1>2, <1>3, <1>4, <1>6 DEF FileRow, MainTour
<1> QED
  BY <1>2, <1>5, <1>6

LEMMA ObjectsAreOrdered ==
  ASSUME NEW capture, IsCapture(capture), NEW objects \in SUBSET capture
  PROVE  /\ IsFiniteSet(objects) /\ StrictOrder(objects, ObjectOrder(objects))
         /\ \A x, y \in objects : <<x, y>> \in ObjectOrder(objects) => x.match < y.match
<1>1. ASSUME NEW x \in objects
      PROVE  /\ x.match \in EventGames /\ x.match \in Nat /\ x.round \in Int
             /\ x.round = RoundOf[x.match]
  BY ObjectFacts
<1>2. \A x, y \in objects : x.match = y.match => x = y
  BY DEF IsCapture
<1>3. \A x, y \in objects : <<x, y>> \in ObjectOrder(objects) <=>
        x.round < y.round \/ (x.round = y.round /\ x.match < y.match)
  BY DEF ObjectOrder
<1>4. IsFiniteSet(objects)
  <2>1. PICK f : f = [x \in objects |-> x.match]
    OBVIOUS
  <2>2. f \in Injection(objects, EventGames)
    BY <1>1, <1>2, <2>1 DEF Injection, IsInjective
  <2>3. IsFiniteSet(EventGames)
    BY EloParameters DEF EloAssumption
  <2> QED
    BY <2>2, <2>3, FS_Injection
<1>5. \A x \in objects : <<x, x>> \notin ObjectOrder(objects)
  BY <1>1, <1>3
<1>6. ASSUME NEW x \in objects, NEW y \in objects, x # y
      PROVE  <<x, y>> \in ObjectOrder(objects) \/ <<y, x>> \in ObjectOrder(objects)
  <2>1. x.match # y.match
    BY <1>2, <1>6
  <2>2. /\ x.match \in Nat /\ x.round \in Int
        /\ y.match \in Nat /\ y.round \in Int
    BY <1>1
  <2> QED
    BY <1>3, <2>1, <2>2
<1>7. ASSUME NEW x \in objects, NEW y \in objects, NEW z \in objects,
             <<x, y>> \in ObjectOrder(objects), <<y, z>> \in ObjectOrder(objects)
      PROVE  <<x, z>> \in ObjectOrder(objects)
  <2>1. /\ x.match \in Nat /\ x.round \in Int /\ y.match \in Nat /\ y.round \in Int
        /\ z.match \in Nat /\ z.round \in Int
    BY <1>1
  <2> QED
    BY <1>3, <1>7, <2>1
<1>8. ASSUME NEW x \in objects, NEW y \in objects, <<x, y>> \in ObjectOrder(objects)
      PROVE  x.match < y.match
  <2>1. x.round < y.round \/ x.match < y.match
    BY <1>3, <1>8
  <2>2. /\ x.match \in EventGames /\ x.round = RoundOf[x.match]
        /\ y.match \in EventGames /\ y.round = RoundOf[y.match]
    BY <1>1
  <2>3. x.round < y.round => x.match < y.match
    BY <2>2, EloParameters DEF EloAssumption
  <2> QED
    BY <2>1, <2>3
<1> QED
  BY <1>4, <1>5, <1>6, <1>7, <1>8 DEF StrictOrder

\* The files with the matches of the event behind those of the past.
PastRows == {i \in DOMAIN rows : rows[i].date < CutoffDate}
Played(capture) == {x \in capture : x.round \in EligibleRounds}
PlaceOf(x) == Len(rows) + x.match

LEMMA RowsOfFiles ==
  ASSUME rows \in Histories
  PROVE  /\ Len(rows) \in Nat /\ DOMAIN rows = 1..Len(rows) /\ Numbered(rows)
         /\ \A i \in DOMAIN rows : /\ rows[i].winner \in DOMAIN Names
                                   /\ rows[i].loser \in DOMAIN Names
                                   /\ rows[i].winner # rows[i].loser
<1>1. /\ rows \in Seq({rows[i] : i \in DOMAIN rows})
      /\ \A i \in DOMAIN rows : /\ rows[i].date \in Int /\ rows[i].event \in Int
                                /\ rows[i].num \in Int
                                /\ {rows[i].winner, rows[i].loser} \subseteq DOMAIN Names
                                /\ rows[i].winner # rows[i].loser
  BY EloParameters DEF EloAssumption
<1>2. Len(rows) \in Nat /\ DOMAIN rows = 1..Len(rows)
  BY <1>1, LenProperties
<1>3. DOMAIN rows \subseteq Int
  BY <1>2
<1> QED
  BY <1>1, <1>2, <1>3 DEF Numbered

LEMMA FilesAreThose ==
  ASSUME rows \in Histories, NEW capture, IsCapture(capture), NEW files,
         files = FilesWith(capture)
  PROVE  /\ DOMAIN files = PastRows \cup {PlaceOf(x) : x \in Played(capture)}
         /\ \A i \in PastRows : files[i] = rows[i]
         /\ \A x \in Played(capture) :
              /\ files[PlaceOf(x)] = FileRow(x) /\ PlaceOf(x) \in Int
              /\ \A i \in DOMAIN rows : i < PlaceOf(x)
<1>1. Len(rows) \in Nat /\ DOMAIN rows = 1..Len(rows)
  BY RowsOfFiles
<1>2. ASSUME NEW x \in Played(capture)
      PROVE  /\ PlaceOf(x) \in Int /\ x.match \in Nat
             /\ \A i \in DOMAIN rows : i < PlaceOf(x)
  <2>1. x.match \in Nat \ {0}
    BY ObjectFacts DEF Played
  <2> QED
    BY <1>1, <2>1 DEF PlaceOf
<1>3. PICK D : D = PastRows \cup {PlaceOf(x) : x \in Played(capture)}
  OBVIOUS
<1>4. files = [i \in D |-> IF i \in PastRows THEN rows[i]
                 ELSE FileRow(CHOOSE x \in Played(capture) : PlaceOf(x) = i)]
  BY <1>3 DEF FilesWith, PastRows, Played, PlaceOf
<1>5. \A i \in PastRows : files[i] = rows[i]
  BY <1>3, <1>4
<1>6. ASSUME NEW x \in Played(capture) PROVE files[PlaceOf(x)] = FileRow(x)
  <2>1. PICK p : p = PlaceOf(x)
    OBVIOUS
  <2>2. p \in D
    BY <1>3, <2>1
  <2>3. p \notin PastRows
    <3>1. SUFFICES ASSUME p \in PastRows PROVE FALSE
      OBVIOUS
    <3>2. p \in DOMAIN rows
      BY <3>1 DEF PastRows
    <3>3. p < p /\ p \in Int
      BY <1>2, <2>1, <3>2
    <3> QED
      BY <3>3
  <2>4. PICK y : y = CHOOSE z \in Played(capture) : PlaceOf(z) = p
    OBVIOUS
  <2>5. y \in Played(capture) /\ PlaceOf(y) = p
    BY <2>1, <2>4
  <2>6. x.match = y.match
    <3>1. x.match \in Nat /\ y.match \in Nat /\ Len(rows) + x.match = Len(rows) + y.match
      BY <1>2, <2>1, <2>5 DEF PlaceOf
    <3> QED
      BY <1>1, <3>1
  <2>7. x = y
    BY <2>5, <2>6 DEF IsCapture, Played
  <2>8. files[p] = FileRow(y)
    BY <1>4, <2>2, <2>3, <2>4
  <2> QED
    BY <2>1, <2>7, <2>8
<1>7. DOMAIN files = D
  BY <1>4
<1> QED
  BY <1>2, <1>3, <1>5, <1>6, <1>7

\* A build after the event rates what the build before it rated, and what the
\* advance counts.
LEMMA RatedOfBoth ==
  ASSUME rows \in Histories, NEW capture, IsCapture(capture), NEW files,
         files = FilesWith(capture)
  PROVE  RatedAt(files, EventDate + 1)
           = RatedAt(rows, CutoffDate) \cup {PlaceOf(x) : x \in CountedObjects(capture)}
<1>1. /\ DOMAIN files = PastRows \cup {PlaceOf(x) : x \in Played(capture)}
      /\ \A i \in PastRows : files[i] = rows[i]
      /\ \A x \in Played(capture) :
           /\ files[PlaceOf(x)] = FileRow(x) /\ PlaceOf(x) \in Int
           /\ \A i \in DOMAIN rows : i < PlaceOf(x)
  BY FilesAreThose
<1>2. /\ CutoffDate \in Int /\ EventDate \in Int /\ CutoffDate <= EventDate
      /\ EventSurface \in Surfaces
  BY EloParameters DEF EloAssumption
<1>3. DOMAIN rows \subseteq Int /\ \A i \in DOMAIN rows : rows[i].date \in Int
  BY RowsOfFiles DEF Numbered
<1>4. PastRows \subseteq DOMAIN rows
  BY DEF PastRows
<1>5. \A i \in DOMAIN rows : EligibleRow(rows[i], CutoffDate) => i \in PastRows
  BY DEF EligibleRow, PastRows
<1>6. ASSUME NEW i \in PastRows
      PROVE  EligibleRow(files[i], EventDate + 1) <=> EligibleRow(rows[i], CutoffDate)
  <2>1. files[i] = rows[i] /\ rows[i].date \in Int /\ rows[i].date < CutoffDate
    BY <1>1, <1>3, <1>4 DEF PastRows
  <2>2. rows[i].date < EventDate + 1
    BY <1>2, <2>1
  <2> QED
    BY <2>1, <2>2 DEF EligibleRow
<1>7. ASSUME NEW x \in Played(capture)
      PROVE  EligibleRow(files[PlaceOf(x)], EventDate + 1) <=> x \in CountedObjects(capture)
  <2>1. files[PlaceOf(x)] = FileRow(x)
    BY <1>1
  <2>2. x \in capture /\ x.round \in EligibleRounds
    BY DEF Played
  <2>3. /\ FileRow(x).date = EventDate /\ FileRow(x).surface = EventSurface
        /\ FileRow(x).level \in MainTour
        /\ FileRow(x).score = "completed" <=> x.ending.code = "D"
    BY <2>2, ObjectFacts
  <2> QED
    BY <1>2, <2>1, <2>2, <2>3 DEF EligibleRow, CountedObjects, CountsInAdvance
<1>8. ASSUME NEW i \in PastRows
      PROVE  i \in RatedAt(files, EventDate + 1) <=> i \in RatedAt(rows, CutoffDate)
  <2>1. ASSUME NEW j \in DOMAIN files, j < i PROVE j \in PastRows
    <3>1. CASE \E x \in Played(capture) : j = PlaceOf(x)
      <4>1. PICK x \in Played(capture) : j = PlaceOf(x)
        BY <3>1
      <4>2. i < j /\ j \in Int /\ i \in Int
        BY <1>1, <1>3, <1>4, <4>1
      <4> QED
        BY <2>1, <4>2
    <3> QED
      BY <1>1, <3>1
  <2>2. i \in DOMAIN files /\ i \in DOMAIN rows /\ files[i] = rows[i]
    BY <1>1, <1>4
  <2>3. ASSUME NEW j \in PastRows
        PROVE  /\ j \in DOMAIN files /\ j \in DOMAIN rows /\ files[j] = rows[j]
               /\ EligibleRow(files[j], EventDate + 1) <=> EligibleRow(rows[j], CutoffDate)
    BY <1>1, <1>4, <1>6
  <2>4. (\A j \in DOMAIN files : j < i /\ EligibleRow(files[j], EventDate + 1)
                                   => RowKey(files[j]) # RowKey(files[i]))
        <=> (\A j \in DOMAIN rows : j < i /\ EligibleRow(rows[j], CutoffDate)
                                   => RowKey(rows[j]) # RowKey(rows[i]))
    BY <1>5, <2>1, <2>2, <2>3
  <2> QED
    BY <1>6, <2>2, <2>4 DEF RatedAt
<1>9. ASSUME NEW x \in CountedObjects(capture)
      PROVE  PlaceOf(x) \in RatedAt(files, EventDate + 1)
  <2>1. x \in Played(capture) /\ x \in capture
    BY DEF CountedObjects, CountsInAdvance, Played
  <2>2. PICK i : i = PlaceOf(x)
    OBVIOUS
  <2>3. i \in DOMAIN files /\ EligibleRow(files[i], EventDate + 1) /\ files[i] = FileRow(x)
    BY <1>1, <1>7, <2>1, <2>2
  <2>4. FileRow(x).date = EventDate /\ FileRow(x).num = x.match
    BY <2>1, ObjectFacts
  <2>5. ASSUME NEW j \in DOMAIN files, j < i PROVE RowKey(files[j]) # RowKey(files[i])
    <3>1. CASE j \in PastRows
      <4>1. files[j].date \in Int /\ files[j].date < CutoffDate
        BY <1>1, <1>3, <1>4, <3>1 DEF PastRows
      <4>2. files[j].date # files[i].date
        BY <1>2, <2>3, <2>4, <4>1
      <4> QED
        BY <4>2 DEF RowKey
    <3>2. CASE \E y \in Played(capture) : j = PlaceOf(y)
      <4>1. PICK y \in Played(capture) : j = PlaceOf(y)
        BY <3>2
      <4>2. y \in capture /\ files[j] = FileRow(y)
        BY <1>1, <4>1 DEF Played
      <4>3. FileRow(y).num = y.match
        BY <4>2, ObjectFacts
      <4>4. x.match # y.match
        <5>1. SUFFICES ASSUME x.match = y.match PROVE FALSE
          OBVIOUS
        <5>2. i = j /\ i \in Int
          BY <1>1, <2>1, <2>2, <4>1, <5>1 DEF PlaceOf
        <5> QED
          BY <2>5, <5>2
      <4>5. files[j].num # files[i].num
        BY <2>3, <2>4, <4>2, <4>3, <4>4
      <4> QED
        BY <4>5 DEF RowKey
    <3> QED
      BY <1>1, <3>1, <3>2
  <2> QED
    BY <2>2, <2>3, <2>5 DEF RatedAt
<1>10. ASSUME NEW i \in RatedAt(files, EventDate + 1), i \notin PastRows
       PROVE  \E x \in CountedObjects(capture) : i = PlaceOf(x)
  <2>1. i \in DOMAIN files /\ EligibleRow(files[i], EventDate + 1)
    BY DEF RatedAt
  <2>2. PICK x \in Played(capture) : i = PlaceOf(x)
    BY <1>1, <1>10, <2>1
  <2>3. x \in CountedObjects(capture)
    BY <1>7, <2>1, <2>2
  <2> QED
    BY <2>2, <2>3
<1>11. RatedAt(rows, CutoffDate) \subseteq PastRows
  BY <1>5 DEF RatedAt
<1> QED
  BY <1>8, <1>9, <1>10, <1>11

\* It rates them in the order of the first build, then in that of the advance.
LEMMA RatedInOrder ==
  ASSUME rows \in Histories, NEW capture, IsCapture(capture), NEW files,
         files = FilesWith(capture), NEW first, first = RatedRows(rows, CutoffDate),
         NEW last, last = RatedRows(files, EventDate + 1),
         NEW objects, objects = AdvanceOrder(CountedObjects(capture))
  PROVE  \E n, m \in Nat :
           /\ Len(first) = n /\ Len(last) = n + m /\ Len(objects) = m
           /\ \A k \in 1..n : last[k] = first[k] /\ RowPlayable(first[k])
           /\ \A k \in 1..m : /\ objects[k] \in CountedObjects(capture)
                              /\ last[n + k] = FileRow(objects[k])
<1>1. /\ DOMAIN files = PastRows \cup {PlaceOf(x) : x \in Played(capture)}
      /\ \A i \in PastRows : files[i] = rows[i]
      /\ \A x \in Played(capture) :
           /\ files[PlaceOf(x)] = FileRow(x) /\ PlaceOf(x) \in Int
           /\ \A i \in DOMAIN rows : i < PlaceOf(x)
  BY FilesAreThose
<1>2. PICK A : A = RatedAt(rows, CutoffDate)
  OBVIOUS
<1>3. PICK C : C = CountedObjects(capture)
  OBVIOUS
<1>4. PICK B : B = {PlaceOf(x) : x \in C}
  OBVIOUS
<1>5. RatedAt(files, EventDate + 1) = A \cup B
  BY <1>2, <1>3, <1>4, RatedOfBoth
<1>6. /\ Len(rows) \in Nat /\ DOMAIN rows = 1..Len(rows) /\ Numbered(rows)
      /\ \A i \in DOMAIN rows : /\ rows[i].winner \in DOMAIN Names
                                /\ rows[i].loser \in DOMAIN Names
                                /\ rows[i].winner # rows[i].loser
  BY RowsOfFiles
<1>7. A \subseteq DOMAIN rows /\ A \subseteq PastRows /\ A \subseteq DOMAIN files
  <2>1. A \subseteq DOMAIN rows /\ A \subseteq PastRows
    BY <1>2 DEF RatedAt, EligibleRow, PastRows
  <2> QED
    BY <1>1, <2>1
<1>8. IsFiniteSet(A)
  <2>1. 1 \in Int /\ Len(rows) \in Int
    BY <1>6
  <2>2. IsFiniteSet(1..Len(rows))
    BY <2>1, FS_Interval
  <2> QED
    BY <1>6, <1>7, <2>2, FS_Subset
<1>9. C \subseteq capture /\ C \subseteq Played(capture)
  BY <1>3 DEF CountedObjects, CountsInAdvance, Played
<1>10. ASSUME NEW x \in C
       PROVE  /\ PlaceOf(x) \in DOMAIN files /\ files[PlaceOf(x)] = FileRow(x)
              /\ PlaceOf(x) \in Int /\ x.match \in Nat /\ PlaceOf(x) = Len(rows) + x.match
              /\ FileRow(x).date = EventDate /\ FileRow(x).num = x.match
              /\ FileRow(x).event = EventId
              /\ \A i \in DOMAIN rows : i < PlaceOf(x)
  <2>1. x \in Played(capture) /\ x \in capture
    BY <1>9
  <2>2. /\ x.match \in Nat /\ FileRow(x).date = EventDate /\ FileRow(x).num = x.match
        /\ FileRow(x).event = EventId
    BY <2>1, ObjectFacts
  <2>3. PlaceOf(x) \in DOMAIN files
    BY <1>1, <2>1
  <2> QED
    BY <1>1, <2>1, <2>2, <2>3 DEF PlaceOf
<1>11. CutoffDate \in Int /\ EventDate \in Int /\ CutoffDate <= EventDate /\ EventId \in Int
  BY EloParameters DEF EloAssumption
<1>12. Numbered(files)
  <2>1. ASSUME NEW i \in PastRows
        PROVE  /\ i \in Int /\ files[i].date \in Int /\ files[i].event \in Int
               /\ files[i].num \in Int
    BY <1>1, <1>6 DEF Numbered, PastRows
  <2>2. ASSUME NEW x \in Played(capture)
        PROVE  /\ PlaceOf(x) \in Int /\ files[PlaceOf(x)].date \in Int
               /\ files[PlaceOf(x)].event \in Int /\ files[PlaceOf(x)].num \in Int
    <3>1. x \in capture /\ files[PlaceOf(x)] = FileRow(x) /\ PlaceOf(x) \in Int
      BY <1>1 DEF Played
    <3>2. /\ FileRow(x).date = EventDate /\ FileRow(x).num = x.match /\ x.match \in Nat
          /\ FileRow(x).event = EventId
      BY <3>1, ObjectFacts
    <3> QED
      BY <1>11, <3>1, <3>2
  <2> QED
    BY <1>1, <2>1, <2>2 DEF Numbered
<1>13. PICK Q : Q = RowOrder(files, A \cup B)
  OBVIOUS
<1>14. B \subseteq DOMAIN files /\ A \cup B \subseteq DOMAIN files
  BY <1>4, <1>7, <1>10
<1>15. StrictOrder(A \cup B, Q)
  BY <1>12, <1>13, <1>14, RowOrderIsStrict
<1>16. PICK R : R = RowOrder(rows, A)
  OBVIOUS
<1>17. StrictOrder(A, R)
  BY <1>6, <1>7, <1>16, RowOrderIsStrict
<1>18. PICK O : O = ObjectOrder(C)
  OBVIOUS
<1>19. /\ IsFiniteSet(C) /\ StrictOrder(C, O)
       /\ \A x, y \in C : <<x, y>> \in O => x.match < y.match
  BY <1>9, <1>18, ObjectsAreOrdered
<1>20. StrictOrder(A, Q) /\ StrictOrder(B, Q)
  BY <1>15 DEF StrictOrder
<1>21. PICK n \in Nat : n = Cardinality(A)
  BY <1>8, FS_CardinalityType
<1>22. PICK m \in Nat : m = Cardinality(C)
  BY <1>19, FS_CardinalityType
<1>23. \A k \in 1..n : Ordered(A, Q)[k] = Ordered(A, R)[k]
  <2>1. PICK f : f = [x \in A |-> x]
    OBVIOUS
  <2>2. f \in [A -> A] /\ \A y \in A : \E x \in A : f[x] = y
    BY <2>1
  <2>3. ASSUME NEW x \in A, NEW y \in A, <<x, y>> \in R PROVE <<f[x], f[y]>> \in Q
    <3>1. files[x] = rows[x] /\ files[y] = rows[y] /\ f[x] = x /\ f[y] = y
      BY <1>1, <1>7, <2>1
    <3>2. x \in A \cup B /\ y \in A \cup B
      OBVIOUS
    <3>3. <<x, y>> \in R <=> \/ RowBefore(rows[x], rows[y])
                             \/ ~RowBefore(rows[y], rows[x]) /\ x < y
      BY <1>16, InRowOrder
    <3>4. <<x, y>> \in Q <=> \/ RowBefore(files[x], files[y])
                             \/ ~RowBefore(files[y], files[x]) /\ x < y
      BY <1>13, <3>2, InRowOrder
    <3> QED
      BY <2>3, <3>1, <3>3, <3>4
  <2>4. \A k \in 1..n : Ordered(A, Q)[k] = f[Ordered(A, R)[k]]
    BY <1>8, <1>17, <1>20, <1>21, <2>2, <2>3, OrderCarried
  <2>5. Sorted(Ordered(A, R), n, A, R)
    BY <1>8, <1>17, <1>21, OrderedIsSorted
  <2>6. \A k \in 1..n : Ordered(A, R)[k] \in A
    BY <2>5 DEF Sorted
  <2> QED
    BY <2>1, <2>4, <2>6
<1>24. PICK f : f = [x \in C |-> PlaceOf(x)]
  OBVIOUS
<1>25. f \in [C -> B] /\ \A y \in B : \E x \in C : f[x] = y
  BY <1>4, <1>24
<1>26. ASSUME NEW x \in C, NEW y \in C, <<x, y>> \in O PROVE <<f[x], f[y]>> \in Q
  <2>1. PICK i \in B : i = PlaceOf(x)
    BY <1>4
  <2>2. PICK j \in B : j = PlaceOf(y)
    BY <1>4
  <2>3. files[i] = FileRow(x) /\ files[j] = FileRow(y)
    BY <1>10, <2>1, <2>2
  <2>4. x.match < y.match
    BY <1>19, <1>26
  <2>5. RowBefore(files[i], files[j])
    BY <1>10, <2>3, <2>4 DEF RowBefore
  <2>6. i \in A \cup B /\ j \in A \cup B
    OBVIOUS
  <2>7. <<i, j>> \in Q
    BY <1>13, <2>5, <2>6, InRowOrder
  <2> QED
    BY <1>24, <2>1, <2>2, <2>7
<1>27. /\ IsFiniteSet(B) /\ Cardinality(B) = m
       /\ \A k \in 1..m : Ordered(B, Q)[k] = f[Ordered(C, O)[k]]
  BY <1>19, <1>20, <1>22, <1>25, <1>26, OrderCarried
<1>28. ASSUME NEW a \in A, NEW b \in B PROVE <<a, b>> \in Q
  <2>1. PICK x \in C : b = PlaceOf(x)
    BY <1>4
  <2>2. files[b].date = EventDate
    BY <1>10, <2>1
  <2>3. files[a].date < CutoffDate /\ files[a].date \in Int
    BY <1>1, <1>6, <1>7 DEF PastRows, Numbered
  <2>4. RowBefore(files[a], files[b])
    BY <1>11, <2>2, <2>3 DEF RowBefore
  <2>5. a \in A \cup B /\ b \in A \cup B
    OBVIOUS
  <2> QED
    BY <1>13, <2>4, <2>5, InRowOrder
<1>29. /\ Cardinality(A \cup B) = n + m
       /\ \A k \in 1..n : Ordered(A \cup B, Q)[k] = Ordered(A, Q)[k]
       /\ \A k \in 1..m : Ordered(A \cup B, Q)[n + k] = Ordered(B, Q)[k]
  <2>0. PICK S : S = A \cup B
    OBVIOUS
  <2>1. m = Cardinality(B) /\ IsFiniteSet(B)
    BY <1>27
  <2>2. BeforeAll(A, B, Q)
    BY <1>28 DEF BeforeAll
  <2>3. StrictOrder(S, Q) /\ IsFiniteSet(A) /\ n \in Nat /\ m \in Nat
    BY <1>8, <1>15, <1>21, <1>22, <2>0
  <2>4. Joined(A, B, S, Q, n, m)
    BY <1>21, <2>0, <2>1, <2>2, <2>3, OrderJoined
  <2> QED
    BY <2>0, <2>4 DEF Joined
<1>30. PICK o : o = Ordered(A, R)
  OBVIOUS
<1>31. PICK p : p = Ordered(A \cup B, Q)
  OBVIOUS
<1>32. PICK l \in Nat : l = n + m
  OBVIOUS
<1>33. DOMAIN o = 1..n /\ DOMAIN p = 1..l
  BY <1>21, <1>29, <1>30, <1>31, <1>32 DEF Ordered
<1>34. first = [k \in 1..n |-> rows[o[k]]]
  BY <1>2, <1>16, <1>30, <1>33 DEF RatedRows
<1>35. last = [k \in 1..l |-> files[p[k]]]
  BY <1>5, <1>13, <1>31, <1>33 DEF RatedRows
<1>36. objects = Ordered(C, O)
  BY <1>3, <1>18 DEF AdvanceOrder, ObjectOrder
<1>37. Sorted(objects, m, C, O)
  BY <1>19, <1>22, <1>36, OrderedIsSorted
<1>38. \A k \in 1..m : objects[k] \in C
  BY <1>37 DEF Sorted
<1>39. Len(first) = n /\ Len(last) = l /\ Len(objects) = m
  <2>1. first \in [1..n -> {first[k] : k \in 1..n}]
    BY <1>34
  <2>2. last \in [1..l -> {last[k] : k \in 1..l}]
    BY <1>35
  <2>3. objects \in [1..m -> C]
    BY <1>37 DEF Sorted
  <2> QED
    BY <2>1, <2>2, <2>3, LenOf
<1>40. ASSUME NEW k \in 1..n PROVE last[k] = first[k] /\ RowPlayable(first[k])
  <2>1. Sorted(o, n, A, R)
    BY <1>8, <1>17, <1>21, <1>30, OrderedIsSorted
  <2>2. o[k] \in A
    BY <2>1 DEF Sorted
  <2>3. p[k] = o[k]
    BY <1>23, <1>29, <1>30, <1>31
  <2>4. k \in 1..l
    BY <1>32
  <2>5. files[o[k]] = rows[o[k]] /\ o[k] \in DOMAIN rows
    BY <1>1, <1>7, <2>2
  <2>6. first[k] = rows[o[k]] /\ last[k] = rows[o[k]]
    BY <1>34, <1>35, <2>3, <2>4, <2>5
  <2>7. rows[o[k]].surface \in Surfaces
    BY <1>2, <2>2 DEF RatedAt, EligibleRow
  <2>8. rows[o[k]].date \in Int
    BY <1>6, <2>5 DEF Numbered
  <2> QED
    BY <1>6, <2>5, <2>6, <2>7, <2>8 DEF RowPlayable
<1>41. ASSUME NEW k \in 1..m PROVE last[n + k] = FileRow(objects[k])
  <2>1. n + k \in 1..l
    BY <1>32
  <2>2. p[n + k] = f[objects[k]]
    BY <1>27, <1>29, <1>31, <1>36
  <2>3. PICK x \in C : x = objects[k]
    BY <1>38
  <2>4. f[x] = PlaceOf(x) /\ files[PlaceOf(x)] = FileRow(x)
    BY <1>10, <1>24
  <2>5. last[n + k] = files[p[n + k]]
    BY <1>35, <2>1
  <2> QED
    BY <2>2, <2>3, <2>4, <2>5
<1> QED
  BY <1>3, <1>32, <1>38, <1>39, <1>40, <1>41

-----------------------------------------------------------------------------
(* The advance is a rebuild *)

LEMMA EntrantsFinite == IsFiniteSet(EventEntrants)
<1>1. IsFiniteSet(EventGames)
  BY EloParameters DEF EloAssumption
<1>2. PICK f : f = [g \in EventGames |-> {EventPairs[g][1], EventPairs[g][2]}]
  OBVIOUS
<1>3. PICK T : T = {{EventPairs[g][1], EventPairs[g][2]} : g \in EventGames}
  OBVIOUS
<1>4. f \in Surjection(EventGames, T)
  BY <1>2, <1>3 DEF Surjection
<1>5. IsFiniteSet(T)
  BY <1>1, <1>4, FS_Surjection
<1>6. ASSUME NEW t \in T PROVE IsFiniteSet(t)
  <2>1. PICK g \in EventGames : t = {EventPairs[g][1], EventPairs[g][2]}
    BY <1>3
  <2>2. PICK a, b : a = EventPairs[g][1] /\ b = EventPairs[g][2]
    OBVIOUS
  <2>3. IsFiniteSet({a})
    BY FS_Singleton
  <2>4. IsFiniteSet({a} \cup {b})
    BY <2>3, FS_AddElement
  <2>5. t = {a} \cup {b}
    BY <2>1, <2>2
  <2> QED
    BY <2>4, <2>5
<1>7. IsFiniteSet(UNION T)
  BY <1>5, <1>6, FS_UNION
<1> QED
  BY <1>3, <1>7 DEF EventEntrants

LEMMA NobodyIsTable == FileTable(NobodyRated)
<1>1. DOMAIN NobodyRated = {} /\ NobodyRated \in [{} -> RatedPlayers]
  BY DEF NobodyRated
<1>2. PICK g : g = Gains(NobodyRated)
  OBVIOUS
<1>3. IsFiniteSet({})
  BY FS_EmptySet
<1>4. \A x \in {} : g[x] = 0
  OBVIOUS
<1>5. SumOf(g, {}) = 0
  BY <1>3, <1>4, SumOfZeros
<1> QED
  BY <1>1, <1>2, <1>3, <1>5 DEF FileTable

\* Whatever the files hold and whatever has been captured.
Rebuilds(base, table, rebuilt) ==
  /\ \A a, b \in EntrantNames :
       PredictElo(Imported(table), a, b, EventSurface)
         = PredictElo(Imported(rebuilt), a, b, EventSurface)
  /\ Won(base) = 0 /\ Won(table) = 0

LEMMA AdvanceRebuilds ==
  ASSUME rows \in Histories, NEW capture, IsCapture(capture),
         NEW base, base = BuildRatings(rows, CutoffDate)
  PROVE  Rebuilds(base, Advance(base, capture), Rebuilt(capture))
<1>1. PICK files : files = FilesWith(capture)
  OBVIOUS
<1>2. PICK first : first = RatedRows(rows, CutoffDate)
  OBVIOUS
<1>3. PICK last : last = RatedRows(files, EventDate + 1)
  OBVIOUS
<1>4. PICK objects : objects = AdvanceOrder(CountedObjects(capture))
  OBVIOUS
<1>5. PICK n \in Nat, m \in Nat :
        /\ Len(first) = n /\ Len(last) = n + m /\ Len(objects) = m
        /\ \A k \in 1..n : last[k] = first[k] /\ RowPlayable(first[k])
        /\ \A k \in 1..m : /\ objects[k] \in CountedObjects(capture)
                           /\ last[n + k] = FileRow(objects[k])
  BY <1>1, <1>2, <1>3, <1>4, RatedInOrder
<1>6. PICK l \in Nat : l = n + m
  OBVIOUS
<1>7. PICK after : RowByRow(after, NobodyRated, last) /\ RateRows(NobodyRated, last) = after[l]
  <2>1. Len(last) \in Nat /\ Len(last) = l
    BY <1>5, <1>6
  <2>2. PICK f : /\ RowByRow(f, NobodyRated, last)
                 /\ RateRows(NobodyRated, last) = f[Len(last)]
    BY <2>1, RowsAreRated
  <2> QED
    BY <2>1, <2>2
<1>8. after[0] = NobodyRated /\ \A k \in 1..l : after[k] = RateRow(after[k - 1], last[k])
  BY <1>5, <1>6, <1>7 DEF RowByRow
<1>9. PICK table : table = after[n]
  OBVIOUS
<1>10. RateRows(NobodyRated, first) = table
  <2>1. \A k \in 1..n : k \in 1..l /\ last[k] = first[k]
    BY <1>5, <1>6
  <2>2. RowByRow(after, NobodyRated, first)
    BY <1>5, <1>8, <2>1 DEF RowByRow
  <2> QED
    BY <1>5, <1>9, <2>2, RowsRateOnce
<1>11. base = WithEntrants(table)
  BY <1>2, <1>10 DEF BuildRatings
<1>12. Rebuilt(capture) = WithEntrants(after[l])
  BY <1>1, <1>3, <1>7 DEF Rebuilt, BuildRatings
<1>13. ASSUME NEW k \in 1..m
       PROVE  /\ objects[k] \in capture /\ n + k \in 1..l
              /\ last[n + k] = FileRow(objects[k]) /\ RowPlayable(last[n + k])
  <2>1. PICK x \in CountedObjects(capture) : x = objects[k]
    BY <1>5
  <2>2. x \in capture
    BY DEF CountedObjects
  <2>3. /\ FileRow(x).winner \in EventEntrants /\ FileRow(x).loser \in EventEntrants
        /\ FileRow(x).winner # FileRow(x).loser
        /\ FileRow(x).date = EventDate /\ FileRow(x).surface = EventSurface
    BY <2>2, ObjectFacts
  <2>4. EventSurface \in Surfaces /\ EventDate \in Int
    BY EloParameters DEF EloAssumption
  <2>5. RowPlayable(FileRow(x))
    BY <2>3, <2>4, EntrantsNamed DEF RowPlayable
  <2>6. n + k \in 1..l
    BY <1>6
  <2> QED
    BY <1>5, <2>1, <2>2, <2>5, <2>6
<1>14. \A k \in 1..l : RowPlayable(last[k])
  <2>1. ASSUME NEW k \in 1..l PROVE RowPlayable(last[k])
    <3>1. CASE k <= n
      <4>1. k \in 1..n
        BY <3>1
      <4> QED
        BY <1>5, <4>1
    <3>2. CASE ~ k <= n
      <4>1. PICK j \in 1..m : k = n + j
        <5>1. k - n \in 1..m /\ k = n + (k - n)
          BY <1>6, <3>2
        <5> QED
          BY <5>1
      <4> QED
        BY <1>13, <4>1
    <3> QED
      BY <3>1, <3>2
  <2> QED
    BY <2>1
<1> DEFINE S == {k \in 0..l : FileTable(after[k])}
<1>15. 0 \in S
  BY <1>8, NobodyIsTable
<1>16. ASSUME NEW k \in 0..l, k < l, k \in S PROVE k + 1 \in S
  <2>1. k + 1 \in 1..l /\ (k + 1) - 1 = k /\ k + 1 \in 0..l
    BY <1>16
  <2>2. PICK before : before = after[k]
    OBVIOUS
  <2>3. PICK row : row = last[k + 1]
    OBVIOUS
  <2>4. after[k + 1] = RateRow(before, row)
    BY <1>8, <2>1, <2>2, <2>3
  <2>5. FileTable(before) /\ RowPlayable(row)
    BY <1>14, <1>16, <2>1, <2>2, <2>3
  <2>6. FileTable(after[k + 1])
    BY <2>4, <2>5, RowIsRated DEF RowMoves
  <2> QED
    BY <2>1, <2>6
<1> HIDE DEF S
<1>17. 0..l \subseteq S
  BY <1>15, <1>16, InductionTo
<1>18. \A k \in 0..l : FileTable(after[k])
  BY <1>17 DEF S
<1>19. n \in 0..l /\ l \in 0..l
  BY <1>6
<1>20. FileTable(table) /\ FileTable(after[l])
  BY <1>9, <1>18, <1>19
<1>21. PICK h : ObjectByObject(h, base, objects) /\ RateObjects(base, objects) = h[m]
  <2>1. Len(objects) \in Nat /\ Len(objects) = m
    BY <1>5
  <2>2. PICK f : /\ ObjectByObject(f, base, objects)
                 /\ RateObjects(base, objects) = f[Len(objects)]
    BY <2>1, ObjectsAreRated
  <2> QED
    BY <2>1, <2>2
<1>22. h[0] = base /\ \A k \in 1..m : h[k] = RateObject(h[k - 1], objects[k])
  BY <1>5, <1>21 DEF ObjectByObject
<1>23. Advance(base, capture) = h[m]
  BY <1>4, <1>21 DEF Advance, CountedObjects
<1> DEFINE Alike(k) == /\ DrawTable(h[k], table)
                       /\ \A id \in EventEntrants :
                            h[k][EntrantKey(table, id)] = StateIn(after[n + k], id)
           T == {k \in 0..m : Alike(k)}
<1>24. 0 \in T
  <2>1. /\ DrawTable(base, table)
        /\ \A id \in EventEntrants : base[EntrantKey(table, id)] = StateIn(table, id)
    BY <1>11, <1>20, EntrantsAdded, EntrantsFinite
  <2>2. n + 0 = n /\ 0 \in 0..m
    OBVIOUS
  <2> QED
    BY <1>9, <1>22, <2>1, <2>2
<1>25. ASSUME NEW k \in 0..m, k < m, k \in T PROVE k + 1 \in T
  <2>1. /\ k + 1 \in 1..m /\ (k + 1) - 1 = k /\ k + 1 \in 0..m
        /\ n + (k + 1) \in 1..l /\ (n + (k + 1)) - 1 = n + k /\ n + k \in 0..l
    BY <1>6, <1>25
  <2>2. PICK draw : draw = h[k]
    OBVIOUS
  <2>3. PICK before : before = after[n + k]
    OBVIOUS
  <2>4. PICK x : x = objects[k + 1]
    OBVIOUS
  <2>5. PICK row : row = FileRow(x)
    OBVIOUS
  <2>6. x \in capture /\ last[n + (k + 1)] = row /\ RowPlayable(row)
    BY <1>13, <2>1, <2>4, <2>5
  <2>7. PICK moved : moved = h[k + 1]
    OBVIOUS
  <2>8. PICK next : next = after[n + (k + 1)]
    OBVIOUS
  <2>9. moved = RateObject(draw, x)
    BY <1>22, <2>1, <2>2, <2>4, <2>7
  <2>10. next = RateRow(before, row)
    BY <1>8, <2>1, <2>3, <2>6, <2>8
  <2>11. FileTable(before)
    BY <1>18, <2>1, <2>3
  <2>12. RowMoves(before, next, row)
    BY <2>6, <2>10, <2>11, RowIsRated
  <2>13. /\ DrawTable(draw, table)
         /\ \A id \in EventEntrants : draw[EntrantKey(table, id)] = StateIn(before, id)
    BY <1>25, <2>2, <2>3
  <2>14. PICK w \in EventEntrants, v \in EventEntrants :
           /\ w = row.winner /\ v = row.loser /\ w # v
           /\ w = EventPairs[x.match][x.ending.winner]
           /\ v = EventPairs[x.match][3 - x.ending.winner]
    BY <2>5, <2>6, ObjectFacts
  <2>15. row.date = EventDate /\ row.surface = EventSurface
    BY <2>5, <2>6, ObjectFacts
  <2>16. ObjectMoves(draw, moved, table, w, v)
    BY <2>9, <2>13, <2>14, ObjectIsRated
  <2>17. PICK points : points = Pointed(before, w, v, EventSurface)
    OBVIOUS
  <2>18. /\ draw[EntrantKey(table, w)] = StateIn(before, w)
         /\ draw[EntrantKey(table, v)] = StateIn(before, v)
    BY <2>13, <2>14
  <2>19. /\ moved[EntrantKey(table, w)]
              = Moved(StateIn(before, w), EventSurface, points, EventDate)
         /\ moved[EntrantKey(table, v)]
              = Moved(StateIn(before, v), EventSurface, -points, EventDate)
         /\ DrawTable(moved, table)
         /\ \A j \in EventEntrants : j # w /\ j # v =>
              moved[EntrantKey(table, j)] = draw[EntrantKey(table, j)]
    BY <2>16, <2>17, <2>18 DEF ObjectMoves, Pointed
  <2>20. /\ StateIn(next, w) = Moved(StateIn(before, w), EventSurface, points, EventDate)
         /\ StateIn(next, v) = Moved(StateIn(before, v), EventSurface, -points, EventDate)
         /\ \A j \in DOMAIN Names : j # w /\ j # v => StateIn(next, j) = StateIn(before, j)
    BY <2>12, <2>14, <2>15, <2>17 DEF RowMoves
  <2>21. ASSUME NEW id \in EventEntrants
         PROVE  moved[EntrantKey(table, id)] = StateIn(next, id)
    <3>1. CASE id = w
      BY <2>19, <2>20, <3>1
    <3>2. CASE id = v
      BY <2>19, <2>20, <3>2
    <3>3. CASE id # w /\ id # v
      <4>1. id \in DOMAIN Names
        BY EntrantsNamed
      <4> QED
        BY <2>13, <2>19, <2>20, <3>3, <4>1
    <3> QED
      BY <3>1, <3>2, <3>3
  <2> QED
    BY <2>1, <2>7, <2>8, <2>19, <2>21
<1> HIDE DEF T
<1>26. 0..m \subseteq T
  BY <1>24, <1>25, InductionTo
<1>27. Alike(m)
  <2>1. m \in 0..m
    OBVIOUS
  <2> QED
    BY <1>26, <2>1 DEF T
<1>28. PICK draw : draw = h[m]
  OBVIOUS
<1>29. PICK rebuilt : rebuilt = WithEntrants(after[l])
  OBVIOUS
<1>30. PICK other : other = after[l]
  OBVIOUS
<1>31. /\ DrawTable(draw, table)
       /\ \A id \in EventEntrants : draw[EntrantKey(table, id)] = StateIn(other, id)
  BY <1>6, <1>27, <1>28, <1>30
<1>32. /\ DrawTable(rebuilt, other)
       /\ \A id \in EventEntrants : rebuilt[EntrantKey(other, id)] = StateIn(other, id)
  BY <1>20, <1>29, <1>30, EntrantsAdded, EntrantsFinite
<1>33. \A id \in EventEntrants : draw[EntrantKey(table, id)] = rebuilt[EntrantKey(other, id)]
  BY <1>31, <1>32
<1>34. ASSUME NEW a \in EntrantNames, NEW b \in EntrantNames
       PROVE  PredictElo(Imported(draw), a, b, EventSurface)
                = PredictElo(Imported(rebuilt), a, b, EventSurface)
  BY <1>31, <1>32, <1>33, SamePredictions
<1>35. DrawTable(base, table)
  BY <1>11, <1>20, EntrantsAdded, EntrantsFinite
<1>36. Won(base) = 0 /\ Won(draw) = 0
  <2>1. ASSUME NEW t, DrawTable(t, table) PROVE Won(t) = 0
    <3>1. PICK D : D = DOMAIN t
      OBVIOUS
    <3>2. PICK g : g = Gains(t)
      OBVIOUS
    <3>3. IsFiniteSet(D) /\ SumOf(g, D) = 0
      BY <2>1, <3>1, <3>2 DEF DrawTable
    <3>4. Won(t) = SumOf(g, D)
      BY <3>1, <3>2, <3>3, WonIsSum
    <3> QED
      BY <3>3, <3>4
  <2> QED
    BY <1>31, <1>35, <2>1
<1> QED
  BY <1>12, <1>23, <1>28, <1>29, <1>34, <1>36 DEF Rebuilds

EloInv ==
  /\ rows \in Histories
  /\ results \in [EventGames -> EventEndings \cup {Unplayed}]
  /\ baseline = Unplayed => advances = {}
  /\ baseline # Unplayed => baseline = BuildRatings(rows, CutoffDate)
  /\ \A update \in advances :
       IsCapture(update.capture) /\ update.table = Advance(baseline, update.capture)

LEMMA EloStarts == EloInit => EloInv
BY DEF EloInit, EloInv

LEMMA EloKeeps == EloInv /\ [EloNext]_eloVars => EloInv'
<1> SUFFICES ASSUME EloInv, [EloNext]_eloVars PROVE EloInv'
  OBVIOUS
<1>1. CASE BuildSnapshot
  BY <1>1 DEF EloInv, BuildSnapshot
<1>2. ASSUME NEW g \in EventGames, EndEventMatch(g) PROVE EloInv'
  BY <1>2 DEF EloInv, EndEventMatch
<1>3. ASSUME NEW damaged, AdvanceEvent(damaged) PROVE EloInv'
  <2>1. PICK capture : capture = EventCapture(damaged)
    OBVIOUS
  <2>2. IsCapture(capture)
    BY <2>1 DEF EloInv, EventCapture, MatchObject, IsCapture
  <2>3. PICK update : update = [capture |-> capture, table |-> Advance(baseline, capture)]
    OBVIOUS
  <2>4. /\ advances' = advances \cup {update} /\ baseline # Unplayed
        /\ UNCHANGED <<rows, results, baseline>>
    BY <1>3, <2>1, <2>3 DEF AdvanceEvent
  <2>5. ASSUME NEW u \in advances'
        PROVE  IsCapture(u.capture) /\ u.table = Advance(baseline, u.capture)
    BY <2>2, <2>3, <2>4, <2>5 DEF EloInv
  <2> QED
    BY <2>4, <2>5 DEF EloInv
<1>4. CASE UNCHANGED eloVars
  BY <1>4 DEF EloInv, eloVars
<1> QED
  BY <1>1, <1>2, <1>3, <1>4 DEF EloNext

\* The frozen baseline taken through the rounds of a capture predicts every match
\* of the event as a build would that had those results in its files, for any
\* files, any draw and any capture: update_usopen_r64_elo.py and
\* build_current_elo_snapshot.py rate alike. In every table what one player
\* has won another has lost.
THEOREM AdvancesAreRebuilds == EloSpec => []AdvanceIsRebuild
<1>1. EloInv => AdvanceIsRebuild
  <2> SUFFICES ASSUME EloInv, NEW update \in advances
               PROVE  LET rebuilt == Rebuilt(update.capture)
                      IN  /\ \A a, b \in EntrantNames : a # b =>
                               PredictElo(Imported(update.table), a, b, EventSurface) =
                                 PredictElo(Imported(rebuilt), a, b, EventSurface)
                          /\ \A table \in {baseline, update.table} : Won(table) = 0
    BY DEF AdvanceIsRebuild, Won
  <2>1. /\ rows \in Histories /\ IsCapture(update.capture)
        /\ baseline = BuildRatings(rows, CutoffDate)
        /\ update.table = Advance(baseline, update.capture)
    BY DEF EloInv
  <2>2. Rebuilds(baseline, Advance(baseline, update.capture), Rebuilt(update.capture))
    BY <2>1, AdvanceRebuilds
  <2> QED
    BY <2>1, <2>2 DEF Rebuilds
<1> QED
  BY EloStarts, EloKeeps, <1>1, PTL DEF EloSpec
=============================================================================
