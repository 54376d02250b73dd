------------------------------ MODULE ServeFit ------------------------------
(***************************************************************************)
(* The fit of the serve components of one tour at one information cutoff:  *)
(* fit_all_serve_components_from_bundles reads processed bundles of count  *)
(* rows, each made from one source snapshot, selects for every component   *)
(* the rows it may use, and fits it; the five fits name the inputs they    *)
(* were made from.                                                         *)
(*                                                                         *)
(* Rows are processed over time, late and corrected ones too; instants are *)
(* days, and the numerical fit itself is left out.                         *)
(***************************************************************************)
EXTENDS ServeDesign, FiniteSetsExt

CONSTANTS Bundles,     \* of this tour, one for each source snapshot
          CountRows,   \* the rows a bundle may hold
          FitCutoffs,
          WindowDays,  \* FROZEN_WINDOW_DAYS
          MaxCountRows, MaxFits

\* Dates are days, and every row has them; it has its two players too, or no
\* service row would have been made of it.
ASSUME FitAssumption ==
  /\ WindowDays \in Nat /\ FitCutoffs \subseteq Nat /\ IsFiniteSet(Bundles)
  /\ \A r \in CountRows :
       /\ {"matchDate", "sourceDate", "bundle", "player", "opponent", "surface", "event",
           "indoor"} \subseteq DOMAIN r
       /\ r.matchDate \in Nat /\ r.sourceDate \in Nat
       /\ {r.player, r.opponent} \subseteq DOMAIN Rank \ {NotKnown}
       /\ {r.surface, r.event} \subseteq DOMAIN Rank \cup {NotKnown}

Components == {"F", "A", "Q1", "D", "Q2"}
Never == 0   \* a day that is not known

VARIABLES processed,  \* the rows of each bundle
          fits

fitVars == <<processed, fits>>

-----------------------------------------------------------------------------
\* _as_observation_datetime
ObservedOn(row) == IF row.matchDate # Never THEN row.matchDate ELSE row.sourceDate

\* What leaves a row out, and what refuses the whole fit.
KnownBefore(row, cutoff) == row.available # Never /\ row.available < cutoff
Considered(row, c, cutoff) ==
  row.status[c] = "valid" /\ KnownBefore(row, cutoff) /\ ObservedOn(row) # Never
UsableRow(row, c, cutoff) ==
  /\ Considered(row, c, cutoff)
  /\ cutoff <= ObservedOn(row) + WindowDays
  /\ row.surface # NotKnown
  /\ IndoorHard /\ row.surface = "Hard" => row.indoor # NotKnown
UsedRows(rows, c, cutoff) == {r \in rows : UsableRow(r, c, cutoff)}

CountedTwice(rows) ==
  \E x, y \in rows : x # y /\ x.match = y.match /\ x.player = y.player
PrepareRefused(rows, c, cutoff) ==
  \/ CountedTwice(rows)
  \/ \E r \in rows : Considered(r, c, cutoff) /\ ObservedOn(r) > cutoff
  \/ UsedRows(rows, c, cutoff) = {}

RowsOf(inputs) ==
  UNION {{[r EXCEPT !.bundle = b] : r \in processed[b]} : b \in inputs}
\* Fault: every input of a row is named, whether or not a row is left of it.
ProvenanceCovers(used, inputs) == {r.bundle : r \in used} \subseteq inputs
\* _validate_prepared_provenance: the digest of the set of inputs.
ProvenanceAgrees(used, inputs) == {r.bundle : r \in used} = inputs

FitRefused(rows, inputs, cutoff) ==
  \E c \in Components :
    \/ PrepareRefused(rows, c, cutoff)
    \/ ~ ProvenanceAgrees(UsedRows(rows, c, cutoff), inputs)
Fitted(rows, inputs, cutoff) ==
  [inputs |-> inputs, cutoff |-> cutoff, given |-> rows,
   used |-> [c \in Components |-> UsedRows(rows, c, cutoff)],
   design |-> [c \in Components |-> Design(UsedRows(rows, c, cutoff), c)]]

-----------------------------------------------------------------------------
FitInit == processed = [b \in Bundles |-> {}] /\ fits = {}

Process(b, row) ==
  /\ row \notin processed[b]
  /\ SumSet({Cardinality(processed[a]) : a \in Bundles}) < MaxCountRows
  /\ processed' = [processed EXCEPT ![b] = @ \cup {row}]
  /\ UNCHANGED fits

FitAll(inputs, cutoff) ==
  /\ Cardinality(fits) < MaxFits
  /\ ~ FitRefused(RowsOf(inputs), inputs, cutoff)
  /\ fits' = fits \cup {Fitted(RowsOf(inputs), inputs, cutoff)}
  /\ UNCHANGED processed

FitNext ==
  \/ \E b \in Bundles, row \in CountRows : Process(b, row)
  \/ \E inputs \in SUBSET Bundles \ {{}}, cutoff \in FitCutoffs : FitAll(inputs, cutoff)

FitSpec == FitInit /\ [][FitNext]_fitVars

-----------------------------------------------------------------------------
\* A fit is a matter of what was known before its cutoff: leaving out every
\* row that became known later changes nothing of it, a match is counted once
\* for a player, and every component's fit has a row of every input the
\* bundle of fits says it was made from.
FitsKeepToCutoff ==
  \A f \in fits :
    LET before == {r \in f.given : KnownBefore(r, f.cutoff)}
    IN  /\ f.used = Fitted(before, f.inputs, f.cutoff).used
        /\ \A c \in Components :
             /\ {r.bundle : r \in f.used[c]} = f.inputs
             /\ \A x, y \in f.used[c] :
                  x.match = y.match /\ x.player = y.player => x = y
             /\ \A r \in f.used[c] : ObservedOn(r) \in (f.cutoff - WindowDays)..f.cutoff

\* A fit passes the validator it is read through.  It predicts every match it
\* was trained on, and as what it was trained on, with no effect left to draw;
\* the effects of the levels of a block add up to nothing, the reference among
\* them; and of the effects a match needs each is estimated or drawn.
PredictionFollowsDesign ==
  \A f \in fits : \A c \in Components :
    LET d == f.design[c]
    IN  /\ Coherent(d)
        /\ \A r \in f.used[c] : /\ ~ PredictionRefused(r)
                               /\ MatchTerms(d, r) = RowTerms(d, r) /\ UnseenEffects(d, r) = {}
        /\ \A b \in Range(d.blocks) : \A i \in Range(b.free) :
             MapThenSumSet(LAMBDA level : LevelEffect(b, level)[i], Range(b.levels)) = 0
        /\ \A match \in {r \in CountRows : r.surface # NotKnown /\ ~ PredictionRefused(r)} :
             \A effect \in EffectsOf(d, match) :
               Estimated(d, effect, match) <=>
                 \A drawn \in UnseenEffects(d, match) : drawn[1] # effect
=============================================================================
