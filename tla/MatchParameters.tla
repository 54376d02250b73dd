--------------------------- MODULE MatchParameters --------------------------
(***************************************************************************)
(* The parameters of one match, estimated from a model snapshot: what the  *)
(* snapshot and the context must agree on before anything is drawn.        *)
(*                                                                         *)
(* Times are numbers.  An artifact with cutoff t rests on what was known   *)
(* before t.  A snapshot is a record of the cutoffs of its artifacts, with *)
(* Absent for those its framework does without.                            *)
(***************************************************************************)
EXTENDS Naturals, FiniteSets

Absent == 0
WithStrength(framework) == framework # "v1.0"
WithRally(framework) == framework \in {"v1.2", "v1.3"}
Complete(snapshot) == snapshot.retirement # Absent
WithDuration(snapshot) == snapshot.duration # Absent
Players == {"a", "b"}

\* The C6 records of a complete snapshot: one of each player, of the tour,
\* the cutoff and the local date of the match; without B6 and C6 none.
InactivityMatches(snapshot, context, records) ==
  IF Complete(snapshot)
  THEN /\ context.localDate # Absent
       /\ Cardinality(records) = 2
       /\ {r.player : r \in records} = Players
       /\ \A r \in records : /\ r.tour = context.tour
                             /\ r.cutoff = context.cutoff
                             /\ r.date = context.localDate
  ELSE records = {}

\* _build_retirement_parameters: a player without a mixture of his own has
\* the central one.  player_retirement_posterior: a player without history
\* has the prior of the tour where the sources are complete, and production
\* asks for coverage in any case.
CentralMixture(player, context) ==
  [player |-> player, cutoff |-> context.cutoff, pinned |-> TRUE]
Mixtures(mixtures, context) ==
  mixtures \cup {CentralMixture(p, context) :
                 p \in Players \ {m.player : m \in mixtures}}
RetirementMatches(snapshot, context, mixtures, production) ==
  IF Complete(snapshot)
  THEN /\ snapshot.retirement <= context.cutoff
       /\ production => snapshot.covered
       /\ \A m \in mixtures : m.player \in Players
       /\ Cardinality({m.player : m \in mixtures}) = Cardinality(mixtures)
       /\ \A m \in Mixtures(mixtures, context) : m.cutoff = context.cutoff
       /\ \A p \in Players : p \in snapshot.history \/ snapshot.completeSources
  ELSE mixtures = {}

\* The strength anchor, its integration and the fitness of the day, which
\* may only lower an Elo
StrengthMatches(snapshot, context) ==
  WithStrength(snapshot.framework) =>
    /\ snapshot.anchor <= context.cutoff
    /\ snapshot.integration <= context.cutoff
    /\ snapshot.framework # "v1.1-candidate" => context.fitness

\* The guards of estimate_match, in its order, and the validator of the
\* distribution it returns.
\* Fault: the cutoff of the snapshot is not compared.
EstimateUnchecked(snapshot, context, records, mixtures, production) ==
  /\ InactivityMatches(snapshot, context, records)
  /\ RetirementMatches(snapshot, context, mixtures, production)
  /\ StrengthMatches(snapshot, context)
EstimateAccepted(snapshot, context, records, mixtures, production) ==
  /\ snapshot.tour = context.tour
  /\ snapshot.data <= context.cutoff
  /\ InactivityMatches(snapshot, context, records)
  /\ RetirementMatches(snapshot, context, mixtures, production)
  /\ WithDuration(snapshot) => /\ snapshot.duration <= context.cutoff
                               /\ snapshot.duration = snapshot.data
  /\ StrengthMatches(snapshot, context)

\* The wrapper of v1.2: the newest rally artifact of the chain from the
\* active one back that ends before the cutoff, and none where even the
\* static fit, the first, does not.
RallyUsed(snapshot, context, chain) ==
  LET safe == {i \in DOMAIN chain : chain[i] < context.cutoff}
  IN  IF ~ WithRally(snapshot.framework) \/ safe = {} THEN Absent
      ELSE CHOOSE i \in safe : \A j \in safe : j <= i

\* to_record: nothing of it says which rally artifact was used.
ParameterRecord(snapshot, context, records, mixtures, production) ==
  [snapshot |-> snapshot, context |-> context,
   inactivity |-> records, production |-> production,
   mixtures |-> IF Complete(snapshot) THEN Mixtures(mixtures, context) ELSE {},
   schema |-> IF WithStrength(snapshot.framework) THEN "v4"
              ELSE IF WithDuration(snapshot) THEN "v3"
              ELSE IF Complete(snapshot) THEN "v2" ELSE "v1"]
RestoreAccepted(record) ==
  /\ EstimateAccepted(record.snapshot, record.context, record.inactivity,
                      record.mixtures, record.production)
  /\ record = ParameterRecord(record.snapshot, record.context,
       record.inactivity, record.mixtures, record.production)
=============================================================================
