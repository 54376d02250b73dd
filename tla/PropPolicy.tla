----------------------------- MODULE PropPolicy -----------------------------
(***************************************************************************)
(* What becomes of one prop of a lock: whether the model supports it and   *)
(* can generate it, when an adaptive run may stop for it, when a fixed run *)
(* is run again, and which integer is submitted.                           *)
(*                                                                         *)
(* A prop is a record: its id, whether it is a compound, and its leaves,   *)
(* the atomic props it is made of from left to right (one for an atomic    *)
(* prop), each with its kind and whether its scope names the conversion or *)
(* the accounting convention of that kind.  An estimate counts the paths   *)
(* that settle it.  What the confidence sequence says of <<yes, settled>>  *)
(* is the constant Stable, and what the thresholds of a rerun say of it    *)
(* the constant Sensitive.                                                 *)
(***************************************************************************)
EXTENDS Naturals, Sequences, FiniteSets, SequencesExt

CONSTANTS Stable,     \* counts whose whole sequence rounds to one integer
          Sensitive,  \* counts that are extreme or near a rounding boundary
          Hundredth   \* model_probability_integer, per <<yes, settled>>

RallyKinds == {"WINNERS", "WINNER_COMPARE", "UNFORCED_ERRORS",
               "TOTAL_UNFORCED_ERRORS", "UE_COMPARE"}

\* assess_prop_support: a compound has the status of its first leaf that is
\* not supported.
LeafSupport(leaf, duration) ==
  CASE leaf.kind \in RallyKinds \cup {"FIRST_SERVE_WIN_PCT", "DURATION_MIN"}
         /\ ~ leaf.scoped -> "POLICY_DISABLED"
    [] leaf.kind = "DURATION_MIN" /\ leaf.scoped /\ ~ duration -> "NOT_IMPLEMENTED"
    [] OTHER -> "SUPPORTED"
Support(prop, duration) ==
  LET bad == {i \in DOMAIN prop.leaves :
                LeafSupport(prop.leaves[i], duration) # "SUPPORTED"}
  IN  IF bad = {} THEN "SUPPORTED"
      ELSE LeafSupport(prop.leaves[Min(bad)], duration)

\* prop_generation_available
Generated(prop, duration) ==
  \A leaf \in Range(prop.leaves) :
    /\ leaf.kind \in RallyKinds => leaf.scoped
    /\ leaf.kind = "DURATION_MIN" => duration

Has(prop, kinds) == \E leaf \in Range(prop.leaves) : leaf.kind \in kinds
ContainsDuration(prop) == Has(prop, {"DURATION_MIN"})

PathCounts(outcomes) ==
  LET Of(what) == Len(SelectSeq(outcomes, LAMBDA o : o = what))
  IN  [yes |-> Of("yes"), no |-> Of("no"), void |-> Of("void"),
       unresolved |-> Of("unresolved"), total |-> Len(outcomes)]
Settled(estimate) == estimate.yes + estimate.no

\* adaptive_prop_diagnostics
StoppingStatus(estimate, terminal) ==
  LET open(final) == IF terminal THEN final ELSE "CONTINUE"
  IN  IF Settled(estimate) = 0 THEN open("UNAVAILABLE")
      ELSE IF <<estimate.yes, Settled(estimate)>> \in Stable THEN "INTEGER_STABLE"
      ELSE open("INTEGER_BOUNDARY_SENSITIVE")

\* escalation_reasons: one prop is enough to run a fixed policy again.
Escalates(estimates, minimum) ==
  \E i \in DOMAIN estimates :
    LET e == estimates[i]
    IN  Settled(e) < minimum \/ <<e.yes, Settled(e)>> \in Sensitive

\* The decision a lock records for a generated prop after its run
\* (create_prediction_lock): first what settlement leaves open, then, in an
\* adaptive run, what no path settled.
Decision(support, estimate, stopping) ==
  IF support # "SUPPORTED" THEN support
  ELSE IF estimate.unresolved > 0 THEN "SETTLEMENT_BLOCKED"
  ELSE IF stopping = "UNAVAILABLE" THEN "DATA_UNAVAILABLE"
  ELSE "SUPPORTED"

\* PropEstimateRecord.from_estimate.  A fixed record holds the integer it
\* submits; an adaptive one that of the model and, where the platform has a
\* policy, what is submitted there, both clamped to 1..99.
NoInteger == 1000
Clamped(n) == IF n < 1 THEN 1 ELSE IF n > 99 THEN 99 ELSE n
EstimateRecord(prop, estimate, decision, stopping, platform) ==
  LET final == IF decision = "SUPPORTED" /\ stopping = "UNAVAILABLE"
               THEN "DATA_UNAVAILABLE" ELSE decision
      usable == /\ final = "SUPPORTED"
                /\ estimate.unresolved = 0 /\ Settled(estimate) > 0
      integer == IF Settled(estimate) = 0 THEN NoInteger
                 ELSE Hundredth[<<estimate.yes, Settled(estimate)>>]
      adaptive == stopping # "none"
  IN  [prop |-> prop, estimate |-> estimate, support |-> final,
       stopping |-> stopping,
       grade |-> IF ContainsDuration(prop) THEN "B" ELSE "A",
       model |-> IF adaptive THEN integer ELSE NoInteger,
       submitted |-> IF ~ adaptive /\ usable THEN Clamped(integer) ELSE NoInteger,
       platform |-> IF adaptive /\ usable /\ platform # "none"
                    THEN Clamped(integer) ELSE NoInteger]

\* Its validator: an adaptive record that no path settled must say that its
\* data is unavailable, whatever else is said of the prop, and one that some
\* path settled must have stopped.
RecordAccepted(record) ==
  record.stopping # "none" =>
    IF Settled(record.estimate) = 0
    THEN record.stopping = "UNAVAILABLE" /\ record.support = "DATA_UNAVAILABLE"
    ELSE record.stopping \in {"INTEGER_STABLE", "INTEGER_BOUNDARY_SENSITIVE"}
=============================================================================
