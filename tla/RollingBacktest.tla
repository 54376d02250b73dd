-------------------------- MODULE RollingBacktest --------------------------
(***************************************************************************)
(* run_rolling_backtest of calibration/backtest.py: concurrent runs that   *)
(* lock, reveal, settle and record one target after the other, over one    *)
(* lock store and one ledger, with operators that correct rows and readers *)
(* that verify and summarise the ledger.  The publication of a lock is one *)
(* step here: LockStore shows that it is.                                  *)
(***************************************************************************)
EXTENDS CalibrationLedger, FiniteSets

CONSTANTS Runs, Editors, Readers,
          RunIdOf,        \* backtest_run_id of each run
          SetupChoices,   \* the cohort of each run, who else calls the ledger,
                          \* and may file and database operations fail?
          Props,          \* the props of every target, a sequence
          CutoffOf,       \* forecast cutoff of each match
          Snapshots,      \* the catalog: records of cutoff and fitted
          Versions        \* contents a corrected row may have

ASSUME BacktestAssumption ==
  /\ Clients = Runs \cup Editors \cup Readers
  /\ Runs \cap (Editors \cup Readers) = {}
  /\ None \notin Runs
  /\ Props \in Seq(Range(Props)) /\ Props # <<>>
  /\ \A s \in SetupChoices : s.editors \subseteq Editors /\ s.readers \subseteq Readers
  /\ \A s \in SetupChoices, r \in Runs : s.targets[r] \in Seq(DOMAIN CutoffOf)

VARIABLES setup,      \* which of SetupChoices it is
          pc,         \* where each run is
          at,         \* the number of its target, and of the prop to record
          locks,      \* the run whose lock of each match is in the store, or None
          basis,      \* the snapshot that lock was forecast from
          revealed,   \* <<run, match>> for every outcome revealed
          locked,     \* lock_hashes of each run, as matches
          written,    \* current_run_rows of each run
          excluded,   \* exclusions of each run: <<match, reason>>
          manifests   \* the published manifest of each run id

runVars == <<setup, pc, at, locks, basis, revealed, locked, written, excluded, manifests>>
vars == <<runVars, ledgerVars>>

Targets(r) == setup.targets[r]
RunIds == {RunIdOf[r] : r \in Runs}
Matches == DOMAIN CutoffOf
Match(r) == Targets(r)[at[r].target]
SettledRow(r, m, prop) ==
  [match |-> m, prop |-> prop, run |-> RunIdOf[r], version |-> "settled",
   corrects |-> <<>>]

\* SnapshotCatalog.select: the newest one whose data end by the cutoff.
Selected(m) ==
  LET eligible == {s \in Snapshots : s.cutoff <= CutoffOf[m]}
  IN  IF eligible = {} THEN None
      ELSE CHOOSE s \in eligible : \A t \in eligible : t.cutoff <= s.cutoff

Init ==
  /\ LedgerInit
  /\ setup \in SetupChoices
  /\ pc = [r \in Runs |-> "target"]
  /\ at = [r \in Runs |-> [target |-> 1, prop |-> 1]]
  /\ locks = [m \in Matches |-> None]
  /\ basis = [m \in Matches |-> None]
  /\ revealed = {}
  /\ locked = [r \in Runs |-> <<>>]
  /\ written = [r \in Runs |-> <<>>]
  /\ excluded = [r \in Runs |-> {}]
  /\ manifests = [i \in RunIds |-> None]

Goto(r, step) == pc' = [pc EXCEPT ![r] = step]
NextTarget(r) ==
  /\ at' = [at EXCEPT ![r] = [target |-> @.target + 1, prop |-> 1]]
  /\ Goto(r, "target")
Exclude(r, reason) ==
  /\ excluded' = [excluded EXCEPT ![r] = @ \cup {<<Match(r), reason>>}]
  /\ NextTarget(r)
Abort(r) ==
  /\ Goto(r, "aborted")
  /\ UNCHANGED <<setup, at, locks, basis, revealed, locked, written, excluded, manifests>>

-----------------------------------------------------------------------------
AtTarget(r) == pc[r] = "target" /\ at[r].target <= Len(Targets(r))

\* No snapshot, or LockCreationError from any guard of the lock service.
SkipTarget(r, reason) ==
  /\ AtTarget(r)
  /\ reason = "no snapshot" <=> Selected(Match(r)) = None
  /\ Exclude(r, reason)
  /\ UNCHANGED <<setup, locks, basis, revealed, locked, written, manifests, ledgerVars>>

\* Fault: the lock that is there already is taken for the run's own.
LockOrReuse(r) ==
  /\ AtTarget(r) /\ Selected(Match(r)) # None
  /\ locks' = [locks EXCEPT ![Match(r)] = IF @ = None THEN r ELSE @]
  /\ basis' = [basis EXCEPT ![Match(r)] = Selected(Match(r))]
  /\ locked' = [locked EXCEPT ![r] = Append(@, Match(r))]
  /\ Goto(r, "reveal")
  /\ UNCHANGED <<setup, at, revealed, written, excluded, manifests, ledgerVars>>

LockTarget(r) ==
  /\ AtTarget(r) /\ Selected(Match(r)) # None /\ locks[Match(r)] = None
  /\ locks' = [locks EXCEPT ![Match(r)] = r]
  /\ basis' = [basis EXCEPT ![Match(r)] = Selected(Match(r))]
  /\ locked' = [locked EXCEPT ![r] = Append(@, Match(r))]
  /\ Goto(r, "reveal")
  /\ UNCHANGED <<setup, at, revealed, written, excluded, manifests, ledgerVars>>

\* The errors of the lock store are not caught.
LockRefused(r) ==
  /\ AtTarget(r) /\ Selected(Match(r)) # None
  /\ locks[Match(r)] # None \/ setup.faults
  /\ Abort(r) /\ UNCHANGED ledgerVars

\* The revealed outcome settles the lock: its first row is appended.
RevealOutcome(r) ==
  /\ pc[r] = "reveal"
  /\ revealed' = revealed \cup {<<r, Match(r)>>}
  /\ Begin(r, "append", SettledRow(r, Match(r), Props[1]))
  /\ Goto(r, "rows")
  /\ UNCHANGED <<setup, at, locks, basis, locked, written, excluded, manifests>>

\* HistoricalOutcomeError: the outcome does not fit the lock.
OutcomeUnfit(r) ==
  /\ pc[r] = "reveal"
  /\ revealed' = revealed \cup {<<r, Match(r)>>}
  /\ Exclude(r, "reconciliation")
  /\ UNCHANGED <<setup, locks, basis, locked, written, manifests, ledgerVars>>

\* The provider has no outcome to show: its own error is not caught.
OutcomeMissing(r) ==
  /\ pc[r] = "reveal"
  /\ Abort(r) /\ UNCHANGED ledgerVars

NextRow(r) ==
  IF at[r].prop < Len(Props)
  THEN /\ at' = [at EXCEPT ![r].prop = @ + 1]
       /\ call' = [call EXCEPT ![r] =
            NewCall("append", SettledRow(r, Match(r), Props[at[r].prop + 1]))]
       /\ UNCHANGED pc
  ELSE NextTarget(r) /\ call' = [call EXCEPT ![r] = NoCall]

RecordRow(r) ==
  /\ pc[r] = "rows" /\ call[r].step = "returned"
  /\ written' = [written EXCEPT ![r] = Append(@, call[r].row)]
  /\ NextRow(r)
  /\ UNCHANGED <<setup, locks, basis, revealed, locked, excluded, manifests, schema, log>>

\* Fault: the run goes on to the next target and says nothing.
RowIgnored(r) ==
  /\ pc[r] = "rows" /\ call[r].step = "failed"
  /\ NextTarget(r)
  /\ call' = [call EXCEPT ![r] = NoCall]
  /\ UNCHANGED <<setup, locks, basis, revealed, locked, written, excluded, manifests>>
  /\ UNCHANGED <<schema, log>>

\* LedgerError leaves the rows that were appended, and is an exclusion.
RowRefused(r) ==
  /\ pc[r] = "rows" /\ call[r].step = "failed"
  /\ Exclude(r, "reconciliation")
  /\ call' = [call EXCEPT ![r] = NoCall]
  /\ UNCHANGED <<setup, locks, basis, revealed, locked, written, manifests, schema, log>>

VerifyChain(r) ==
  /\ pc[r] = "target" /\ at[r].target > Len(Targets(r))
  /\ Begin(r, "verify", None)
  /\ Goto(r, "chain")
  /\ UNCHANGED <<setup, at, locks, basis, revealed, locked, written, excluded, manifests>>

\* target.exists() of persist_backtest_run_manifest
LookForManifest(r) ==
  /\ pc[r] = "chain" /\ Ended(r)
  /\ IF call[r].step = "returned" /\ manifests[RunIdOf[r]] = None
     THEN Goto(r, "publish") ELSE Goto(r, "aborted")
  /\ UNCHANGED <<setup, at, locks, basis, revealed, locked, written, excluded, manifests>>
  /\ UNCHANGED ledgerVars

Manifest(r) == [by |-> r, locks |-> ToSet(locked[r]), rows |-> ToSet(written[r]),
                terminal |-> call[r].last, excluded |-> excluded[r]]

\* Fault: the rename replaces the manifest of another run.
ReplaceManifest(r) ==
  /\ pc[r] = "publish"
  /\ manifests' = [manifests EXCEPT ![RunIdOf[r]] = Manifest(r)] /\ Goto(r, "done")
  /\ UNCHANGED <<setup, at, locks, basis, revealed, locked, written, excluded, ledgerVars>>

\* The rename of the written directory fails if there is one by now.
PublishManifest(r) ==
  /\ pc[r] = "publish"
  /\ IF manifests[RunIdOf[r]] = None
     THEN /\ manifests' = [manifests EXCEPT ![RunIdOf[r]] = Manifest(r)]
          /\ Goto(r, "done")
     ELSE Goto(r, "aborted") /\ UNCHANGED manifests
  /\ UNCHANGED <<setup, at, locks, basis, revealed, locked, written, excluded, ledgerVars>>

KillRun(r) ==
  /\ pc[r] \notin {"done", "aborted", "killed"}
  /\ Goto(r, "killed")
  /\ call' = [call EXCEPT ![r] = NoCall]
  /\ UNCHANGED <<setup, at, locks, basis, revealed, locked, written, excluded, manifests>>
  /\ UNCHANGED <<schema, log>>

-----------------------------------------------------------------------------
\* append_correction: the caller names a row and gives the corrected one.
Correct(e) ==
  \E r \in Runs, prop \in ToSet(Props), v \in Versions :
  \E m \in ToSet(Targets(r)), p \in ToSet(Props) :
  \E original \in Ids(log) \cup {SettledRow(r, m, p)} :
    /\ Begin(e, "correct",
             [original EXCEPT !.prop = prop, !.version = v, !.corrects = <<original>>])
    /\ UNCHANGED runVars

\* summarize-ledger: verify_chain, then effective_rows.
Summarize(a) ==
  /\ UNCHANGED runVars
  /\ \/ Begin(a, "verify", None)
     \/ /\ call[a].op = "terminal" /\ call[a].step = "returned"
        /\ call' = [call EXCEPT ![a] = NewCall("effective", None)]
        /\ UNCHANGED <<schema, log>>

LedgerCall(c) ==
  /\ LedgerStep(c) \/ (setup.faults /\ SqliteError(c))
  /\ UNCHANGED runVars

Run(r) ==
  \/ \E reason \in {"no snapshot", "lock creation"} : SkipTarget(r, reason)
  \/ LockTarget(r) \/ LockRefused(r)
  \/ RevealOutcome(r) \/ OutcomeUnfit(r) \/ OutcomeMissing(r)
  \/ RecordRow(r) \/ RowRefused(r)
  \/ VerifyChain(r) \/ LookForManifest(r) \/ PublishManifest(r)
  \/ KillRun(r)

Next ==
  \/ \E r \in Runs : Run(r)
  \/ \E e \in setup.editors : Correct(e)
  \/ \E a \in setup.readers : Summarize(a)
  \/ \E c \in Clients : LedgerCall(c)

Spec == Init /\ [][Next]_vars

-----------------------------------------------------------------------------
RunSteps == {"target", "reveal", "rows", "chain", "publish", "done", "aborted", "killed"}
TypeOK ==
  /\ LedgerTypeOK
  /\ setup \in SetupChoices
  /\ pc \in [Runs -> RunSteps]
  /\ at \in [Runs -> [target : Nat, prop : 1..Len(Props)]]
  /\ locks \in [Matches -> Runs \cup {None}]
  /\ revealed \subseteq Runs \X Matches
  /\ \A r \in Runs : ToSet(locked[r]) \subseteq Matches
  /\ \A r \in Runs : ToSet(written[r]) \subseteq Ids(log)
  /\ DOMAIN manifests = RunIds

\* "Create each lock before the outcome provider is allowed to reveal its
\* result" (run_rolling_backtest): a run sees the outcome of a match only
\* after its own forecast of it is in the store, never on another's lock.
RevealedAfterLock ==
  \A r \in Runs, m \in Matches :
    <<r, m>> \in revealed => locks[m] = r

\* A published manifest binds what it names (BacktestRunManifest): its rows
\* are under its terminal digest, which is one the ledger had and extends;
\* they are all the rows recorded for its locks, whatever failed on the way;
\* and a lock with a row missing is among the exclusions.
ManifestBinds ==
  \A i \in RunIds : LET m == manifests[i] IN m # None =>
    /\ m.rows \subseteq ToSet(m.terminal) /\ IsPrefix(m.terminal, RowsOf(log))
    /\ m.rows = {x \in Ids(log) : x.corrects = <<>> /\ x.match \in m.locks}
    /\ \A l \in m.locks :
         \/ {SettledRow(m.by, l, p) : p \in ToSet(Props)} \subseteq m.rows
         \/ <<l, "reconciliation">> \in m.excluded

\* A manifest once published never changes (persist_backtest_run_manifest).
ManifestsFinal ==
  [][\A i \in RunIds : manifests[i] # None => manifests'[i] = manifests[i]]_vars

\* The ledger is an append-only log of distinct rows (class docstring: its
\* entries "cannot be updated or deleted through SQL").
Log == INSTANCE AppendOnly WITH items <- RowsOf(log)
LogSpec == Log!Spec

\* docs/Milestone_8_Implementation.md: the catalog selects a snapshot "whose
\* data and fit timestamps are both no later than the target cutoff".
SnapshotsPrecedeCutoffs ==
  \A m \in Matches : basis[m] # None => basis[m].fitted <= CutoffOf[m]
=============================================================================
