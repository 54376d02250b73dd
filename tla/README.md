# Tennis model: a verification project

The repository is a Monte Carlo forecaster of tennis matches written in Python. It ingests past
matches, fits serve, retirement, duration and strength models to what was known at an information
cutoff, simulates every point of a future match, prices propositions on the simulated paths,
publishes the forecast as an immutable *lock* before the match, and scores it in a hash-chained
ledger after it. Much of its code is numerics. What a forecast is worth rests on the rest: the
rules of scoring, the settlement of propositions, which data may enter which fit, where every
random draw comes from, and the protocols that keep files, chunks, snapshots and ledger rows whole
when processes race, stop or repeat. That rest is what these modules model, TLC checks and TLAPS
proves about.

Paths below are relative to `src/src/tennis_model/`, except `scripts/`, `docs/` and `tests/`,
which are under `src/`.

## 1. Inventory

| Component | Code | State | Operations | Hard behaviours | Correct when | Modelled |
|---|---|---|---|---|---|---|
| Match scoring | `simulation/scoring.py` | one immutable `MatchState`: points, games, tiebreak, sets, server, counters | `award_point`, the constructors' checks | long legal sequences; service order over tiebreaks and sets; deuce arithmetic | no reachable state fails a constructor; service alternates; the match ends at the clinching set | yes |
| Match path simulation | `simulation/match.py` | score, statistics of both players, break events, retirement | `_simulate_one_path`, tiebreak acceleration, `MatchPath` checks | statistics read before or after the score is updated; skipped points; retirement at a boundary | every path passes its own checks, and its statistics cover its score | partly |
| Proposition settlement | `simulation/match.py`, `props/settlement.py`, `calibration/outcomes.py` | none (a function of a path or of an official record) | `_atomic_truth`, `_settlement_state_for_path`, settlement of a lock | settling early on a retirement; three-valued composites; statistics that a record may lack | an early settlement is what every continuation gives; the record settles as the path | partly |
| Match parameters | `simulation/parameters.py` | a matchup's components, the streams of a seed | `estimate_match`, `restore_match_parameter_distribution`, `sample_match_performance`, `derive_match_seed_plan` | two sources for one effect; streams shared by stages or paths; inputs of two cutoffs | every effect enters once; nothing is drawn twice | partly |
| Parallel simulation | `simulation/parallel.py`, `parallel_worker.py` | checkpoint files, worker processes | chunk, reuse, launch, poll, merge | killed calls, orphan workers, two calls on a directory, failing workers | the paths are those of one process; every call ends | yes |
| Lock service | `locking/service.py`, `models.py` | a request on its way, locks and their revisions | `create_prediction_lock`, `reproduce_prediction_lock` | dozens of guards in an order, adaptive stopping, replay after later activations | a lock rests on what came before its cutoff, and reproduces | partly |
| Path counts, support, rounding | `locking/path_counts.py`, `props/policy.py`, `props/rounding.py` | the checkpoints of one run | stop, escalate, round | boundaries of integers, repeated looks | the stopped run is the recorded one | partly |
| Lock store | `locking/store.py` | a directory per revision, its reservation | `write`, `quarantine_stale_publication`, `load` | concurrent writers, crashes between any two file operations, operators | a revision is whole and written once; leftovers stay in sight | yes |
| Calibration ledger | `calibration/ledger.py` | a SQLite log of hash-chained rows | `append`, `append_correction`, `verify_chain`, `effective_rows` | processes that append at once, errors inside a transaction, corrections of corrections | append-only, always verifies, one effective row per lineage | yes |
| Rolling backtest | `calibration/backtest.py`, revealers of `cli.py` | locks, rows and manifest of a run | lock, reveal, record, publish | repeated and racing runs, partial rows, kills | results are seen only behind the own lock; a manifest binds its rows | partly |
| Nested backtest | `calibration/v1_1_backtest.py`, shard scripts | part and cache files by month, outer parts, selections | forecast months, collect, fit folds, publish shards | files a dead run left, folds by file and forecasts by month | a finished run is what one run from nothing gives; folds are apart | partly |
| Rally posterior | `estimation/rally_posterior.py`, `rally_termination.py`, `scripts/update_rally_posterior.py` | a chain of artifacts, the active pointer | apply a match, activate, walk back | a stopped update, matches out of order | the active chain loads; a forecast uses the newest posterior from before its cutoff | partly |
| Retirement, inactivity | `estimation/retirement.py`, `inactivity.py` | reports, corrections, fits and records | normalise, fit, reissue, build a record | late corrections, disputed terminations, the edge of a cutoff | a fit is what would be rebuilt today for its cutoff; the two histories agree | partly |
| Serve components | `estimation/serve_components.py`, `weighted_glmm.py` | processed count rows, fits | select rows, lay out the design, validate, predict | inputs left without a usable row; reference levels; unseen effects | a fit keeps to its cutoff; a prediction is what was fitted | partly |
| Historical data | `data/ingest_sackmann.py`, `exact_date_crosswalk.py`, `validate.py`, `historical_validation.py`, `component_counts.py` | source tables, crosswalks, datasets | snapshot, join, ingest, validate | repetitions and corrections, two players of one name, dates that are days | no match from at or after the cutoff; no impossible score is kept, and no possible one lost but the ambiguous (section 4) | yes |
| Current event | `scripts/build_current_usopen_snapshot.py`, `data/current_usopen.py` | a capture of the feeds, the outputs of a build | capture, build, report | feeds read at different instants while matches end | a report tells what had happened | yes |
| Fitted artifacts, snapshots | `estimation/snapshot.py`, `artifacts.py`, `scripts/build_*`, `activate_*` | content-addressed artifacts, snapshot directories of two tours | publish, create, load, upgrade, activate | commands that stop between two tours, artifacts that are gone | a snapshot names one model; a reported directory holds what it says | partly |
| Surface Elo | `estimation/elo.py`, `scripts/build_current_elo_snapshot.py`, `update_usopen_r64_elo.py` | the table of ratings | build, advance, predict | order of rounds, ids of two files | advancing is rebuilding | yes |
| Duration, strength | `estimation/duration_model.py`, `strength*.py`, `fitness.py` | artifacts | fits | floating point | - | only as artifacts |
| Probabilities, diagnostics, market, CLI | the rest | none, or reports | - | floating point, one pure selection, glue | - | no |

How they meet. Ingestion turns source tables into datasets before a cutoff; estimation fits them
and keeps the fits as artifacts; a snapshot of a tour names one fit of each kind.
`create_prediction_lock` estimates the parameters of a match from a snapshot (walking back the
rally chain to its cutoff), simulates its paths (in one process or through the parallel layer,
each path with its streams of the seed tree, each point by the scoring engine), settles and counts
the propositions, and writes the lock to the store. The rolling backtest calls it for each
historical target, then reveals the outcome, settles the lock by the official record, writes a row
per proposition to the ledger and publishes a manifest. The meeting points are files: bundles,
artifacts, checkpoints, lock directories, the pointer of the rally chain, the ledger database.

## 2. The modules

| Module | Models | Kind |
|---|---|---|
| `TennisScoring`; `SetsRace` | the scoring engine; a race to the sets that win | specification; its abstract specification |
| `MatchSimulation` | the loop over points, `EXTENDS TennisScoring` | specification |
| `Settlement`, `OfficialOutcomes` | propositions on a path; on an official record | operators over states of `MatchSimulation` |
| `SeedTree`, `MatchSampling` | the streams of a path; the draws before its first point | operators; specification |
| `ParallelSimulation` | calls, workers and checkpoints | specification |
| `LockStore`; `WriteOnce` | publication and quarantine of one revision; a register set once | specification; its abstract specification |
| `MatchParameters`, `PropPolicy` | what a match's inputs must agree on; support, stopping, rerun, decision | operators |
| `LockService` | requests, runs, records, replays, `EXTENDS` the two above | composition |
| `CalibrationLedger`; `AppendOnly` | ledger calls of any number of clients; a log of distinct rows | component; its abstract specification |
| `RollingBacktest` | runs, operators and readers over one store and one ledger, `EXTENDS CalibrationLedger` | composition |
| `WalkForward` | the nested backtest and its files | specification |
| `RallyPosterior` | update runs, chain and pointer | specification |
| `ParticipationHistory` | reports, retirement fits, inactivity records | specification |
| `HistoricalScore`, `ServeCounts` | the validation of a score, and of a service line | specifications |
| `DateCrosswalk`, `HistoryIngestion` | exact dates; both ingestion policies | operators; specification |
| `ServeDesign`, `ServeFit` | the parameters of a fit; which rows it uses | operators; specification |
| `CurrentEvent`, `ModelSnapshots`, `EloRatings` | the three programs around a running event | specifications |
| `MC*` | constants, setups and bounds for TLC | model checking |
| `*Proofs`: `Match`, `Parallel`, `Backtest`, `Artifact`, `Sampling`, `Cutoff`, `Data` | theorems | proofs |
| `FiniteNumbers` | maxima and sums over finite sets | lemmas of the proofs |

A definition whose comment starts with *Fault:* is a wrong variant of the one that follows it. No
specification uses it; substituting it shows that the property it is meant to break is sensitive
to that line of the code.

**`TennisScoring`.** The variables are the fields of `MatchState`; `AwardPoint(w)` is
`award_point` with everything it calls: the point of a game or tiebreak, the end of a game, the
start of a tiebreak, the end of a set, the next server, and the break-point and hold counters. The
constants are the sets of the match, the games of a set, the points of a game and the targets of the
tiebreaks; `RulesAssumption` says what they may be, and the code's values are one instance.

**`MatchSimulation`.** `PlayPoint` is one turn of the loop of `_simulate_one_path`: draw a result
(its branch and who wins), credit the serve counters, score the point, record a break, draw the
retirement at a game boundary. `Accelerate` is the shortcut for long tiebreaks: from a level score
it skips `cycles` pairs, with the counters of the skipped serves drawn in aggregate, and awards the
last two points. `PathAccepted` is what `MatchPath` and `PlayerMatchStats` check: a path that fails
it is a forecast that raises. Probabilities are gone; a result with probability zero is not in
`PossibleResults`.

**`Settlement` and `OfficialOutcomes`.** `Holds`, `Measure`, `ScopeCompleted`, `Reached`,
`SettleAtom` and `Settle` follow the dispatch of `match.py` for twenty-six proposition kinds. They
are evaluated in *every* state of the simulation, as the settlement of the path that a retirement
would cut there, which is what lets an action property compare an early settlement with all its
continuations. `PropsAssumption` is what `PropSpec` requires of a proposition. A record is what `calibration/outcomes.py` accepts: the completed sets, the winner
or the one who retired, and the statistics or none; the path evaluator is applied to it.

**`SeedTree` and `MatchSampling`.** A stream is a spawn key: path, stage, and a half where a stage
splits. A draw is kept as its source: `theta`, the adjusted Gaussian that replaces it for players
who were away, or a fresh draw for an effect the fit has not seen. One action per stage.

**`ParallelSimulation`.** A call globs the directory, looks for each chunk in a checkpoint of its
own or inside a larger one, deals the rest to workers, polls them, collects and merges; a worker
checks and publishes range after range and may fail. Calls may be interrupted (which terminates
workers, but on POSIX not the process below them: `TreeKill = FALSE`) or killed, and begin again. A
batch is a record of the paths it holds; `Simulated` gives a path the value its seed determines
and, under `Rally`, its rally counts the range they were drawn in.

**`LockStore`.** One action per operation on shared files, so any two calls may interleave there:
target check, `O_EXCL` reservation, `mkdtemp`, payload, manifest, verification, rename, unlink,
load. `Crash`, `Fault` (any `OSError`) and `Tamper` (the retained artifacts change) may strike
between them; operators list stale publications and move them one by one. Different revisions
share no file, so one is the store.

**`LockService`.** A request goes through `Check` (its guards in the code's order), `Estimate`,
`SimulateFixed` or one `SimulateCheckpoint` per checkpoint of an adaptive policy, and `Build`, which
validates and stores the lock; `Replay` runs any lock again, after any later `ActivateRally`. A path is
its number, with the outcome of each prop in its `world`; rally counts also depend on where the
batch began. `PropPolicy` has the support table, the stopping rule (with the confidence sequence as
the constant `Stable`), the rerun rule (`Sensitive`) and the integer that is submitted.

**`CalibrationLedger` and `RollingBacktest`.** A ledger call is the open, the schema check and
stamp, and then one SQLite transaction, each an action; readers and `verify_chain` make two
connections where the code does. A hash is the sequence of rows it covers, so hashes are equal
exactly when the rows are. A run walks its targets: select a snapshot, lock (or find the match
locked), reveal, record each proposition (idempotently, as the code ignores a row it has), verify,
look for a manifest and publish. Both run with database errors and kills at any point.

**`WalkForward`.** A forecast is kept as the matches whose outcomes had a part in it. A run goes
month by month over part and cache files, collects them, and fits or takes over the outer years;
shards publish one of them; a crash may leave a file without a byte or with a piece of its rows.

**`RallyPosterior`.** An update run loads the active artifact once, walks its candidates in the
order of the script, and for each unseen match writes a child (directory, state, manifest) and
replaces the pointer. `Prepared(cutoff)` is the walk back of `prepare_production_match_parameters`.

**`ParticipationHistory`.** `Report` appends an official report of a match, a correction included;
`Fit`, `Reissue` and `BuildAbsence` build what the code builds, for any cutoff at any later time.

**`HistoricalScore`, `ServeCounts`.** The input is not enumerated but *produced*: a score sheet is
written set by set while the match it may be the score of is played along, a service line starts
as the points that were played and gets fields wrong. What the validator makes of the result is
compared with what happened. A sheet does not say by which rules its sets were played, so the last
set may be won by some and under way by others: `EndedInOneWay` names the sheets that were broken
off there and are turned away (section 4).

**`DateCrosswalk`, `HistoryIngestion`, `ServeDesign`, `ServeFit`.** Rows are appended to a source
over time, late and corrected ones too. A snapshot is taken of what the source says by then; the
crosswalk, ingestion and fit are functions of it and of a cutoff. `StrictMatch` is
`structurally_matches`: a round that is not expected of the first source's row forgives any, a round
the second leaves out is a disagreement. `MayBe` says independently which rows of the second source
may be of a match, and `DatesAreTheirOwn` that a date is of the only one. A row without its round is
none of them, so a match whose own row has none is dated by another row that agrees, if there is
one. A linear predictor is kept as the whole-number coefficients of the free parameters;
`PredictionRefused` is the match on a hard court of which a prediction must know the roof.

**`CurrentEvent`, `ModelSnapshots`, `EloRatings`.** A capture reads feed after feed while matches
end; a build goes through its files up to the report. A fit is published under its hash; every
command that makes one directory of snapshots from another is a series of steps and may stop
after any, an activation also while it copies. An Elo table is built from rows in order (of their
date, tournament and number; rows equal in these stay as in the files), and advanced round by round.

## 3. The runs

Each run ends with the whole state space explored. A state beyond a `CONSTRAINT` is checked and not
followed. Programs that share no state at run time are run side by side in two sum instances,
`programs` and `data`: a behaviour picks one of them (`Programs` in the cfg) and the others stay as
they start, so that each is explored as if alone.

| Run | Instance and bounds | Shows |
|---|---|---|
| `match_acceleration` | best of three, games to 2, sets to 2 games, tiebreaks to 2 and 3, four results, one cycle, `MaxPoints` 13 | `StatsFollowScore`: skipped points leave a legal score and statistics that account for them |
| `settlement` | the same format, an ace or a double fault, retirement of either player, `MaxPoints` 18, some sixty propositions | `PathAccepted`; an early settlement is final; an official record settles as the path |
| `parallel` | two calls, three paths in chunks of 2 and 1, two workers and one, for one match or two; kills, interrupts, failures | serial result, failures only for a reason, and every call ends |
| `rolling_backtest` | four setups of two runs (one id), two operators, a reader, three matches, two propositions | log readable and append-only, corrections resolve, own lock before outcome, manifests bind and stay |
| `programs` | see below | the properties of nine programs |
| `data` | see below | the properties of five programs |
| `lock_store_late_writer` | two undisturbed calls | **finding 1** |
| `parallel_rally` | as `parallel`, with the rally layer, no faults | **finding 2** |
| `ledger_digest` | as `rolling_backtest` | **finding 3** |
| `snapshot_selection` | as `rolling_backtest`, one match played between a snapshot's cutoff and its fit | **finding 4** |
| `lock_replay` | one request simulated in chunks, and its replay | **finding 5** |
| `embargo` | the nested backtest by itself | **finding 6** |

The programs of `programs`:

| Program | Bounds | Properties |
|---|---|---|
| `rally` | two update runs, three matches (one already in the static fit, one older than a later one, two whose payload changes) | `ActiveReadable`, `ForecastsUseThePast` |
| `history` | six reports of three matches, at most three appended, four days, one fit or record kept | `RebuildAgrees`, `FitsAccepted`, `StartsSeenByBoth` |
| `sampling` | two components, one with effects of the returner, four sets of unseen effects, any pair of adjusted players | `EffectsEnterOnce` |
| `lock` | eight requests, one for each framework and policy, and some forty that differ from one of them; up to 4 paths; four rally cutoffs; two locks | `LocksUseThePast`, `ReplayAgrees` |
| `store` | three calls (two with one content), one operator, crashes, faults, tampering | `TargetIsWhole`, `OutcomesTruthful`, `LeftoversListed`, refines `WriteOnce` (`RegisterSpec`) |
| `walk` | years of two months of four days, embargo 2, outer year 4, every subset of five further matches, two crashes | `FoldsApart`, `FinishedRunIsWhole` |
| `event` | five instants, one capture, two builds with an asked or the own cutoff, a match in two day feeds, a name that the history has twice | `ReportsTellTheTruth` |
| `snapshots` | two tours, two serve components, fits of two runs and three cutoffs, seven directories, one command stopped | `SnapshotsNameTheirModel`, `ReportedBundlesAgree` |
| `elo` | two histories of files, an event of six possible matches in three rounds, two advances | `AdvanceIsRebuild` |

And of `data`:

| Program | Bounds | Properties |
|---|---|---|
| `scoring` | the scaled-down format; at most one extra deuce, 24 points | `ServiceAlternates`, refines `SetsRace` (`RaceSpec`) |
| `sheet` | best of three and of five, fourteen tokens, one mistake | `SheetsAccepted` |
| `counts` | up to three service points of any kind, two wrong fields | `CountsAreOfPoints` |
| `ingestion` | six rows, up to three in a source, two result tables, cutoffs at every day | `TrainingKeepsToCutoff`, `EarlierHistoryStable`, `DatesAreTheirOwn` |
| `fit` | eight count rows, up to three processed, two bundles, three cutoffs | `FitsKeepToCutoff`, `PredictionFollowsDesign` |

Why the bounds are enough to be worth something. The scaled-down format keeps every branch of the
engine: a deuce, a tiebreak after an even number of games, a decider with its own target, a set
with and without a tiebreak before the next; the distance between states shrinks, not their kind.
Nothing in the rules depends on the numbers except through comparisons, and the theorems about
scoring hold for all of them. Three writers are one to publish, one to lose and one to come back
later with something else. Two calls of the parallel layer with different chunk sizes are enough
for one to reuse, cut out or race the other's checkpoints. Two runs with one id, one target in
common and two propositions give repeats, splits and partial rows. In the rally run one candidate
per match and capture suffices for every order of availability and every repetition. A cutoff is
compared with instants before, at and after it wherever it is compared at all; tables have a row of
every reason to leave one out, and two rows for each reason that takes two. The forty deviating
requests each fail, or just pass, one guard of the lock service that another lets through.

`CHECK_DEADLOCK FALSE` stands wherever the system stops by design: matches end, calls return,
programs finish. `UpdaterSymmetry` exchanges the two update runs, which differ in nothing.

**Fairness.** Only `CallsEnd` is a liveness property. `FairSpec` assumes weak fairness of each call
while it is active and of each worker: the operating system schedules a process that is not
stopped, and polling neither blocks nor waits on a lock. No fairness is assumed of kills,
interrupts, failures or of starting a call again. Every other specification is a safety one: the
remaining programs are run by hand, once, and nothing in the repository runs them again.

## 4. Disagreements found

1. **A late writer fails with the wrong error** (`locking/store.py:107`). A call that saw no target
   before another published, and reserved after the other released, renames onto a non-empty
   directory. That is `ENOTEMPTY`, not the `FileExistsError` it translates, so the caller gets
   `LockStoreError`, and its reservation and partial directory stay beside the published revision.
   The concurrency test expects only *published*, *conflict* or *already exists*.
2. **Rally counts depend on the batch** (`simulation/match.py:2126`). They are drawn once per batch,
   so chunks change them; a replay in one batch does not reproduce what was created in chunks.
3. **`verify_chain` returns the digest of rows it has not verified** (`calibration/ledger.py:604`):
   it reads the rows and the last hash in two connections.
4. **A snapshot fitted after the cutoff is selected** (`calibration/backtest.py:202`): only the data
   cutoff is compared, while `docs/Milestone_8_Implementation.md` says both are.
5. **A chunked lock never replays exactly** (`locking/service.py:1363`). The replay records the
   whole path count as its chunk size where creation recorded the checkpoint size, so the runtimes
   differ and `SAME_RUNTIME_EXACT` fails, whatever the paths are.
6. **The embargo ends at the folds** (`calibration/v1_1_backtest.py:959`). The base forecasts keep
   to a monthly cutoff and an embargo of 21 days; settings and coefficients of an outer year are
   selected by the year of a file, and so rest on outcomes whose embargo is not over at the cutoff
   of January, or of December for a match in the next year's file.

Seen while reading or modelling, and not the subject of a run:

- *Scores that are not unambiguously impossible.* `data/validate.py:3-6` says the module "rejects only
  states that are unambiguously impossible" and keeps long advantage sets. A last set that some rules
  end counts as won (`validate.py:103-142`), so that a match broken off in it is reported as over
  before its status (`385-386`): `6-4 7-6 RET` of advantage sets and `6-4 3-6 [7-5] RET` of a match
  tiebreak to ten are turned away, though they could have been played. `SheetsAccepted` states it:
  such scores are turned away, all of them and no others.
- *Damaged text.* `estimation/rally_termination.py:227` raises "rrlly artifact is not rvrilrble ...",
  and `simulation/parameters.py:2556` recognises the refusal by the words "information cutoff": a
  forecast from before the static fit raises where it was meant to go on without the rally layer.
  `scripts/initialize_rally_posterior.py` is damaged in the same way and does not compile.
- *Percentages.* `simulation/match.py:2100` redefines `_published_percentage_truth`, so a first-serve
  percentage is compared as an exact ratio; `docs/Milestone_7_Implementation.md:22` still describes
  truncation and half-up as open.
- *Records of retirements* count the games of completed sets only. A threshold of games reached in
  the unfinished set is settled on the path and void in the settlement of the lock.
- *Locks.* A record does not name the rally artifact it was simulated with. An adaptive lock with a
  blocked proposition that no path settles is refused by the last validator only, after the whole
  simulation. A warning speaks of 100,000 paths where the policy ends at 70,000.
- *Fits.* The provenance of a serve fit is of all rows of a build, the fit of the usable ones: one
  match payload without a usable row for one component makes the whole current build fail, and so
  does a match that two day feeds list (`scripts/build_current_usopen_snapshot.py`).
- *Names.* Two official ids of one name become one historical player; an id that is spelled in two
  ways takes either name (`data/current_usopen.py`). Elo ratings split a player whose id differs
  between the annual and the running file.
- *Repetitions.* A match repeated word for word is lost under the finalized policy and kept once
  under the vintage policy.
- *Files of a run that died.* A part of the nested backtest without a byte is dropped without a
  word, a torn one stops every later run; a change of configuration or code takes over old parts. A
  failed current build with an explicit cutoff, and an interrupted activation, leave a directory
  that refuses the next attempt; the latter has the new framework's name and one tour of the old.
- *Races of writers.* Serve, retirement and duration writers take over a directory that appeared
  before their rename; Elo, strength and integration writers raise an `OSError`. Two first calls on a
  new ledger file both insert the schema version (`calibration/ledger.py:516`): the second raises. A
  rally pointer may drop what another update run activated (`estimation/rally_posterior.py:588`).

## 5. What is proved

The theorems hold for all values of the constants that satisfy the modules' named assumptions,
which TLC evaluates in the runs. Every specification is `Init /\ [][Next]_vars`; each proof takes
an inductive invariant through `Next`, one step per action.

- **Scoring** (`RulesAssumption`: an odd number of sets, everything else at least 2). The
  invariant `IInv` adds to `TypeOK` what a set owes the sets before it: how the service order
  continues (`ServiceOrderContinuous`), that a set is active exactly while nobody has the sets that
  win, that the games of a set are reachable ones, and that breaks were chances. Scores stay legal
  (`ScoresAlwaysLegal`), the match stops at the clinch, service alternates, break points are one
  point away, and point-by-point scoring implements `SetsRace` (`ScoringIsARace`).
- **Match paths** (`SimulationAssumption`: drawn results are results of a point, retiring players are
  players). `IInv` is kept by the points of a path and by the sweep that ends an accelerated
  tiebreak. `StatsInv` relates the statistics of both players to the counters of the engine's sets,
  `PathInv` the games, the break events and the retirement boundary to the sets. With lemmas on sums
  over sets they give `StatsAlwaysFollow` and `PathsAlwaysAccepted`: no path the loop can end with is
  refused by the validators of `MatchPath`.
- **Settlement** (`PropsAssumption`). `PlayedInv` adds to these where the break events lie. A step
  appends at most one set and at most one event, later than the others, and no count ever falls: what
  is reached stays reached, and a scope that is over and the first break in it stay as they are.
  Hence `SettlementsAreFinal`, for every proposition that does not mention the winner.
- **Records**. `GamesInv`: the games a player won by the statistics are those of the completed sets
  and of the one in play, and only a match that is not over is retired from. A record has the counts
  it reports and the games of the completed sets, so never more than its path, and as many when the
  match was completed; everything else is read from what both have. Hence `RecordsAlwaysSettleAsPaths`.
- **Lock store** (any writers and operators, any crashes). `PublicationInv`: at most one directory
  at the target, and how the files of a call follow from where it is. `ReservationInv` is needed for
  `LeftoversAlwaysListed` and `ReservationsHold`: who holds the reservation, and what an operator
  has listed. These two assume `AgeIsSafe` and a single operator (`OneAtATime`); the other theorems
  do not. `StoreIsWriteOnce` is the refinement of `WriteOnce`.
- **Parallel simulation** (any calls, sizes, workers, kills; assumes `~Rally`, and finding 2 is why).
  Every checkpoint and every batch a call holds is exactly the serial one for its range and setup
  (`DirectoryInv`, `IInv`); results are serial and checkpoints final. `WorkInv` follows the work: a
  missing chunk is in the queue of a worker of the call or one of its workers has failed, and a
  worker seen to end well has an empty queue. So a checkpoint missing at the end is the trace of a
  failure the two polls let through, and nothing other calls do makes one fail
  (`FailuresHaveReasons`, the action property `FailsForReason`).
- **Ledger and backtest.** `LedgerInv`: the log verifies, and the original of every correction on its
  way is in it; the log only grows, so what fitted when it was read fits when it is appended. Hence
  `LedgerAlwaysReads`, and `LedgerAppendOnly`, the refinement of `AppendOnly`. The rows are distinct
  and a correction follows its original, so by induction over the positions what `effective_rows`
  keeps of a chain of corrections is its last row: `EffectiveAlwaysLatest`. `LockInv` ties each
  run's progress to its own locks: `RevealsFollowLocks`. `RecordInv` ties the log to the runs: a row
  that corrects nothing is of the run that holds the lock of its match, which has noted it, is about
  to, or was killed; a lock a run has left behind has all its rows or is excluded; the digest of a
  finished call is that of a prefix of the log, with every row its run had noted. A manifest is of a
  run that is over, so it says all there ever is: `ManifestsAlwaysBind`; and since it is looked for
  in the step that publishes, `ManifestsAlwaysFinal`. `BacktestAssumption` asks that targets are
  known matches and that operators and readers are not runs.
- **Rally posterior.** `ChainInv` (a child is later than its parent and than every match it holds),
  `FilesInv` (which directories are whole, by the step of the run that writes them) and `UpdaterInv`
  give `ActiveAlwaysReadable` and `CutoffsAlwaysOrdered`, the order that makes the first ancestor
  before a cutoff the newest. The walk from the pointer to the parents is a recursive function over
  the artifacts (`IsWalk`, `InductionTo`): it ends, at the newest artifact of the active line that a
  forecast may use, `ForecastsAlwaysUseThePast`.
- **Participation histories** (`HistoryAssumption`). A report of today is later than every cutoff
  used so far, so it changes nothing that is visible at one. `HistoryInv`: every fit and every absence
  is what would be built for its cutoff today. `RebuildsAgree`; and the two programs read the same
  reports, `BothSeeTheStarts`. A batch has two rows of every match it uses, and the sums over the
  rows of each player add up to the sums over all: `FitsAlwaysAccepted`.
- **Lock service** (`LockAssumption`, `RequestAssumption`). `PastInv`: from its check to its lock a
  request stays accepted, with the parameters of its snapshot, so `LocksAlwaysUseThePast`. `ReplayInv`
  adds what a run holds (`RunInv`: its paths are a prefix of the seed's, its inspections are those of
  the checkpoints before) and what each lock keeps of its run (`RunKept`); artifacts are only added
  to the rally chain, so a replay that names one repeats the lock: `ReplaysAgree`.
- **Current event** (`FeedAssumption`, `OutcomeAssumption`). `EventInv`: matches end once and in the
  past (`CourtInv`), captures are truthful and whole (`CapturesInv`), and a directory tells what its
  capture and its cutoff give (`BuildsInv`). Hence `ReportsAreTrue`.
- **Surface Elo** (`EloAssumption`: the files know each player by one id, the matches of the event
  are numbered round by round and none is before the cutoff). What `Ordered` makes of a set is the
  only sequence that has all of it in the order (`SortedIsOrdered`, `OrderedIsSorted`), so an order
  carried over to other names gives the same sequence, and of two sets, one before the other, the
  sequences follow each other (`OrderCarried`, `OrderJoined`). With the results in its files a build
  rates the rows it rated before the event, and then what the advance counts, in its order
  (`RatedOfBoth`, `RatedInOrder`). Result by result both tables have each entrant in the same state,
  though one may have it under its row of the draw and the other under its id (`RowIsRated`,
  `ObjectIsRated`), and a name is that of one row (`KeyOfName`). Hence `AdvancesAreRebuilds`.
- **Snapshots** (`FitKindAssumption`, `ReferenceAssumption`). A snapshot that was made is `Sound`: it
  has the fits of its tour and cutoff, and its identity has the `Lineage` of its framework; a directory
  holds sound ones, one per tour (`DirectoryInv`). Hence `IdentitiesNameModels` and
  `ReportedHaveComeTheWay`.
- **Ingestion and serve fits** (`IngestionAssumption`, `FitAssumption`). `IngestInv`: a dataset is of a
  table the source still begins with, a pinned crosswalk of one it was once. `FitInv`: a fit is that of
  the rows it was given, finitely many, which were not refused. The rest is what the selections do with
  rows of their cutoff or later: `IngestionKeepsToCutoff`, `HistoryIsStable`, `FitsUseThePast`. A
  match is dated by the only row that agrees strictly, and what agrees so is what `MayBe` says
  (`CrosswalkOwnDates`): `DatesNeverShared`.
- **Designs** (`DesignAssumption`: names are told apart by the alphabet). The blocks of a design are
  listed by their keys, one for each (`BlocksListed`), their levels are sorted, and the free parameters
  of a block start where those before it end (`FlatPlaces`, `DesignLaid`). So each place of the vector
  is a fixed effect, a free parameter, a scale or kappa, and its name says which (`PlacesAre`), from
  which `Coherent` follows. A row is in a block exactly when a match like it uses the block and the
  block has its level (`UsedIsActive`). With `FitInv`: `PredictionsFollowDesigns`.
- **Scores of matches** (`ScoreAssumption`: texts are finitely many, of numbers of any size, and a
  match is the best of an odd number of sets). The scores that play can reach, game by game or point
  by point, have a closed form (`AfterScores`, `PlayedPasses`), which is compared with what the
  validator lets pass (`RegularPlayed`, `TiebreakPlayed`). `SheetInv`: a sheet without mistakes counts
  the sets its match counts and passes so far (`Played`), and the first mistake leaves a token that
  no later text repairs (`Blunder`). A last set that goes on in one way and ends in another is the
  one place where a score without mistakes is not accepted. Hence `SheetsAlwaysAccepted`.
- **Serve components** (`CountAssumption`: the numbers a source writes are finitely many). `CountInv`
  bounds the fields of a line and keeps it that of the points until a field is wrong. For each
  component, what contradicts nothing is what some points give, which the proof names, and what
  points give contradicts nothing: `CountsAlwaysOfPoints`.
- **Draws of a path** (`SamplingAssumption`: components are listed once, and only the two sides are
  adjusted). `StreamsNeverShared` is arithmetic on the spawn keys: different paths or stages give
  different streams, whatever the seed had spawned before. `SamplingInv` says what each component
  has added and that what a stream has given is of the stages that are over, so that nothing new
  can be a repetition: `EffectsAlwaysEnterOnce`.
- **Nested backtest.** `MonthsInv`: the file of a month is absent, cut short, or exactly its
  forecasts, and the months before the one a run has reached have one. `CollectedInv`: from the
  moment the files were put together none is written again, so outer parts and results are of one
  collection. Hence `FinishedRunsAreWhole`. `FoldsAlwaysApart` adds the arithmetic of months and
  needs `SeasonsAssumption`: a file is a season, and none of its matches is known in the month in
  which a match of an earlier file is forecast. Without it a forecast could rest, through the
  settings, on its own match.

Inductions are over recursive functions with a finite range, and by a minimal counterexample
(`WFMin` on the strict subsets): the library's induction takes an operator as a parameter, which the
provers cannot instantiate. `FiniteNumbers` has what several modules need of sums: `MapThenSumSet`
does not depend on the order in which it takes the elements (`SumsAgree`, `SumOfTake`), and sums over
parts and over the classes of a key add up (`SumOfUnion`, `SumOfFibres`).

**Only model-checked.** `CallsEnd`, which is liveness under fairness.

## 6. What is left out, and why

- Probabilities and everything computed in floating point; a drawn value is any possible one. With
  it go the optimisers and predictors of `estimation/`, the duration and strength models (only their
  artifacts are modelled), point and match probabilities, metrics, diagnostics and experiments.
- In settlement, walkovers, `DURATION_MIN`, rally propositions, nested composites, and the counting
  of a batch.
- In the lock service, the numbers of the summaries, the Git fingerprint, cards and diffs; a hash is
  the value it is of.
- Durability: `fsync` and lost writes after a power cut. A crash stops a process and keeps its files.
- In the store, an `OSError` of `mkdtemp` counts as the store's error. `LeftoversListed` holds for a
  `minimum_age` that outlasts every live call and one operator at a time; what a shorter one does is
  in the theorems that do not assume it, not in a run.
- In the parallel layer, the temporary file of a checkpoint, the prepared pickle and thread limits.
- In the ledger, the validators of a record, Brier fields, and the `expected_*` arguments of
  `verify_chain`. In the rolling backtest, the market grid, seeds and coverage bookkeeping. In the
  nested backtest, metrics, plots and protected propositions.
- In the data modules, reading CSV files, the regular expressions of a score token, and the texts of
  anomalies. In the current event, corrections of a source between the day feed and the match feed.
- Write-once directories of `data/snapshot.py` and `data/artifacts.py`: published as the artifacts of
  `ModelSnapshots` and the store are, with no guard of their own.
- Market input (one pure selection), identity and schemas (records), the command line (argument
  parsing; what it writes is in the modules above), and one-shot scripts.
- Two lost updates of the repository are in the models and have no property, because no document
  says what two at once should give: the rally pointer, and the schema version of a new ledger.

## 7. What could follow

1. **Depth.** Nested composites and walkovers in settlement; the market grid in the backtest; a
   correction of a feed during a capture.
2. **Composition.** One instance in which a current build, its lock and its settlement follow each
   other, so that `ReportsTellTheTruth` and `LocksUseThePast` are about the same match.
