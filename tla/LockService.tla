----------------------------- MODULE LockService ----------------------------
(***************************************************************************)
(* create_prediction_lock and reproduce_prediction_lock.  A request goes   *)
(* through the checks, the estimate of its parameters, the checks on them, *)
(* the simulation (a fixed count, perhaps run again, or one checkpoint of  *)
(* an adaptive policy after the other), the lock and its store.  A lock    *)
(* may be replayed at any later time; between the two, rally artifacts are *)
(* activated.                                                              *)
(*                                                                         *)
(* A path of a seed is its number, and its score is its alone.  Its rally  *)
(* counts come from a stream of the batch: they depend on the number the   *)
(* batch starts at and on the rally artifact.                              *)
(***************************************************************************)
EXTENDS PropPolicy, MatchParameters, Integers

CONSTANTS Requests,    \* what may be asked for
          Worlds,      \* per prop, how each path of the seed settles it
          RallyYes,    \* <<artifact, batch start, path>> that settle Yes
          Checkpoints, \* of the adaptive policy
          FixedPaths,  \* standard and escalated count of the fixed policies
          MinimumSettled,
          RallyCutoffs,\* of the rally artifacts, in order of activation
          MaxLocks

ASSUME LockAssumption ==
  /\ Checkpoints # <<>> /\ FixedPaths.standard <= FixedPaths.escalated
  /\ \A i, j \in DOMAIN Checkpoints : i < j => Checkpoints[i] < Checkpoints[j]

\* Counts and times are numbers, and no time is 0, which stands for none; the
\* static rally fit is always there, and a request is finite.
ASSUME RequestAssumption ==
  /\ Checkpoints \in Seq(Nat \ {0}) /\ RallyCutoffs \in Seq(Nat) \ {<<>>}
  /\ {FixedPaths.standard, FixedPaths.escalated} \subseteq Nat \ {0}
  /\ \A r \in Requests :
       /\ r.context.cutoff \in Nat /\ r.context.start \in Nat \ {0}
       /\ {r.snapshot.data, r.snapshot.retirement, r.snapshot.duration,
           r.snapshot.anchor, r.snapshot.integration} \subseteq Nat
       /\ r.vintage \in {"point in time", "retrospective"}
       /\ r.checkpoint \in Nat /\ IsFiniteSet(r.mixtures)

VARIABLES world,      \* the paths of the seed
          chain,      \* how many rally artifacts have been activated
          request,    \* what is being asked for
          phase,      \* how far it is
          parameters, \* what was estimated
          batch,      \* the paths simulated so far
          inspected,  \* the checkpoints an adaptive run has seen
          locks,      \* the locks created
          stored,     \* the revisions in the store
          reports     \* the last replay of each lock

lockVars == <<world, chain, request, phase, parameters, batch, inspected,
              locks, stored, reports>>

NoRequest == "none"
NoParameters == [record |-> "none", rally |-> 0]
NoBatch == [paths |-> <<>>, chunk |-> 0]

LockInit ==
  /\ world \in Worlds
  /\ chain = 1
  /\ request = NoRequest /\ phase = "idle"
  /\ parameters = NoParameters /\ batch = NoBatch /\ inspected = <<>>
  /\ locks = <<>> /\ stored = {} /\ reports = <<>>

Snapshot == request.snapshot
Context == request.context
Production == request.mode = "production"
Adaptive(policy) == policy = "adaptive"

Ask ==
  /\ phase = "idle" /\ Len(locks) < MaxLocks
  /\ \E r \in Requests : r.parent <= Len(locks) /\ request' = r
  /\ phase' = "asked"
  /\ UNCHANGED <<world, chain, parameters, batch, inspected, locks, stored,
                 reports>>

-----------------------------------------------------------------------------
(* The checks before anything is estimated *)

\* Code, workers and the transform of the platform
RunArranged ==
  /\ request.dirty => request.allowDirty
  /\ request.workers > 0
  /\ request.workers > 1 => request.checkpoint > 0
  /\ request.platform # "unknown"
  /\ request.platform # "none" => Adaptive(request.policy)

\* The validator of InformationBundle, and the bundle against the match
InformationFits ==
  LET info == request.information
  IN  /\ \A available \in info.items : available < info.cutoff
      /\ \A r \in info.inactivity : r.available < info.cutoff
      /\ info.cutoff = Context.cutoff
      /\ info.scenario = Context.scenario
      /\ request.props # <<>>

\* v1.3 forecasts with a quote, which no other framework takes.
Winners(props) ==
  {i \in DOMAIN props : ~ props[i].compound /\ Has(props[i], {"MATCH_WIN"})}
NoQuote == [match |-> "none", observed |-> 0, captured |-> 0, retained |-> FALSE]
MarketFits ==
  IF Snapshot.framework = "v1.3"
  THEN /\ request.market # NoQuote /\ request.identity
       /\ Cardinality(Winners(request.props)) = 1
  ELSE request.market = NoQuote

\* _resolve_inactivity_records: of the bundle or given, never both
Inactivity ==
  IF request.information.inactivity = {} THEN request.records
  ELSE {[player |-> r.player, tour |-> Context.tour, cutoff |-> Context.cutoff,
         date |-> Context.localDate, manifest |-> r.manifest] :
        r \in request.information.inactivity}
InactivityResolved ==
  request.information.inactivity # {} =>
    /\ request.records = {}
    /\ {r.player : r \in request.information.inactivity} = Players
    /\ \A r \in request.information.inactivity : r.complete

\* A source of the tour that was only available after the cutoff can be used
\* where the history is declared to be retrospective and has exact dates.
SourcesFit ==
  LET relevant == {s \in request.sources : s.tour = Snapshot.tour}
  IN  /\ relevant # {}
      /\ request.vintage = "point in time" =>
           \A s \in relevant : s.available < Context.cutoff
      /\ request.vintage = "retrospective" => request.exactHistory

ProductionReady ==
  Production =>
    /\ request.policy = "fixed"
    /\ Complete(Snapshot) /\ request.identity
    /\ request.fingerprint = "complete"
    /\ request.retained # {}
    /\ request.store
    /\ WithDuration(Snapshot) => request.display = "unresolved"

\* The escalating policy has two counts, the fixed one a single count.
StandardPaths(policy) ==
  IF policy = "escalating" THEN FixedPaths.standard ELSE FixedPaths.escalated
Requested ==
  IF Adaptive(request.policy) THEN Last(Checkpoints)
  ELSE IF request.paths = 0 THEN StandardPaths(request.policy)
  ELSE request.paths
PathsDeclared ==
  /\ Adaptive(request.policy) => request.paths = 0
  /\ Requested \in {StandardPaths(request.policy), FixedPaths.escalated,
                    Last(Checkpoints)}
  /\ ~ Adaptive(request.policy) =>
       Requested \in {StandardPaths(request.policy), FixedPaths.escalated}

RequestAccepted ==
  /\ RunArranged /\ InformationFits /\ MarketFits /\ InactivityResolved
  /\ SourcesFit /\ ProductionReady /\ PathsDeclared

\* What is refused leaves nothing behind.
Forget ==
  /\ request' = NoRequest /\ phase' = "idle"
  /\ parameters' = NoParameters /\ batch' = NoBatch /\ inspected' = <<>>

Check ==
  /\ phase = "asked"
  /\ IF RequestAccepted
     THEN /\ phase' = "checked"
          /\ UNCHANGED <<request, parameters, batch, inspected>>
     ELSE Forget
  /\ UNCHANGED <<world, chain, locks, stored, reports>>

-----------------------------------------------------------------------------
(* The estimate, and the checks on what it rests on *)

ManifestsAgree ==
  /\ Complete(Snapshot) => /\ Snapshot.manifest = request.manifest
                           /\ \A r \in Inactivity : r.manifest = request.manifest
  /\ WithDuration(Snapshot) => Snapshot.durationManifest = request.manifest

\* An exact-dated B6 fit needs the training provenance it was fitted from.
NoTraining == [verified |-> 0, evidence |-> "none"]
TrainingRetained ==
  Complete(Snapshot) /\ Snapshot.exact =>
    request.training.evidence = Snapshot.evidence

ScenariosPinned ==
  Production /\ Complete(Snapshot) => \A m \in request.mixtures : m.pinned

DurationKnown ==
  WithDuration(Snapshot) => request.identity /\ request.display # "unknown"

ParametersAccepted ==
  /\ EstimateAccepted(Snapshot, Context, Inactivity, request.mixtures, Production)
  /\ ManifestsAgree /\ TrainingRetained /\ ScenariosPinned /\ DurationKnown

Estimate ==
  /\ phase = "checked"
  /\ IF ParametersAccepted
     THEN /\ parameters' =
               [record |-> ParameterRecord(Snapshot, Context, Inactivity,
                             request.mixtures, Production),
                rally |-> RallyUsed(Snapshot, Context,
                                    SubSeq(RallyCutoffs, 1, chain))]
          /\ phase' = "simulating"
          /\ UNCHANGED <<request, batch, inspected>>
     ELSE Forget
  /\ UNCHANGED <<world, chain, locks, stored, reports>>

-----------------------------------------------------------------------------
(* Simulation and settlement *)

\* simulate_matches: paths start+1 .. start+n as one batch
PathBatch(start, n) == [i \in 1..n |-> [path |-> start + i, start |-> start]]
\* simulate_matches_parallel: a batch for every `size` paths
Chunked(n, size) ==
  [i \in 1..n |-> [path |-> i, start |-> ((i - 1) \div size) * size]]
\* _run
Simulated(n, checkpoint) ==
  IF checkpoint > 0 THEN [paths |-> Chunked(n, checkpoint), chunk |-> checkpoint]
                    ELSE [paths |-> PathBatch(0, n), chunk |-> n]

UsesRally(prop) == Has(prop, RallyKinds)
Outcome(prop, path, rally) ==
  IF ~ UsesRally(prop) THEN world[prop.id][path.path]
  ELSE IF rally = Absent THEN "unresolved"
  ELSE IF <<rally, path.start, path.path>> \in RallyYes THEN "yes"
  ELSE "no"
Evaluated(props, paths, rally) ==
  [i \in DOMAIN props |->
     PathCounts([k \in DOMAIN paths |-> Outcome(props[i], paths[k], rally)])]

GeneratedOf(r) ==
  SelectSeq(r.props, LAMBDA p : Generated(p, WithDuration(r.snapshot)))
GeneratedProps == GeneratedOf(request)
Estimates == Evaluated(GeneratedProps, batch.paths, parameters.rally)

\* A fixed run, and the rerun it may call for: from the first path on, so
\* that the samples are never combined.
SimulateFixed ==
  /\ phase = "simulating" /\ ~ Adaptive(request.policy)
  /\ LET first == Simulated(Requested, request.checkpoint)
         found == Evaluated(GeneratedProps, first.paths, parameters.rally)
         again == /\ Requested = StandardPaths(request.policy)
                  /\ FixedPaths.escalated > Requested
                  /\ Escalates(found, IF request.policy = "fixed"
                                      THEN FixedPaths.escalated ELSE MinimumSettled)
     IN  batch' = IF again THEN Simulated(FixedPaths.escalated, request.checkpoint)
                  ELSE first
  /\ phase' = "simulated"
  /\ UNCHANGED <<world, chain, request, parameters, inspected, locks, stored,
                 reports>>

\* One turn of the loop of _run_adaptive: the next chunk of the same seed,
\* until every prop is stable.
NextChunk(start, n) == PathBatch(start, n)
AllStable(estimates, terminal) ==
  \A i \in DOMAIN estimates :
    StoppingStatus(estimates[i], terminal) = "INTEGER_STABLE"
SimulateCheckpoint ==
  /\ phase = "simulating" /\ Adaptive(request.policy)
  /\ LET prior == IF inspected = <<>> THEN 0 ELSE Last(inspected)
         checkpoint == Checkpoints[Len(inspected) + 1]
         paths == batch.paths \o NextChunk(prior, checkpoint - prior)
         terminal == checkpoint = Last(Checkpoints)
     IN  /\ batch' = [paths |-> paths, chunk |-> checkpoint]
         /\ inspected' = Append(inspected, checkpoint)
         /\ phase' = IF \/ terminal
                        \/ AllStable(Evaluated(GeneratedProps, paths,
                                               parameters.rally), terminal)
                     THEN "simulated" ELSE "simulating"
  /\ UNCHANGED <<world, chain, request, parameters, locks, stored, reports>>

-----------------------------------------------------------------------------
(* The lock *)

Records(props, estimates, decisions, stopping, platform) ==
  [i \in DOMAIN props |->
     EstimateRecord(props[i], estimates[i], decisions[i], stopping[i], platform)]
Stopping(estimates, policy) ==
  [i \in DOMAIN estimates |->
     IF Adaptive(policy) THEN StoppingStatus(estimates[i], TRUE) ELSE "none"]
\* At an early checkpoint the diagnostics are those of a run that goes on;
\* it ended because all of them were stable.
StoppingFound ==
  [i \in DOMAIN Estimates |->
     IF Adaptive(request.policy)
     THEN StoppingStatus(Estimates[i],
                         Len(batch.paths) = Last(Checkpoints)) ELSE "none"]

Schema ==
  CASE /\ Snapshot.framework = "v1.3" /\ request.identity
       /\ WithDuration(Snapshot) -> "v5"
    [] request.identity /\ WithDuration(Snapshot) -> "v4"
    [] request.identity -> "v3"
    [] Complete(Snapshot) -> "v2"
    [] OTHER -> "v1"

\* summarize_simulations: what the scores of the paths say, and whether a
\* duration prop is left open by the display policies.
Summary(props, paths, estimates) ==
  [scores |-> [i \in DOMAIN paths |-> paths[i].path],
   sensitive |-> \E i \in DOMAIN props :
     ContainsDuration(props[i]) /\ estimates[i].unresolved > 0]

\* The parts the configuration hash covers, beyond those of every lock
Configuration(retirement, duration, platform, training, market) ==
  {x \in {"retirement", "duration", "platform", "training", "market"} :
     CASE x = "retirement" -> retirement
       [] x = "duration" -> duration
       [] x = "platform" -> platform # "none"
       [] x = "training" -> training # NoTraining
       [] x = "market" -> market # NoQuote}

Draft ==
  LET props == GeneratedProps
      duration == WithDuration(Snapshot)
      decisions == [i \in DOMAIN props |->
        Decision(Support(props[i], duration), Estimates[i], StoppingFound[i])]
      actual == Len(batch.paths)
  IN  [base |-> request.base,
       revision |-> IF request.parent = 0 THEN 1
                    ELSE locks[request.parent].revision + 1,
       parent |-> request.parent, reason |-> request.reason,
       identity |-> request.identity, schema |-> Schema,
       information |-> request.information, vintage |-> request.vintage,
       sources |-> request.sources, training |-> request.training,
       retained |-> request.retained, market |-> request.market,
       fingerprint |-> request.fingerprint, record |-> parameters.record,
       rally |-> parameters.rally,
       simulation |->
         [requested |-> Requested, actual |-> actual, policy |-> request.policy,
          inspected |-> inspected, platform |-> request.platform,
          escalated |-> IF Adaptive(request.policy) THEN actual > Head(Checkpoints)
                        ELSE actual > Requested],
       runtime |-> [chunk |-> batch.chunk, processes |-> request.workers,
                    duration |-> duration],
       paths |-> batch.paths,
       summary |-> Summary(props, batch.paths, Estimates),
       estimates |-> Records(props, Estimates, decisions, StoppingFound,
                             request.platform),
       gates |-> SelectSeq(request.props, LAMBDA p : ~ Generated(p, duration)),
       configuration |-> Configuration(Complete(Snapshot), duration,
         request.platform, request.training, request.market)]

\* The kinds of artifacts a lock must retain, "base" for the nine of every
\* lock with an identity
RequiredKinds(lock) ==
  {"base"} \cup (IF lock.schema \in {"v4", "v5"} THEN {"duration_fit"} ELSE {})
  \cup (IF WithStrength(lock.record.snapshot.framework) THEN {"strength"} ELSE {})
  \cup (IF lock.record.snapshot.framework = "v1.3" THEN {"market_odds"} ELSE {})

\* The validator of PredictionSnapshot
IdentityCoherent(lock) ==
  IF lock.schema \in {"v3", "v4", "v5"}
  THEN /\ lock.identity
       /\ lock.record.snapshot.data <= lock.record.context.cutoff
       /\ lock.training # NoTraining =>
            lock.training.verified < lock.record.context.cutoff
       /\ lock.retained = RequiredKinds(lock)
       /\ lock.fingerprint = "complete"
  ELSE ~ lock.identity
RevisionCoherent(lock) ==
  IF lock.revision = 1 THEN lock.parent = 0 /\ lock.reason = "initial"
                       ELSE lock.parent # 0
MarketCoherent(lock) ==
  LET context == lock.record.context
      quote == lock.market
  IN  IF lock.record.snapshot.framework = "v1.3"
      THEN /\ lock.schema = "v5" /\ quote # NoQuote
           /\ quote.match = lock.base
           /\ quote.observed <= context.cutoff /\ quote.captured <= context.cutoff
           /\ quote.observed < context.start
           /\ Cardinality(Winners([i \in DOMAIN lock.estimates |->
                                     lock.estimates[i].prop])) = 1
           /\ quote.retained
      ELSE quote = NoQuote /\ lock.schema # "v5"
PathsCoherent(lock) ==
  LET sim == lock.simulation
      ids == [i \in DOMAIN lock.estimates |-> lock.estimates[i].prop.id] \o
             [i \in DOMAIN lock.gates |-> lock.gates[i].id]
  IN  /\ \A i \in DOMAIN lock.estimates :
           /\ lock.estimates[i].estimate.total = sim.actual
           /\ RecordAccepted(lock.estimates[i])
           /\ Adaptive(sim.policy) <=> lock.estimates[i].stopping # "none"
      /\ ids # <<>> /\ IsInjective(ids)
      /\ IF Adaptive(sim.policy)
         THEN /\ sim.inspected # <<>> /\ IsPrefix(sim.inspected, Checkpoints)
              /\ Last(sim.inspected) = sim.actual
              /\ sim.requested = Last(Checkpoints)
              /\ sim.escalated <=> sim.actual > Head(Checkpoints)
         ELSE sim.inspected = <<>> /\ sim.platform = "none"
PartsCoherent(lock) ==
  LET snapshot == lock.record.snapshot
  IN  /\ lock.schema = "v1" <=> ~ Complete(snapshot)
      /\ lock.schema \in {"v4", "v5"} <=> WithDuration(snapshot)
      /\ lock.configuration = Configuration(lock.schema # "v1",
           lock.schema \in {"v4", "v5"}, lock.simulation.platform, lock.training,
           lock.market)
LockAccepted(lock) ==
  /\ IdentityCoherent(lock) /\ RevisionCoherent(lock) /\ MarketCoherent(lock)
  /\ PathsCoherent(lock) /\ PartsCoherent(lock)

\* The parent is of the same match and the reason is not "initial".
ParentFits ==
  request.parent # 0 => /\ locks[request.parent].base = request.base
                        /\ request.reason # "initial"

Revisions == {<<locks[i].base, locks[i].revision>> : i \in stored}
Build ==
  /\ phase = "simulated"
  /\ LET kept == ParentFits /\ LockAccepted(Draft)
         clash == request.store /\ <<Draft.base, Draft.revision>> \in Revisions
     IN  IF kept /\ ~ clash
         THEN /\ locks' = Append(locks, Draft)
              /\ reports' = Append(reports, "none")
              /\ stored' = IF request.store THEN stored \cup {Len(locks) + 1}
                           ELSE stored
         ELSE UNCHANGED <<locks, stored, reports>>
  /\ Forget
  /\ UNCHANGED <<world, chain>>

-----------------------------------------------------------------------------
(* Replay, and the updates between a lock and its replay *)

\* reproduce_prediction_lock: one batch of the recorded count, terminal
\* diagnostics, the recorded decisions and, if any record has a platform
\* integer, the transform of the platform.
ReplayedRally(lock) ==
  RallyUsed(lock.record.snapshot, lock.record.context,
            SubSeq(RallyCutoffs, 1, chain))
\* Fault: the decisions are not those of the lock.
DecidedAgain(lock, props) ==
  [i \in DOMAIN props |-> Support(props[i], WithDuration(lock.record.snapshot))]
Recorded(lock, props) ==
  [i \in DOMAIN props |-> lock.estimates[i].support]
ReplayReport(lock) ==
  LET props == [i \in DOMAIN lock.estimates |-> lock.estimates[i].prop]
      paths == PathBatch(0, lock.simulation.actual)
      estimates == Evaluated(props, paths, ReplayedRally(lock))
      platform == IF \E i \in DOMAIN lock.estimates :
                       lock.estimates[i].platform # NoInteger
                  THEN "sportspredict" ELSE "none"
  IN  [records |-> lock.estimates =
         Records(props, estimates, Recorded(lock, props),
                 Stopping(estimates, lock.simulation.policy), platform),
       summary |-> lock.summary = Summary(props, paths, estimates),
       runtime |-> lock.identity =>
         lock.runtime = [lock.runtime EXCEPT !.chunk = lock.simulation.actual]]
\* HASH_VERIFICATION asks nothing of the simulation; SAME_RUNTIME_EXACT all
\* three; a semantic replay only the probabilities.
Exact(report) == report.records /\ report.summary /\ report.runtime

Replay(i) ==
  /\ phase = "idle" /\ RestoreAccepted(locks[i].record)
  /\ reports' = [reports EXCEPT ![i] =
                   IF Exact(ReplayReport(locks[i])) THEN "reproduced" ELSE "differs"]
  /\ UNCHANGED <<world, chain, request, phase, parameters, batch, inspected,
                 locks, stored>>

ActivateRally ==
  /\ phase = "idle" /\ chain < Len(RallyCutoffs)
  /\ chain' = chain + 1
  /\ UNCHANGED <<world, request, phase, parameters, batch, inspected, locks,
                 stored, reports>>

LockNext ==
  \/ Ask \/ Check \/ Estimate \/ SimulateFixed \/ SimulateCheckpoint \/ Build
  \/ \E i \in DOMAIN locks : Replay(i)
  \/ ActivateRally
LockSpec == LockInit /\ [][LockNext]_lockVars

-----------------------------------------------------------------------------
\* Whatever the checks let through, nothing a lock rests on came to be known
\* after its cutoff: fits, rally counts, facts of the bundle, the quote and,
\* unless it says that its history is retrospective, the sources.  A fit with
\* cutoff t rests on what was known before t.
LocksUseThePast ==
  \A i \in DOMAIN locks :
    LET lock == locks[i]
        snapshot == lock.record.snapshot
        fits == {snapshot.data, snapshot.retirement, snapshot.duration}
                \cup (IF WithStrength(snapshot.framework)
                      THEN {snapshot.anchor, snapshot.integration} ELSE {})
                \cup (IF lock.rally = Absent THEN {} ELSE {RallyCutoffs[lock.rally]})
        known == {t - 1 : t \in fits} \cup lock.information.items
                 \cup {r.available : r \in lock.information.inactivity}
                 \cup (IF lock.vintage = "retrospective" THEN {}
                       ELSE {s.available : s \in {s \in lock.sources :
                                                  s.tour = snapshot.tour}})
    IN  /\ \A t \in known : t < lock.record.context.cutoff
        /\ lock.market.observed <= lock.record.context.cutoff
        /\ lock.market.observed < lock.record.context.start
        /\ lock.market.captured <= lock.record.context.cutoff

\* A replay runs what an adaptive run did in pieces as one batch and takes its
\* diagnostics for final ones; the lock is the same in every field.  (Chunked
\* runs and rally counts are left out here: LocksReproduce shows why.)
ReplayAgrees ==
  \A i \in DOMAIN locks :
    LET lock == locks[i]
        rally == \E k \in DOMAIN lock.estimates : UsesRally(lock.estimates[k].prop)
    IN  lock.runtime.chunk = lock.simulation.actual
        /\ (rally => /\ lock.rally = ReplayedRally(lock)
                     /\ \/ lock.rally = Absent
                        \/ Len(lock.simulation.inspected) <= 1)
          => Exact(ReplayReport(lock)) /\ RestoreAccepted(lock.record)

\* docs/Match_Duration_Model_Implementation.md: "Repeated seeds reproduce
\* duration paths and lock replay exactly."
LocksReproduce == \A i \in DOMAIN reports : reports[i] # "differs"
=============================================================================
