CONSTANTS
  Programs = {"rally", "history", "sampling", "lock", "store", "walk", "event",
              "snapshots", "elo"}
  Updaters = {u1, u2}
  Candidates <- MCCandidates
  CaptureChoices <- MCCaptureChoices
  FirstSeen <- MCFirstSeen
  FirstCutoff <- MCFirstCutoff
  Cutoffs <- MCCutoffs
  Reports <- MCReports
  Days = 3
  Window = 2
  Weight <- MCWeight
  MinimumStarts = 6
  Threshold = 1
  Coverages <- MCCoverages
  Assertions <- MCAssertions
  Starts = {3}
  MaxReports = 3
  MaxBuilt = 1
  Components <- MCComponents
  WithReturner <- MCWithReturner
  Matchups <- MCMatchups
  Stable <- MCStable
  Sensitive <- MCSensitive
  Hundredth <- MCHundredth
  Requests <- MCRequests
  Worlds <- MCWorlds
  RallyYes <- MCRallyYes
  Checkpoints <- MCCheckpoints
  FixedPaths <- MCFixedPaths
  MinimumSettled = 1
  RallyCutoffs <- MCRallyCutoffs
  MaxLocks = 2
  w1 = w1
  w2 = w2
  w3 = w3
  lockA = lockA
  lockB = lockB
  None = None
  Writers = {w1, w2, w3}
  Operators = {o1}
  ContentOf <- MCContentOf
  Crashes = TRUE
  Faults = TRUE
  Tampering = TRUE
  AgeIsSafe = TRUE
  Tables <- MCTables
  MonthDays = 4
  MonthsInYear = 2
  Embargo = 2
  OuterYears = {4}
  MinSettled = 1
  MaxCrashes = 2
  FeedDays <- MCFeedDays
  Listed <- MCListed
  TourOf <- MCTourOf
  SidesOf <- MCSidesOf
  NameOf <- MCNameOf
  Historical <- MCHistorical
  OutcomesOf <- MCOutcomesOf
  TargetMatch = "women"
  TargetStart = 5
  AskedCutoffs = {3, 5}
  LastInstant = 4
  MaxCaptures = 1
  MaxBuilds = 2
  NotYet = NotYet
  Serve <- MCServe
  TourOrder <- MCTourOrder
  Fits <- MCFits
  LaterFits <- MCLaterFits
  Exposed <- MCExposed
  Configs = {"c"}
  Missing = Missing
  MaxBundles = 7
  MaxStopped = 1
  Histories <- MCHistories
  Names <- MCNames
  EventPairs <- MCEventPairs
  RoundOf <- MCRoundOf
  EventEndings <- MCEventEndings
  EventDate = 4
  EventId = 3
  CutoffDate = 3
  EventSurface = "hard"
  Surfaces = {"hard", "clay"}
  InitialElo = 15
  Scale = 1
  CurveSteps = 3
  Unplayed = Unplayed
  MaxAdvances = 2
SPECIFICATION ProgramSpec
SYMMETRY UpdaterSymmetry
INVARIANTS
  ActiveReadable ForecastsUseThePast
  RebuildAgrees FitsAccepted StartsSeenByBoth
  EffectsEnterOnce
  LocksUseThePast ReplayAgrees
  TargetIsWhole OutcomesTruthful LeftoversListed
  FoldsApart FinishedRunIsWhole
  ReportsTellTheTruth
  SnapshotsNameTheirModel ReportedBundlesAgree
  AdvanceIsRebuild
PROPERTIES
  RegisterSpec
CHECK_DEADLOCK FALSE
