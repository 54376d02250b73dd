CONSTANTS
  Programs = {"scoring", "sheet", "counts", "ingestion", "fit"}
  BestOf = 3
  GamePoints = 2
  SetGames = 2
  TiebreakTarget = 2
  DecidingTarget = 3
  None = None
  DeuceCap = 1
  TiebreakCap = 2
  MaxMatchPoints = 24
  Tokens <- MCTokens
  Lengths = {3, 5}
  MaxMistakes = 1
  MaxPoints = 3
  MaxErrors = 2
  Wrong <- MCWrong
  RawRows <- MCRawRows
  Results <- MCResults
  KeysOf <- MCKeysOf
  AvailabilityLag = 1
  DaysBefore = 1
  DaysAfter = 2
  LastDay = 3
  CoverageDays = {1, 2}
  MaxRows = 3
  MaxDatasets = 1
  Rank <- MCRank
  OpponentComponents = {"A", "Q1", "Q2"}
  EventComponents = {"Q1"}
  IndoorHard = TRUE
  Bundles = {"b1", "b2"}
  CountRows <- MCCountRows
  FitCutoffs = {3, 4, 5}
  WindowDays = 3
  MaxCountRows = 3
  MaxFits = 1
SPECIFICATION DataSpec
CONSTRAINT Bound
CHECK_DEADLOCK FALSE
INVARIANTS
  SheetsAccepted CountsAreOfPoints
  TrainingKeepsToCutoff EarlierHistoryStable DatesAreTheirOwn
  FitsKeepToCutoff PredictionFollowsDesign
PROPERTIES
  ServiceAlternates RaceSpec
