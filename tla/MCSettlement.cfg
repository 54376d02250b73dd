CONSTANTS
  Props <- MCProps
  LopsidedGames = 0
  BestOf = 3
  GamePoints = 2
  SetGames = 2
  TiebreakTarget = 2
  DecidingTarget = 3
  DeuceCap = 1
  TiebreakCap = 2
  MaxPoints = 18
  None = None
  PossibleResults <- AcesAndFaults
  Retirements = {0, 1}
  Accelerates = FALSE
  MaxCycles = 0
SPECIFICATION SimulationSpec
CONSTRAINT Bound
CHECK_DEADLOCK FALSE
INVARIANTS
  PathAccepted
  RecordsSettleAsPaths
PROPERTIES
  SettlementIsFinal
