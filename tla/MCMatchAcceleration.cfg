CONSTANTS
  BestOf = 3
  GamePoints = 2
  SetGames = 2
  TiebreakTarget = 2
  DecidingTarget = 3
  DeuceCap = 0
  TiebreakCap = 2
  MaxPoints = 13
  None = None
  PossibleResults <- FourResults
  Retirements = {1}
  Accelerates = TRUE
  MaxCycles = 1
SPECIFICATION SimulationSpec
CONSTRAINT Bound
CHECK_DEADLOCK FALSE
INVARIANTS
  StatsFollowScore
