CONSTANTS
  Stable <- MCStable
  Sensitive <- MCSensitive
  Hundredth <- MCHundredth
  Requests <- MCChunked
  Worlds <- MCWorlds
  RallyYes <- MCRallyYes
  Checkpoints <- MCCheckpoints
  FixedPaths <- MCFixedPaths
  MinimumSettled = 1
  RallyCutoffs <- MCRallyCutoffs
  MaxLocks = 1
SPECIFICATION LockSpec
INVARIANT LocksReproduce
CHECK_DEADLOCK FALSE
