CONSTANTS
  w1 = w1
  w2 = w2
  w3 = w3
  lockA = lockA
  lockB = lockB
  None = None
  Writers = {w1, w2}
  Operators = {}
  ContentOf <- MCTwoCalls
  Crashes = FALSE
  Faults = FALSE
  Tampering = FALSE
  AgeIsSafe = TRUE
SPECIFICATION Spec
CHECK_DEADLOCK FALSE
INVARIANTS
  ConcurrentOutcomesExpected
