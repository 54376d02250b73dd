CONSTANTS
  first = first
  other = other
  None = None
  Calls = {first, other}
  s1 = s1
  s2 = s2
  SetupChoices <- OneOrTwoMatches
  PathsOf <- ThreePaths
  SizeOf <- TwoThenOne
  WorkersOf <- TwoThenOne
  PerProcess = 1
  Rally = FALSE
  TreeKill = FALSE
  Interrupts = TRUE
  Faults = TRUE
SPECIFICATION FairSpec
CHECK_DEADLOCK FALSE
INVARIANTS
  ResultIsSerial
PROPERTIES
  FailsForReason
  CallsEnd
