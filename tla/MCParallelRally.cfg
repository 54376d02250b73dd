CONSTANTS
  first = first
  other = other
  None = None
  Calls = {first, other}
  s1 = s1
  s2 = s2
  SetupChoices <- OneMatch
  PathsOf <- ThreePaths
  SizeOf <- TwoThenOne
  WorkersOf <- AllOne
  PerProcess = 2
  Rally = TRUE
  TreeKill = FALSE
  Interrupts = FALSE
  Faults = FALSE
SPECIFICATION Spec
CHECK_DEADLOCK FALSE
INVARIANTS
  ResultIsSerial
