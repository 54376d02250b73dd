CONSTANTS
  r1 = r1
  r2 = r2
  e1 = e1
  e2 = e2
  a1 = a1
  m1 = m1
  m2 = m2
  m3 = m3
  p = p
  q = q
  None = None
  Runs = {r1, r2}
  Editors = {e1, e2}
  Readers = {a1}
  Clients <- MCClients
  RunIdOf <- MCRunIdOf
  SetupChoices <- MCSetupChoices
  Props <- MCProps
  CutoffOf <- MCEarlyCutoffOf
  Snapshots <- MCSnapshots
  Versions = {"corrected"}
SPECIFICATION Spec
CHECK_DEADLOCK FALSE
INVARIANTS
  SnapshotsPrecedeCutoffs
