SPECIFICATION Spec
CONSTANTS
  Leases = {l1, l2}
  NoLease = NoLease
  MaxCaptures = 2
  MaxInFlight = 6
  Aborters = {a1}
  ImagesVisible = TRUE
  DeviceRejects = TRUE
  Sequences = {s1, s2}
  NoSequence = NoSequence
  Counts = {0, 1}
  MaxCompleted = 1
SYMMETRY Symmetry
INVARIANTS
  HealthTellsTheTruth
  ConfigOnlyBetweenExposures
  SidecarNamesHolder
  OneTicker
CHECK_DEADLOCK FALSE
