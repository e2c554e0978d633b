SPECIFICATION TimelySpec
CONSTANTS
  w1 = w1
  w2 = w2
  r1 = r1
  r2 = r2
  Workers = {w1, w2}
  Runs = {r1, r2}
  Stale = 2
  TelemetryEnabled = FALSE
  MaxLag = 1
  MaxFaults = 2
SYMMETRY WorkerAndRunSymmetry
INVARIANTS TypeOK OneProcessor AnnouncedIsStored
PROPERTIES KeepsContract
