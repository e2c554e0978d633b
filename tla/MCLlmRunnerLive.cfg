SPECIFICATION LiveSpec
CONSTANTS
  w1 = w1
  w2 = w2
  r1 = r1
  r2 = r2
  Workers = {w1, w2}
  Runs = {r1}
  Stale = 2
  TelemetryEnabled = TRUE
  MaxLag = 1
  MaxFaults = 2
PROPERTIES EveryRunEnds
