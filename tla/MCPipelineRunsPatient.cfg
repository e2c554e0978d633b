SPECIFICATION PatientLiveSpec
CONSTANTS
  c1 = c1
  c2 = c2
  r1 = r1
  r2 = r2
  summary = summary
  Runs = {r1}
  Calls = {c1, c2}
  RunOf <- SameRun
  Names = {summary}
  NameOf <- OnePipeline
  Plans <- AskOrWrite
  NoPlan = NoPlan
  NoRun = NoRun
  MaxNodes = 2
  TelemetryEnabled = TRUE
  MaxFaults = 2
  MaxLost = 1
  MaxChanges = 0
INVARIANTS CompletedThroughout WaitingForANode
PROPERTIES RefinesLifecycle EveryRunEnds RestartSettles
CHECK_DEADLOCK FALSE
