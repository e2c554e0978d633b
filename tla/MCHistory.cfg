SPECIFICATION LiveSpec
CONSTANTS
  o1 = o1
  o2 = o2
  c1 = c1
  c2 = c2
  NoJob = NoJob
  NoRequest = NoRequest
  Owners = {o1, o2}
  History <- MCHistory
  Anchored = {o1, o2}
  Requests <- RangesAndPages
  Callers = {c1, c2}
  Present = 6
  PageSize = 3
  MaxTransientAttempts = 1
  MaxAsks = 2
  MaxFaults = 1
INVARIANTS TypeOK CoveredMeansStored
PROPERTIES CoverageOnlyGrows CompletedMeansReady JobsSettle
CHECK_DEADLOCK FALSE
