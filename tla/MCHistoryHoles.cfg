SPECIFICATION Spec
CONSTANTS
  o1 = o1
  o2 = o2
  c1 = c1
  c2 = c2
  NoJob = NoJob
  NoRequest = NoRequest
  Owners = {o1, o2}
  History <- MCHistory
  Anchored = {o1, o2}
  Requests <- BothWays
  Callers = {c1}
  Present = 6
  PageSize = 2
  MaxTransientAttempts = 1
  MaxAsks = 2
  MaxFaults = 0
INVARIANTS CoveredMeansStored
CHECK_DEADLOCK FALSE
