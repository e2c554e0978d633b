SPECIFICATION LiveSpec
CONSTANTS
  w1 = w1
  w2 = w2
  daily = daily
  pipelinesOwner = pipelinesOwner
  Workers = {w1}
  Registrations = {daily}
  Owners = {pipelinesOwner}
  OwnerOf <- OneOwner
  Schedules <- Every2OrStart1
  LeaseSeconds = 1
  LookbackSeconds = 1
  MaxDispatchAttempts = 2
  ClaimLimit = 1
  NoWorker = NoWorker
  NoStart = NoStart
  NoRegistration = NoRegistration
  QueueWait = 1
  MaxClock = 2
  MaxFaults = 1
  MaxReplacements = 2
INVARIANTS TypeOK
PROPERTIES NoneCreatedAfterRemoval MissedPeriodsMadeUp EveryOccurrenceSettles
