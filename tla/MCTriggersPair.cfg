SPECIFICATION TimelySpec
CONSTANTS
  w1 = w1
  w2 = w2
  daily = daily
  pipelinesOwner = pipelinesOwner
  Workers = {w1, w2}
  Registrations = {daily}
  Owners = {pipelinesOwner}
  OwnerOf <- OneOwner
  Schedules <- Every2
  LeaseSeconds = 2
  LookbackSeconds = 1
  MaxDispatchAttempts = 2
  ClaimLimit = 2
  NoWorker = NoWorker
  NoStart = NoStart
  NoRegistration = NoRegistration
  QueueWait = 1
  MaxClock = 3
  MaxFaults = 1
  MaxReplacements = 2
SYMMETRY WorkerSymmetry
INVARIANTS HolderOwnsRow AcceptedHasRun
PROPERTIES RefinesLifecycle
