SPECIFICATION Spec
CONSTANTS
  photo = photo
  video = video
  id1 = id1
  id2 = id2
  c1 = c1
  r1 = r1
  r2 = r2
  NoAsset = NoAsset
  NoJob = NoJob
  NoId = NoId
  Files = {photo, video}
  Assets = {photo, video}
  FileIds = {id1, id2}
  Namings <- OneWay
  FirstNaming <- InOrder
  Callers = {c1}
  Size <- Ones
  Rows = {r1, r2}
  BatchSize = 2
  Concurrency = 2
  MaxStaleAttempts = 1
  MaxCalls = 2
  MaxFaults = 1
SYMMETRY Symmetry
INVARIANTS NoLostWakeup WorkHasJob
PROPERTIES RefinesLifecycle
