SPECIFICATION LiveSpec
CONSTANTS
  photo = photo
  video = video
  id1 = id1
  id2 = id2
  c1 = c1
  r1 = r1
  r2 = r2
  NoAsset = NoAsset
  NoJob = NoJob
  NoId = NoId
  Files = {photo, video}
  Assets = {photo}
  FileIds = {id1, id2}
  Namings <- EitherWay
  FirstNaming <- InOrder
  Callers = {c1}
  Size <- Sizes
  Rows = {r1}
  BatchSize = 2
  Concurrency = 2
  MaxStaleAttempts = 2
  MaxCalls = 1
  MaxFaults = 2
INVARIANTS TypeOK
PROPERTIES JobsMoveOn
