SPECIFICATION FairSpec
CONSTANTS
  old = old
  new = new
  None = None
  Chats <- MCChats
  OldChats <- MCOldChats
  Restored <- MCChats
  UpdateConcurrency = 2
  RefreshSeconds = 1
  LinkHoldsAtStart = TRUE
  ClosesSucceed = TRUE
  MaxClock = 3
  MaxMessages = 1
  MaxChanges = 2
  MaxFaults = 1
INVARIANTS TypeOK LiveMeansStored WindowsInHand
PROPERTIES RestoreMeetsLive CoverageResumes
CHECK_DEADLOCK FALSE
