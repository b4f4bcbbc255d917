SPECIFICATION FairSpec
CONSTANTS
  MaxRequests = 4
  Ops = {"open", "work", "close"}
  Slow = {1}
  MayClose <- Ids
  MayPanic = FALSE
CHECK_DEADLOCK FALSE
PROPERTY OthersNotBlocked
