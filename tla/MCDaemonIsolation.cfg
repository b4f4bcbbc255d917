SPECIFICATION FairSpec
CONSTANTS
  MaxRequests = 5
  Ops = {"open", "work", "cancel", "close"}
  Slow = {1}
  MayClose <- Others
  MayPanic = FALSE
CHECK_DEADLOCK FALSE
PROPERTY OthersNotBlocked
