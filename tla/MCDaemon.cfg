SPECIFICATION Spec
CONSTANTS
  MaxRequests = 4
  Ops = {"open-ssh", "work", "close", "cancel", "tunnel-open", "tunnel-close", "shutdown"}
  Slow = {}
  MayClose <- Ids
  MayPanic = TRUE
CHECK_DEADLOCK FALSE
INVARIANT TypeOK
INVARIANT ServedInOrder
INVARIANT CloseDrains
INVARIANT ExitDrains
INVARIANT TunnelOutlivesSession
INVARIANT RegistryPaired
