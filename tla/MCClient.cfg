SPECIFICATION FairSpec
CONSTANTS
  a = a
  b = b
  Conns = {a, b}
  MaxProcs = 2
  MaxRequests = 2
  MaxPending = 2
CHECK_DEADLOCK FALSE
INVARIANT TypeOK
INVARIANT AnsweredOnce
 
PROPERTY EveryRequestSettles
