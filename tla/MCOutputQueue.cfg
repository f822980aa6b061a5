CONSTANTS
  p1 = p1
  p2 = p2
  p3 = p3
  p4 = p4
  NULL = NULL
  Ports <- MCPorts
  Faulty <- TwoFaulty
  Limited <- TwoLimited
SPECIFICATION FairSpec
INVARIANTS ListWellFormed HealthyPendingIsQueued HealthyPushIsNotDropped
PROPERTIES ImplementsFifo
