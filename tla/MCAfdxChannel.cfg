CONSTANTS
  MessageQueueDepth = 2
  ReceiverDepth = 1
  Payloads = {0, 1, 2, 3, 4, 5}
  EmptyPayloads = {}
  Lossy = TRUE
  MaxFailures = 1
  MaxPush = 5
  MaxAhead = 5
SPECIFICATION FairSpec
INVARIANTS InPushOrder NothingVanishes
PROPERTIES FourCyclesFit AcceptedIsDelivered RingsAreFifos
CHECK_DEADLOCK FALSE
