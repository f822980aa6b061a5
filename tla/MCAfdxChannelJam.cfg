CONSTANTS
  MessageQueueDepth = 2
  ReceiverDepth = 2
  Payloads = {0, 1, 2}
  EmptyPayloads = {}
  Lossy = FALSE
  MaxFailures = 1
  MaxPush = 2
  MaxAhead = 4
SPECIFICATION FairSpec
PROPERTY AcceptedLeavesTheSender
CHECK_DEADLOCK FALSE
