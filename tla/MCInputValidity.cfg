CONSTANTS
  bus = bus
  wire = wire
  nad = nad
  q1 = q1
  s1 = s1
  w1 = w1
  n1 = n1
  InputPorts <- MCPorts
  MessageList <- MCMessageList
  Queuing <- MCQueuing
  WiredPorts <- MCWiredPorts
  NadPorts <- MCNadPorts
  Durations <- MCDurations
  Steps <- MCSteps
  MaxTime = 5
SPECIFICATION ValiditySpec
INVARIANTS ValidMeansFresh
PROPERTY NoSpontaneousValidity
