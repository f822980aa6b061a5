CONSTANTS
  BusOrder <- MCBusOrder
  InLabels <- MCInLabels
  Depth <- MCDepth
  ReceiverDepth <- MCReceiverDepth
  Room = 2
  ReceiverRooms <- MCReceiverRooms
  MaxUpsets <- MCMaxUpsets
  MaxWords <- MCMaxWords
SPECIFICATION FairSpec
INVARIANTS InPushOrder NothingVanishes
PROPERTIES FullBeforeLeftBehind AcceptedIsDelivered
CHECK_DEADLOCK FALSE
