CONSTANTS
  gear = gear
  door = door
  flap = flap
  fuel = fuel
  PortOrder <- MCPortOrder
  Discrete <- MCDiscrete
  Period <- MCPeriod
  Faulty <- MCFaulty
  Values = {0, 1}
  DefaultValue = 0
  Steps <- MCSteps
  MaxTime = 7
SPECIFICATION FairSpec
PROPERTIES SlotIsServed HealthyChangesAreSent
