CONSTANTS
  a = a
  b = b
  Addresses <- MCAddresses
  Pools <- MCPools
  MaxCommands = 2
SPECIFICATION FairSpec
INVARIANTS NoStaleRegistration RunningIsRegistered AsCommanded
PROPERTIES CreationEnds CommandsAreAnswered
CHECK_DEADLOCK FALSE
