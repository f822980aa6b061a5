CONSTANTS
  ctl = ctl
  a1 = a1
  a2 = a2
  out = out
  ipA = ipA
  ipB = ipB
  ipO = ipO
  Inputs <- MCInputs
  Outputs <- MCOutputs
  IpOf <- MCIpOf
  PoolOrder <- MCPoolOrder
  Control = ctl
  CreationMayFail = TRUE
  MaxCommands = 2
  MaxPending = 1
SPECIFICATION FairSpec
INVARIANTS SelectSetIsOpen ListenersAreWatched BlocksOnlyIfReplaced
PROPERTY DatagramsAreRead
CHECK_DEADLOCK FALSE
