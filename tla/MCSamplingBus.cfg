CONSTANTS
  Buses <- MCBuses
  Width = 2
  MaxWrites = 2
  MaxUpsets = 1
  MaxUnread = 2
SPECIFICATION FairSpec
INVARIANTS ReadIsOneWrite LastWriteAccounted NumbersCountEmissions
PROPERTIES ArrivesOnce LastWriteArrives
CHECK_DEADLOCK FALSE
