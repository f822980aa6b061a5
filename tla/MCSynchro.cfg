CONSTANTS
  PeriodUs = 2
  StepCounts <- MCStepCounts
  Overlap = TRUE
  ResetAllowed = TRUE
  MaxRequests = 4
SPECIFICATION FairSpec
INVARIANTS AnsweredWhenDue EnoughSteps
PROPERTIES NoEarlyAnswer StepsAreAnswered
CHECK_DEADLOCK FALSE
