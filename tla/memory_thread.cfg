CONSTANTS
  r1 = r1
  r2 = r2
  r3 = r3
  s1 = s1
  s2 = s2
  NoStep = NoStep
  MaxSteps = 1
  Requests <- ThreeRequests
  Steps <- TwoSteps
  Faults <- Everything
SPECIFICATION FairSpec
INVARIANTS
  IndInv
  ClaimsHold
PROPERTIES
  ThreadSpec
  EveryRequestEnds
CHECK_DEADLOCK FALSE
