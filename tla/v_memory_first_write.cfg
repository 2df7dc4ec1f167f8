CONSTANTS
  r1 = r1
  r2 = r2
  r3 = r3
  s1 = s1
  s2 = s2
  NoStep = NoStep
  MaxSteps = 2
  Requests <- TwoRequests
  Steps <- TwoSteps
  Faults <- NoFaults
SPECIFICATION Spec
INVARIANT AnswerSurvives
CHECK_DEADLOCK FALSE
