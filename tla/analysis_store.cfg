SPECIFICATION Spec
CONSTANTS
  r1 = r1
  r2 = r2
  r3 = r3
  s1 = s1
  s2 = s2
  Requests <- ThreeRequests
  Sessions <- TwoSessions
  MaxStored = 2
  Limit = 1
SYMMETRY Alike
INVARIANTS
  TypeOK
  AnsweredStored
  LinkNamesStored
  StatsAgree
  ListComplete
CHECK_DEADLOCK FALSE
