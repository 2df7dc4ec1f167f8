SPECIFICATION Spec
CONSTANTS
  r1 = r1
  r2 = r2
  r3 = r3
  r4 = r4
  Requests <- FourRequests
  Emails = {"a", "b"}
SYMMETRY Alike
INVARIANTS
  TypeOK
  RegisteredOnce
  AcceptedWasLive
  LogoutRevokes
CHECK_DEADLOCK FALSE
