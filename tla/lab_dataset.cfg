SPECIFICATION Spec
CONSTANTS
  p1 = p1
  p2 = p2
  p3 = p3
  p4 = p4
  Matrix <- OnePerEnvironment
  Others = {p4}
  Legacy = {p2}
  Fragile = {p2}
  Renegotiating = {p4}
  Environment <- EnvironmentOf
  Configs = {"c1", "c2"}
  MaxStarts = 2
INVARIANTS
  TypeOK
  SuccessHasCapture
  MonitorAgrees
  DatasetIsWhole
  ReportedIsStored
PROPERTIES
  RecordedStays
CHECK_DEADLOCK FALSE
