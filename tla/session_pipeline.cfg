SPECIFICATION Spec
CONSTANTS
  Connections <- MCConnections
  LabProtocols = {"SMTP", "IMAP", "POP3"}
  MaxLost = 1
  Outputs <- MCOutputs
  Calibrations <- MCCalibrations
  Configs <- MCConfigs
INVARIANTS
  TypeOK
  SuccessHasFinished
  ExtractionIsValid
  RefusalSeen
  DeprecatedReviewed
  SecrecyLossFlagged
  FloorKept
  PostureAgrees
  LabelsFollowRules
  LabFindsExpected
CHECK_DEADLOCK FALSE
