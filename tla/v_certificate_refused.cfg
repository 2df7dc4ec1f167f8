SPECIFICATION Spec
CONSTANTS
  Connections <- MCConnections
  LabProtocols = {"SMTP", "IMAP", "POP3"}
  MaxLost = 1
  Outputs <- MCOutputs
  Calibrations <- MCCalibrations
  Configs <- MCConfigs
INVARIANT HandedOutAccepted
CHECK_DEADLOCK FALSE
