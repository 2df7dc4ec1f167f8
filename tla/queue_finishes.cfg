CONSTANTS
  c1 = c1
  c2 = c2
  u1 = u1
  u2 = u2
  u3 = u3
  w1 = w1
  w2 = w2
  NoJob = NoJob
  MaxAttempts = 2
  Captures <- TwoCaptures
  Uploads <- TwoUploads
  Body <- OtherBody
  Mail <- OneCapture
  Workers <- TwoWorkers
  Faults <- Extraction
SPECIFICATION FairSpec
PROPERTIES JobsFinish SpoolDrains
CHECK_DEADLOCK FALSE
