CONSTANTS
  c1 = c1
  c2 = c2
  u1 = u1
  u2 = u2
  u3 = u3
  w1 = w1
  w2 = w2
  NoJob = NoJob
  MaxAttempts = 2
  Captures <- OneCapture
  Uploads <- ThreeUploads
  Body <- SameBody
  Mail <- OneCapture
  Workers <- TwoWorkers
  Faults <- Abandon
SPECIFICATION Spec
INVARIANTS TypeOK SingleOwner ResultsMatch UploadIdempotent IndInv
CHECK_DEADLOCK FALSE
