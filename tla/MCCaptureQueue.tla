-------------------------- MODULE MCCaptureQueue --------------------------
(* Instances of CaptureQueue for TLC. *)
EXTENDS CaptureQueue, TLC

CONSTANTS c1, c2, u1, u2, u3, w1, w2

OneCapture == {c1}
TwoCaptures == {c1, c2}
OneUpload == {u1}
TwoUploads == {u1, u2}
ThreeUploads == {u1, u2, u3}
OneWorker == {w1}
TwoWorkers == {w1, w2}

SameBody == [u \in Uploads |-> c1]
OtherBody == [u \in Uploads |-> IF u = u1 THEN c2 ELSE c1]

NoFaults == {}
Extraction == {"extract"}
Kills == {"extract", "crash", "api_crash"}
Abandon == {"extract", "crash", "interrupt", "api_crash", "api_database"}
Crashes == {"crash"}
Database == {"database"}
Everything == FaultKinds
=============================================================================
