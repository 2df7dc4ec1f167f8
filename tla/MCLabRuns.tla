----------------------------- MODULE MCLabRuns -----------------------------
(* Instances of LabRuns for TLC. *)
EXTENDS LabRuns

CONSTANTS p1, p2, p3, p4

OnePerEnvironment == <<p1, p2, p3>>
EnvironmentOf ==
  [p \in {p1, p2, p3, p4} |->
     CASE p = p1 -> "lab_train" [] p = p2 -> "lab_calibration" [] OTHER -> "lab_test"]
=============================================================================
