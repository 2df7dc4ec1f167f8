-------------------------- MODULE MCAnalysisStore --------------------------
(* Instances of AnalysisStore for TLC. *)
EXTENDS AnalysisStore

CONSTANTS r1, r2, r3, s1, s2

ThreeRequests == {r1, r2, r3}
Alike == Permutations(Requests)
TwoSessions == {s1, s2}
=============================================================================
