--------------------------- MODULE MCAuthSessions ---------------------------
(* Instances of AuthSessions for TLC. *)
EXTENDS AuthSessions, TLC

CONSTANTS r1, r2, r3, r4

FourRequests == {r1, r2, r3, r4}
Alike == Permutations(FourRequests)
=============================================================================
