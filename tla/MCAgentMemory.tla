--------------------------- MODULE MCAgentMemory ---------------------------
(* Instances of AgentMemory for TLC. *)
EXTENDS AgentMemory

CONSTANTS r1, r2, r3, s1, s2

TwoRequests == {r1, r2}
ThreeRequests == {r1, r2, r3}
TwoSteps == {s1, s2}

NoFaults == {}
Everything == FaultKinds
=============================================================================
