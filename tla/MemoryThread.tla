--------------------------- MODULE MemoryThread ---------------------------
(***************************************************************************)
(* What the memory of one agent thread promises: each revision is built on *)
(* the one before it, a completed step is never forgotten, and the agent   *)
(* leaves its active step only when that step is completed.                *)
(***************************************************************************)
EXTENDS Naturals

CONSTANTS Steps, NoStep

VARIABLES revision, memory

Memory == [completed : SUBSET Steps, active : Steps \cup {NoStep}]

Blank == [completed |-> {}, active |-> NoStep]

Advances(m, n) ==
  /\ m.completed \subseteq n.completed
  /\ n.active = m.active \/ m.active \in n.completed \cup {NoStep}

Init == revision = 0 /\ memory = Blank

Write ==
  /\ revision' = revision + 1
  /\ memory' \in Memory
  /\ Advances(memory, memory')

Spec == Init /\ [][Write]_<<revision, memory>>
=============================================================================
