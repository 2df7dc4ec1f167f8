-------------------------- MODULE CaptureService --------------------------
(***************************************************************************)
(* What the capture queue promises about each capture, seen through GET    *)
(* /capture-jobs/{id} and /capture-jobs/{id}/sessions: it is accepted      *)
(* once, attempted at most MaxAttempts times, its session rows appear in   *)
(* the same instant as the status "complete", and nothing changes after.   *)
(***************************************************************************)
EXTENDS Naturals

CONSTANTS Captures, MaxAttempts

VARIABLE life  \* what a client can know of each capture

Phase == {"absent", "queued", "running", "complete", "empty", "failed"}
Life == [phase : Phase, spent : 0..MaxAttempts, stored : {"none", "all"}]

Unknown == [phase |-> "absent", spent |-> 0, stored |-> "none"]

Accept(a, b) == a = Unknown /\ b = [a EXCEPT !.phase = "queued"]

(* An attempt starts, also on a job whose last attempt was abandoned.      *)
Attempt(a, b) ==
  /\ a.phase \in {"queued", "running"}
  /\ a.spent < MaxAttempts
  /\ b = [phase |-> "running", spent |-> a.spent + 1, stored |-> a.stored]

Requeue(a, b) == a.phase = "running" /\ b = [a EXCEPT !.phase = "queued"]

Finish(a, b) ==
  /\ a.phase = "running"
  /\ \/ b = [phase |-> "complete", spent |-> a.spent, stored |-> "all"]
     \/ \E p \in {"empty", "failed"} : b = [a EXCEPT !.phase = p]

Move(a, b) == Accept(a, b) \/ Attempt(a, b) \/ Requeue(a, b) \/ Finish(a, b)

Init == life = [c \in Captures |-> Unknown]

(* One step may move several captures: the sweep requeues every lapsed job.*)
Next ==
  /\ life' \in [Captures -> Life]
  /\ \A c \in Captures : life'[c] = life[c] \/ Move(life[c], life'[c])

Spec == Init /\ [][Next]_life
=============================================================================
