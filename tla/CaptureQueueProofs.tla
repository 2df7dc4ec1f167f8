------------------------ MODULE CaptureQueueProofs ------------------------
(* Theorems about CaptureQueue, for every value of its constants. *)
EXTENDS CaptureQueue, FiniteSetTheorems, TLAPS

LEMMA CreatedType == Cardinality({c \in Captures : Exists(c)}) + 1 \in Nat
<1>1. IsFiniteSet({c \in Captures : Exists(c)})
  BY FS_Subset, QueueAssumption
<1>2. QED
  BY <1>1, FS_CardinalityType

LEMMA MaxNat == MaxAttempts \in Nat /\ 0 \in 0..MaxAttempts
BY QueueAssumption

LEMMA InitType == Init => TypeOK
BY QueueAssumption DEF Init, TypeOK, NoRow, Idle, Job, Task, Status, Terminal,
   Exts, NoPath, ReqState, InFlight

LEMMA SweptType ==
  ASSUME TypeOK
  PROVE  Swept \in [Captures -> Job]
<1>1. \A c \in Captures : [job[c] EXCEPT !.status = "queued", !.lease = "none"] \in Job
  BY DEF TypeOK, Job, Status
<1>2. QED
  BY <1>1 DEF TypeOK, Swept

LEMMA UploadType ==
  ASSUME TypeOK, NEW u \in Uploads, UploadStep(u)
  PROVE  TypeOK'
<1> USE QueueAssumption DEF TypeOK, ReqState, InFlight, Exts
<1>1. CASE Receive(u)
  BY <1>1 DEF Receive, Goto, tables
<1>2. CASE Reject(u)
  BY <1>2 DEF Reject, Goto, tables
<1>3. CASE FindExisting(u)
  BY <1>3 DEF FindExisting, Goto, tables
<1>4. CASE FindNone(u)
  BY <1>4 DEF FindNone, Goto, tables
<1>5. CASE Place(u)
  BY <1>5 DEF Place, Goto, tables, FinalFile
<1>6. ASSUME InsertJob(u)
      PROVE  job' \in [Captures -> Job]
  BY <1>6, CreatedType DEF InsertJob, Job, Status
<1>7. CASE Insert(u)
  BY <1>6, <1>7 DEF Insert, InsertJob, Goto
<1>8. CASE InsertConflict(u)
  BY <1>8 DEF InsertConflict, Goto, tables
<1>9. CASE ConflictCleanup(u)
  BY <1>9 DEF ConflictCleanup, Goto, tables
<1>10. CASE UploadFault(u)
  BY <1>10 DEF UploadFault, tables
<1>11. CASE InsertUnacknowledged(u)
  BY <1>6, <1>11 DEF InsertUnacknowledged, InsertJob, Goto
<1>12. CASE Unwind(u)
  BY <1>12 DEF Unwind, Goto, tables
<1>13. QED
  BY <1>1, <1>2, <1>3, <1>4, <1>5, <1>7, <1>8, <1>9, <1>10, <1>11, <1>12
  DEF UploadStep

LEMMA StartedType ==
  ASSUME NEW j \in Job, Claimable(j)
  PROVE  Started(j) \in Job /\ j.attempts + 1 \in 1..MaxAttempts
<1> DEFINE n == j.attempts + 1
<1>1. n \in 1..MaxAttempts /\ n \in 0..MaxAttempts
  BY MaxNat DEF Claimable, Job
<1>2. Started(j) = [j EXCEPT !.status = "running", !.attempts = n,
                             !.lease = "fresh"]
  BY DEF Started
<1> HIDE DEF n
<1>3. [j EXCEPT !.status = "running", !.attempts = n, !.lease = "fresh"] \in Job
  BY <1>1 DEF Job, Status
<1>4. QED
  BY <1>1, <1>2, <1>3 DEF n

LEMMA FlushedType ==
  ASSUME NEW j \in Job, NEW s, NEW new \in Status, NEW p \in Exts \cup {NoPath}
  PROVE  Flushed(j, s, new, p) \in Job
BY DEF Flushed, Job

LEMMA WorkerType ==
  ASSUME TypeOK, BusyInv, NEW w \in Workers,
         WorkerStep(w) \/ Crash(w) \/ Interrupt(w)
  PROVE  TypeOK'
<1>t. /\ task \in [Workers -> Task]
      /\ job \in [Captures -> Job]
      /\ rows \in [Captures -> 0..MaxAttempts]
  BY DEF TypeOK
<1>w. task[w] \in Task
  BY <1>t
<1>j. task[w].pc # "idle" => task[w].job \in Captures
  BY <1>t DEF BusyInv, Task
<1>i. Idle \in Task
  BY MaxNat DEF Idle, Task, Exts, NoPath, Status
<1>p. ASSUME NEW t \in Task, task' = [task EXCEPT ![w] = t]
      PROVE  task' \in [Workers -> Task]
  BY <1>t, <1>p
(* What a worker step may do to the variables it does not own.             *)
<1>f. ASSUME task' \in [Workers -> Task],
             job' \in [Captures -> Job],
             rows' \in [Captures -> 0..MaxAttempts],
             files' = files \/ files' = files \ {InputFile(w)},
             UNCHANGED handlers
      PROVE  TypeOK'
  BY <1>f DEF TypeOK, handlers
<1>1. CASE Claim(w)
  <2>1. PICK c \in Captures :
          /\ Claimable(Swept[c])
          /\ job' = [Swept EXCEPT ![c] = Started(Swept[c])]
          /\ task' = [task EXCEPT
               ![w] = [Idle EXCEPT !.pc = "claimed", !.job = c,
                                   !.try = Swept[c].attempts + 1]]
    BY <1>1 DEF Claim
  <2>2. /\ Started(Swept[c]) \in Job
        /\ Swept[c].attempts + 1 \in 0..MaxAttempts
    BY <2>1, SweptType, StartedType
  <2>3. job' \in [Captures -> Job]
    BY <2>1, <2>2, SweptType
  <2> DEFINE t == [Idle EXCEPT !.pc = "claimed", !.job = c, !.try = Swept[c].attempts + 1]
  <2>4. t \in Task
    BY <2>2, <1>i DEF Task
  <2>5. task' \in [Workers -> Task]
    BY <1>p, <2>1, <2>4
  <2>6. QED
    BY <1>t, <1>f, <1>1, <2>3, <2>5 DEF Claim
<1>2. CASE Sweep(w)
  BY <1>2, <1>t, <1>f, SweptType DEF Sweep
<1>3. CASE ReadJob(w)
  <2>1. job[task[w].job].path \in Exts \cup {NoPath}
    BY <1>t, <1>j, <1>3 DEF ReadJob, Job
  <2>2. [task[w] EXCEPT !.pc = "located", !.path = job[task[w].job].path] \in Task
    BY <1>w, <2>1 DEF Task
  <2>3. task' \in [Workers -> Task]
    BY <1>t, <1>i, <1>3, <2>2 DEF ReadJob
  <2>4. QED
    BY <1>3, <2>3, <1>t, <1>f DEF ReadJob, tables
<1>4. CASE CheckFile(w)
  <2> DEFINE next == IF InputFile(w) \in files THEN "extracting" ELSE "failing"
             t == [task[w] EXCEPT !.pc = next]
  <2>1. next \in {"extracting", "failing"}
    OBVIOUS
  <2>2. task' = [task EXCEPT ![w] = t]
    BY <1>4 DEF CheckFile
  <2> HIDE DEF next
  <2>3. t \in Task
    BY <1>w, <2>1 DEF Task
  <2>4. task' \in [Workers -> Task]
    BY <1>p, <2>2, <2>3
  <2>5. QED
    BY <1>4, <2>4, <1>t, <1>f DEF CheckFile, tables
<1>5. CASE Extract(w)
  <2> DEFINE t == [task[w] EXCEPT !.pc = "extracted", !.unlinks = TRUE]
  <2>0. t \in Task
    BY <1>w DEF Task
  <2>1. task' \in [Workers -> Task]
    BY <1>p, <1>5, <2>0 DEF Extract
  <2>2. QED
    BY <1>5, <2>1, <1>t, <1>f DEF Extract, tables
<1>6. CASE ExtractFails(w)
  <2>1. [task[w] EXCEPT !.pc = "failing", !.retry = TRUE] \in Task
    BY <1>w DEF Task
  <2>2. task' \in [Workers -> Task]
    BY <1>p, <1>6, <2>1 DEF ExtractFails
  <2>3. QED
    BY <1>6, <2>2, <1>t, <1>f DEF ExtractFails, tables
<1>7. CASE PersistBegin(w)
  <2>1. job[task[w].job].status \in Status /\ rows[task[w].job] \in 0..MaxAttempts
    BY <1>t, <1>j, <1>7 DEF PersistBegin, Job
  <2> DEFINE t == [task[w] EXCEPT !.pc = "persisting", !.seen = job[task[w].job].status,
                                  !.base = rows[task[w].job]]
  <2>2. t \in Task
    BY <1>w, <2>1 DEF Task
  <2>3. task' \in [Workers -> Task]
    BY <1>p, <2>2, <1>7 DEF PersistBegin
  <2>4. QED
    BY <1>7, <2>3, <1>t, <1>f DEF PersistBegin, tables
<1>8. ASSUME NEW next \in {"cleanup", "failing"}, Persist(w, next)
      PROVE  TypeOK'
  <2>0. [task[w] EXCEPT !.pc = next, !.retry = TRUE] \in Task
    BY <1>w DEF Task
  <2>1. task' \in [Workers -> Task]
    BY <1>p, <1>8, <2>0 DEF Persist
  <2>2. job' \in [Captures -> Job]
    <3>1. /\ task[w].job \in Captures
          /\ {"complete", "empty"} \subseteq Status
          /\ NoPath \in Exts \cup {NoPath}
      BY <1>j, <1>8 DEF Persist, Status, Terminal
    <3>2. QED
      BY <1>t, <1>8, <3>1, FlushedType DEF Persist
  <2>3. rows' \in [Captures -> 0..MaxAttempts]
    BY <1>t, <1>j, <1>8, MaxNat DEF Persist, Task
  <2>4. QED
    BY <1>8, <2>1, <2>2, <2>3, <1>f DEF Persist
<1>9. CASE PersistCommit(w) \/ PersistUnacknowledged(w)
  BY <1>8, <1>9 DEF PersistCommit, PersistUnacknowledged
<1>10. CASE PersistFails(w)
  <2> DEFINE t == [task[w] EXCEPT !.pc = "failing", !.retry = TRUE]
  <2>0. t \in Task
    BY <1>w DEF Task
  <2>1. task' \in [Workers -> Task]
    BY <1>p, <1>10, <2>0 DEF PersistFails
  <2>2. QED
    BY <1>10, <2>1, <1>t, <1>f DEF PersistFails, tables
<1>11. CASE Cleanup(w)
  BY <1>i, <1>t, <1>f, <1>11 DEF Cleanup, tables
<1>12. CASE FailRead(w)
  <2>1. job[task[w].job].status \in Status
    BY <1>t, <1>j, <1>12 DEF FailRead, Job
  <2> DEFINE j == job[task[w].job]
             again == task[w].retry /\ j.attempts < MaxAttempts
             next == IF again \/ j.path = NoPath THEN "reporting" ELSE "purging"
  <2>2. again \in BOOLEAN /\ next \in {"reporting", "purging"}
    OBVIOUS
  <2>3. task' = [task EXCEPT ![w] =
          [task[w] EXCEPT !.retry = again, !.seen = j.status, !.pc = next]]
    BY <1>12 DEF FailRead
  <2> HIDE DEF again, next
  <2>4. [task[w] EXCEPT !.retry = again, !.seen = j.status, !.pc = next] \in Task
    BY <1>w, <2>1, <2>2 DEF Task
  <2>5. task' \in [Workers -> Task]
    BY <1>p, <2>3, <2>4
  <2>6. QED
    BY <1>12, <2>5, <1>t, <1>f DEF FailRead, tables
<1>13. CASE Purge(w)
  <2>1. task' \in [Workers -> Task]
    BY <1>t, <1>13 DEF Purge, Task
  <2>2. QED
    BY <1>13, <2>1, <1>t, <1>f DEF Purge, tables
<1>14. ASSUME Return(w)
       PROVE  task' \in [Workers -> Task]
  BY <1>t, <1>i, <1>14 DEF Return, Task
<1>15. CASE Report(w)
  <2>1. job' \in [Captures -> Job]
    <3>1. /\ task[w].job \in Captures
          /\ {"queued", "failed"} \subseteq Status
      BY <1>j, <1>15 DEF Report, Status, Terminal
    <3>2. {job[task[w].job].path, NoPath} \subseteq Exts \cup {NoPath}
      BY <1>t, <3>1 DEF Job
    <3>3. QED
      BY <1>t, <1>15, <3>1, <3>2, FlushedType DEF Report
  <2>2. QED
    BY <1>14, <1>15, <2>1, <1>t, <1>f DEF Report
<1>16. CASE WorkerFault(w)
  BY <1>14, <1>16, <1>t, <1>f DEF WorkerFault, tables
<1>17. CASE Crash(w) \/ Interrupt(w)
  BY <1>i, <1>17, <1>t, <1>f DEF Crash, Interrupt, tables
<1>18. QED
  BY <1>1, <1>2, <1>3, <1>4, <1>5, <1>6, <1>7, <1>9, <1>10, <1>11, <1>12,
     <1>13, <1>15, <1>16, <1>17 DEF WorkerStep

LEMMA LapseType ==
  ASSUME TypeOK, NEW c \in Captures, LeaseLapse(c)
  PROVE  TypeOK'
BY DEF TypeOK, LeaseLapse, Job, handlers

LEMMA ApiCrashType ==
  ASSUME TypeOK, ApiCrash
  PROVE  TypeOK'
BY DEF TypeOK, ApiCrash, ReqState, tables

LEMMA NextType ==
  ASSUME TypeOK, BusyInv, [Next]_vars
  PROVE  TypeOK'
<1>1. CASE UNCHANGED vars
  BY <1>1 DEF TypeOK, vars
<1>2. QED
  BY <1>1, UploadType, WorkerType, LapseType, ApiCrashType DEF Next

---------------------------------------------------------------------------
(* Most worker steps touch neither table.                                  *)

Loaded == {"persisting", "purging", "reporting"}

(* The worker lets its job go or works on; what it has loaded of the job   *)
(* is the present status or what it had loaded before.                     *)
Quiet(w) ==
  /\ UNCHANGED tables
  /\ \A v \in Workers \ {w} : task'[v] = task[v]
  /\ task'[w].pc = "idle" <=> task'[w].job = NoJob
  /\ \/ task'[w].job = NoJob
     \/ /\ task'[w].job = task[w].job
        /\ task'[w].try = task[w].try
        /\ task[w].pc = "cleanup" => task'[w].pc = "cleanup"
        /\ task'[w].pc \in Loaded =>
             \/ task'[w].seen = job[task[w].job].status
             \/ task'[w].seen = task[w].seen /\ task[w].pc \in Loaded

QuietStep(w) ==
  \/ ReadJob(w) \/ CheckFile(w) \/ Extract(w) \/ ExtractFails(w)
  \/ PersistBegin(w) \/ PersistFails(w) \/ Cleanup(w)
  \/ FailRead(w) \/ Purge(w) \/ WorkerFault(w) \/ Crash(w) \/ Interrupt(w)

LEMMA QuietSteps ==
  ASSUME TypeOK, BusyInv, NEW w \in Workers, QuietStep(w)
  PROVE  Quiet(w)
<1>t. /\ task \in [Workers -> Task]
      /\ task[w].pc # "idle" => task[w].job # NoJob
  BY DEF TypeOK, BusyInv
<1>i. Idle.pc = "idle" /\ Idle.job = NoJob
  BY DEF Idle
<1>e. ASSUME UNCHANGED tables, task' = [task EXCEPT ![w] = Idle]
      PROVE  Quiet(w)
  BY <1>t, <1>i, <1>e DEF Quiet
<1>1. CASE ReadJob(w)
  <2>1. CASE job[task[w].job].status = "running"
    BY <1>1, <1>t, <2>1 DEF ReadJob, Quiet, Loaded, Task
  <2>2. CASE job[task[w].job].status # "running"
    BY <1>1, <1>e, <2>2 DEF ReadJob
  <2>3. QED
    BY <2>1, <2>2
<1>2. CASE CheckFile(w)
  BY <1>2, <1>t DEF CheckFile, Quiet, Loaded, Task
<1>3. CASE Extract(w)
  BY <1>3, <1>t DEF Extract, Quiet, Loaded, Task
<1>4. CASE ExtractFails(w)
  BY <1>4, <1>t DEF ExtractFails, Quiet, Loaded, Task
<1>5. CASE PersistBegin(w)
  BY <1>5, <1>t DEF PersistBegin, Quiet, Loaded, Task
<1>6. CASE PersistFails(w)
  BY <1>6, <1>t DEF PersistFails, Quiet, Loaded, Task
<1>7. CASE Cleanup(w)
  BY <1>7, <1>e DEF Cleanup
<1>8. CASE FailRead(w)
  BY <1>8, <1>t DEF FailRead, Quiet, Loaded, Task
<1>9. CASE Purge(w)
  BY <1>9, <1>t DEF Purge, Quiet, Loaded, Task
<1>10. CASE WorkerFault(w)
  <2>1. CASE task[w].unlinks
    BY <1>10, <1>t, <2>1 DEF WorkerFault, Return, Quiet, Loaded, Task
  <2>2. CASE ~task[w].unlinks
    BY <1>10, <1>e, <2>2 DEF WorkerFault, Return
  <2>3. QED
    BY <2>1, <2>2
<1>11. CASE Crash(w) \/ Interrupt(w)
  BY <1>11, <1>e DEF Crash, Interrupt
<1>12. QED
  BY <1>1, <1>2, <1>3, <1>4, <1>5, <1>6, <1>7, <1>8, <1>9, <1>10, <1>11
  DEF QuietStep

LEMMA QuietInv ==
  ASSUME IndInv, NEW w \in Workers, Quiet(w), TypeOK'
  PROVE  IndInv'
<1> USE DEF Quiet, tables
<1>1. BusyInv'
  BY DEF IndInv, BusyInv, Exists
<1>2. AttemptInv'
  BY QueueAssumption DEF IndInv, AttemptInv, AttemptExclusive
<1>o. \A v \in Workers, c \in Captures : Owns(v, c)' => Owns(v, c)
  BY QueueAssumption DEF Owns
<1>3. LeaseInv'
  BY <1>o DEF IndInv, LeaseInv, SingleOwner
<1>4. ReadInv'
  BY <1>o, QueueAssumption DEF IndInv, ReadInv, ResultsMatch, Loaded, Owns
<1>5. QED
  BY <1>1, <1>2, <1>3, <1>4 DEF IndInv

---------------------------------------------------------------------------
(* The steps that touch the tables.                                        *)

LEMMA InsertInv ==
  ASSUME IndInv, NEW u \in Uploads, InsertJob(u), TypeOK'
  PROVE  IndInv'
<1>t. /\ Body[u] \in Captures
      /\ job \in [Captures -> Job]
      /\ ~Exists(Body[u])
      /\ UNCHANGED <<rows, task>>
  BY QueueAssumption DEF IndInv, TypeOK, InsertJob
<1>j. /\ \A c \in Captures : c # Body[u] => job'[c] = job[c]
      /\ job'[Body[u]].status = "queued" /\ job'[Body[u]].attempts = 0
  BY <1>t DEF InsertJob
<1>f. job[Body[u]].status = "absent" /\ job[Body[u]].attempts = 0
  BY <1>t DEF IndInv, BusyInv, Exists
<1>1. BusyInv'
  BY <1>t, <1>j, <1>f DEF IndInv, BusyInv, Exists
<1>2. AttemptInv'
  BY <1>t, <1>j, <1>f DEF IndInv, AttemptInv, AttemptExclusive
<1>3. LeaseInv'
  BY <1>t, <1>j, <1>f DEF IndInv, LeaseInv, SingleOwner, Owns, Terminal
<1>4. ReadInv'
  BY <1>t, <1>j, <1>f DEF IndInv, ReadInv, ResultsMatch, Owns
<1>5. QED
  BY <1>1, <1>2, <1>3, <1>4 DEF IndInv

LEMMA LapseInv ==
  ASSUME IndInv, NEW c \in Captures, LeaseLapse(c), TypeOK'
  PROVE  IndInv'
<1>t. job \in [Captures -> Job] /\ UNCHANGED <<rows, task>>
  BY DEF IndInv, TypeOK, LeaseLapse
<1>j. \A d \in Captures :
        /\ job'[d].status = job[d].status
        /\ job'[d].attempts = job[d].attempts
        /\ d # c => job'[d].lease = job[d].lease
  BY <1>t DEF LeaseLapse, Job
<1>1. BusyInv'
  BY <1>t, <1>j DEF IndInv, BusyInv, Exists
<1>2. AttemptInv'
  BY <1>t, <1>j DEF IndInv, AttemptInv, AttemptExclusive, TypeOK, Task
<1>3. LeaseInv'
  BY <1>t, <1>j DEF IndInv, LeaseInv, SingleOwner, Owns, LeaseLapse
<1>4. ReadInv'
  BY <1>t, <1>j DEF IndInv, ReadInv, ResultsMatch, Owns
<1>5. QED
  BY <1>1, <1>2, <1>3, <1>4 DEF IndInv

(* The sweep leaves every job as it is, or requeues it with its attempts;  *)
(* a job that a worker owns is left alone unless leases may be overrun.    *)
LEMMA SweptRow ==
  ASSUME IndInv, NEW c \in Captures
  PROVE  /\ Swept[c].attempts = job[c].attempts
         /\ Swept[c].created = job[c].created
         /\ Swept[c].lease = job[c].lease \/ Swept[c].status = "queued"
         /\ \/ Swept[c].status = job[c].status
            \/ job[c].status = "running" /\ Swept[c].status = "queued"
         /\ "overrun" \notin Faults =>
              \A w \in Workers : Owns(w, c) => Swept[c] = job[c]
<1>1. job[c] \in Job
  BY DEF IndInv, TypeOK
<1>2. CASE job[c].status = "running" /\ job[c].lease = "stale"
  <2>1. Swept[c] = [job[c] EXCEPT !.status = "queued", !.lease = "none"]
    BY <1>2 DEF Swept
  <2>2. "overrun" \notin Faults => \A w \in Workers : ~Owns(w, c)
    BY <1>2 DEF IndInv, LeaseInv
  <2>3. QED
    BY <1>1, <1>2, <2>1, <2>2 DEF Job
<1>3. CASE ~(job[c].status = "running" /\ job[c].lease = "stale")
  BY <1>3 DEF Swept
<1>4. QED
  BY <1>2, <1>3

LEMMA SweepInv ==
  ASSUME IndInv, NEW w \in Workers, Sweep(w), TypeOK'
  PROVE  IndInv'
<1>t. job' = Swept /\ UNCHANGED <<rows, task>>
  BY DEF Sweep
<1>1. BusyInv'
  BY <1>t, SweptRow DEF IndInv, BusyInv, Exists
<1>2. AttemptInv'
  BY <1>t, SweptRow DEF IndInv, AttemptInv, AttemptExclusive
<1>3. LeaseInv'
  BY <1>t, SweptRow DEF IndInv, LeaseInv, SingleOwner, Owns
<1>4. ReadInv'
  BY <1>t, SweptRow DEF IndInv, ReadInv, ResultsMatch, Owns
<1>5. QED
  BY <1>1, <1>2, <1>3, <1>4 DEF IndInv

LEMMA ClaimInv ==
  ASSUME IndInv, NEW w \in Workers, Claim(w), TypeOK'
  PROVE  IndInv'
<1>1. PICK c \in Captures :
        /\ Claimable(Swept[c])
        /\ job' = [Swept EXCEPT ![c] = Started(Swept[c])]
        /\ task' = [task EXCEPT
             ![w] = [Idle EXCEPT !.pc = "claimed", !.job = c,
                                 !.try = Swept[c].attempts + 1]]
        /\ rows' = rows
  BY DEF Claim
<1>t. /\ task \in [Workers -> Task]
      /\ job[c] \in Job
      /\ task[w].job = NoJob
  BY DEF IndInv, TypeOK, BusyInv, Claim
<1>s. Swept \in [Captures -> Job]
  BY SweptType DEF IndInv
<1>w. /\ task'[w].pc = "claimed" /\ task'[w].job = c
      /\ task'[w].try = job[c].attempts + 1
      /\ \A v \in Workers \ {w} : task'[v] = task[v]
  BY <1>1, <1>t, SweptRow DEF Idle
<1>c. /\ job'[c].status = "running" /\ job'[c].lease = "fresh"
      /\ job'[c].attempts = job[c].attempts + 1
      /\ \A d \in Captures \ {c} : job'[d] = Swept[d]
  BY <1>1, <1>s, SweptRow DEF Started, Job
<1>q. job[c].status \in {"queued", "running"} /\ Swept[c].status = "queued"
  BY <1>1, SweptRow DEF Claimable
<1>2. BusyInv'
  BY <1>w, <1>c, SweptRow, QueueAssumption DEF IndInv, BusyInv, Exists
<1>3. AttemptInv'
  <2>1. job[c].attempts \in Nat
    BY <1>t, MaxNat DEF Job
  <2>2. \A v \in Workers \ {w} : task[v].job = c => task[v].try \in 1..job[c].attempts
    BY DEF IndInv, AttemptInv
  <2>3. \A v \in Workers : task'[v].job \in Captures =>
          task'[v].try \in 1..job'[task'[v].job].attempts
    BY <1>w, <1>c, <2>1, <2>2, SweptRow DEF IndInv, AttemptInv
  <2>4. AttemptExclusive'
    BY <1>w, <2>1, <2>2 DEF IndInv, AttemptInv, AttemptExclusive
  <2>5. QED
    BY <2>3, <2>4 DEF AttemptInv
<1>4. LeaseInv'
  <2> SUFFICES ASSUME "overrun" \notin Faults
               PROVE  /\ \A v \in Workers, d \in Captures : Owns(v, d)' =>
                           /\ job'[d].status \in {"running"} \cup Terminal
                           /\ job'[d].lease = "fresh"
                      /\ SingleOwner'
    BY DEF LeaseInv
  <2>1. \A v \in Workers : ~Owns(v, c)
    BY <1>q, SweptRow DEF IndInv, LeaseInv, Terminal
  <2>2. \A v \in Workers, d \in Captures :
          Owns(v, d)' => (v = w /\ d = c) \/ (d # c /\ Owns(v, d))
    BY <1>w, <2>1 DEF Owns
  <2>3. QED
    BY <2>2, <1>c, SweptRow DEF IndInv, LeaseInv, SingleOwner
<1>5. ReadInv'
  <2> SUFFICES ASSUME Faults \cap {"overrun", "database"} = {}
               PROVE  /\ \A v \in Workers, d \in Captures : Owns(v, d)' =>
                           /\ job'[d].status = "running"
                           /\ task'[v].pc \in Loaded => task'[v].seen = "running"
                      /\ \A d \in Captures :
                           rows'[d] # 0 <=> job'[d].status = "complete"
    BY DEF ReadInv, ResultsMatch, Loaded
  <2>1. \A v \in Workers : ~Owns(v, c)
    BY <1>q, SweptRow DEF IndInv, LeaseInv, Terminal
  <2>2. \A v \in Workers, d \in Captures :
          Owns(v, d)' => (v = w /\ d = c) \/ (d # c /\ v # w /\ Owns(v, d))
    BY <1>w, <2>1 DEF Owns
  <2>3. QED
    BY <2>2, <1>1, <1>c, <1>w, <1>q, SweptRow DEF IndInv, ReadInv, ResultsMatch, Loaded
<1>6. QED
  BY <1>2, <1>3, <1>4, <1>5 DEF IndInv

(* A worker commits to the row of the job it owns: it changes the status   *)
(* and the path, and goes on to fail or to clean up, or lets the job go.   *)
LEMMA PersistInv ==
  ASSUME IndInv, NEW w \in Workers, NEW next \in {"cleanup", "failing"},
         Persist(w, next), next = "failing" => "database" \in Faults, TypeOK'
  PROVE  IndInv'
<1> DEFINE c == task[w].job
           outcome == IF c \in Mail THEN "complete" ELSE "empty"
<1>c. c \in Captures /\ Owns(w, c) /\ task[w].pc = "persisting"
  BY DEF IndInv, TypeOK, BusyInv, Persist, Task, Owns
<1>t. /\ task \in [Workers -> Task] /\ job \in [Captures -> Job]
      /\ rows \in [Captures -> 0..MaxAttempts]
  BY DEF IndInv, TypeOK
<1>w. /\ task'[w].job = c /\ task'[w].try = task[w].try /\ task'[w].pc = next
      /\ \A v \in Workers \ {w} : task'[v] = task[v]
  BY <1>t DEF Persist, Task
<1>j. /\ \A d \in Captures \ {c} : job'[d] = job[d] /\ rows'[d] = rows[d]
      /\ job'[c].attempts = job[c].attempts /\ job'[c].lease = job[c].lease
      /\ job'[c].status = IF task[w].seen = outcome THEN job[c].status ELSE outcome
      /\ rows'[c] = IF c \in Mail THEN task[w].try ELSE 0
  BY <1>t, <1>c DEF Persist, Flushed, Job
<1>y. task[w].try \in 1..job[c].attempts /\ job[c].attempts \in Nat
  BY <1>c, <1>t, MaxNat DEF IndInv, AttemptInv, Job
<1>1. BusyInv'
  BY <1>c, <1>w, <1>j, <1>y, QueueAssumption DEF IndInv, BusyInv, Exists
<1>2. AttemptInv'
  BY <1>w, <1>j DEF IndInv, AttemptInv, AttemptExclusive
<1>o. \A v \in Workers, d \in Captures : Owns(v, d)' => Owns(v, d)
  BY <1>w, <1>c DEF Owns
<1>3. LeaseInv'
  BY <1>o, <1>j, <1>c DEF IndInv, LeaseInv, SingleOwner, Terminal
<1>4. ReadInv'
  <2> SUFFICES ASSUME Faults \cap {"overrun", "database"} = {}
               PROVE  /\ \A v \in Workers, d \in Captures : Owns(v, d)' =>
                           /\ job'[d].status = "running"
                           /\ task'[v].pc \in Loaded => task'[v].seen = "running"
                      /\ \A d \in Captures :
                           rows'[d] # 0 <=> job'[d].status = "complete"
    BY DEF ReadInv, ResultsMatch, Loaded
  <2>1. next = "cleanup" /\ task[w].seen = "running"
    BY <1>c DEF IndInv, ReadInv
  <2>2. \A v \in Workers, d \in Captures : Owns(v, d)' => v # w /\ d # c /\ Owns(v, d)
    BY <1>o, <1>c, <1>w, <2>1 DEF IndInv, LeaseInv, SingleOwner, Owns
  <2>3. rows'[c] # 0 <=> job'[c].status = "complete"
    BY <1>j, <1>y, <2>1
  <2>4. QED
    BY <1>j, <1>w, <2>2, <2>3 DEF IndInv, ReadInv, ResultsMatch, Loaded
<1>5. QED
  BY <1>1, <1>2, <1>3, <1>4 DEF IndInv

LEMMA ReportInv ==
  ASSUME IndInv, NEW w \in Workers, Report(w), TypeOK'
  PROVE  IndInv'
<1> DEFINE c == task[w].job
           verdict == IF task[w].retry THEN "queued" ELSE "failed"
<1>c. c \in Captures /\ Owns(w, c) /\ task[w].pc = "reporting"
  BY DEF IndInv, TypeOK, BusyInv, Report, Task, Owns
<1>t. /\ task \in [Workers -> Task] /\ job \in [Captures -> Job]
      /\ rows' = rows
  BY DEF IndInv, TypeOK, Report
<1>w. /\ \/ task'[w].job = NoJob /\ task'[w].pc = "idle"
         \/ task'[w].job = c /\ task'[w].try = task[w].try /\ task'[w].pc = "cleanup"
      /\ \A v \in Workers \ {w} : task'[v] = task[v]
  BY <1>t DEF Report, Return, Idle, Task
<1>j. /\ \A d \in Captures \ {c} : job'[d] = job[d]
      /\ job'[c].attempts = job[c].attempts /\ job'[c].lease = job[c].lease
      /\ job'[c].status = IF task[w].seen = verdict THEN job[c].status ELSE verdict
  BY <1>t, <1>c DEF Report, Flushed, Job
<1>1. BusyInv'
  BY <1>c, <1>w, <1>j, QueueAssumption DEF IndInv, BusyInv, Exists
<1>2. AttemptInv'
  BY <1>w, <1>j, QueueAssumption DEF IndInv, AttemptInv, AttemptExclusive
<1>o. \A v \in Workers, d \in Captures : Owns(v, d)' => v # w /\ Owns(v, d)
  BY <1>w, <1>c, QueueAssumption DEF Owns
<1>p. "overrun" \notin Faults =>
        \A v \in Workers, d \in Captures : Owns(v, d)' => d # c
  BY <1>o, <1>c DEF IndInv, LeaseInv, SingleOwner
<1>3. LeaseInv'
  BY <1>o, <1>p, <1>j DEF IndInv, LeaseInv, SingleOwner
<1>4. ReadInv'
  <2> SUFFICES ASSUME Faults \cap {"overrun", "database"} = {}
               PROVE  /\ \A v \in Workers, d \in Captures : Owns(v, d)' =>
                           /\ job'[d].status = "running"
                           /\ task'[v].pc \in Loaded => task'[v].seen = "running"
                      /\ \A d \in Captures :
                           rows'[d] # 0 <=> job'[d].status = "complete"
    BY DEF ReadInv, ResultsMatch, Loaded
  <2>1. task[w].seen = "running" /\ job[c].status = "running"
    BY <1>c DEF IndInv, ReadInv
  <2>2. QED
    BY <1>o, <1>p, <1>j, <1>w, <1>t, <1>c, <2>1 DEF IndInv, ReadInv, ResultsMatch, Loaded
<1>5. QED
  BY <1>1, <1>2, <1>3, <1>4 DEF IndInv

---------------------------------------------------------------------------
(* IndInv is inductive.                                                    *)

LEMMA InitInv == Init => IndInv
<1> SUFFICES ASSUME Init PROVE IndInv
  OBVIOUS
<1>1. TypeOK
  BY InitType
<1>2. /\ \A w \in Workers : task[w].pc = "idle" /\ task[w].job = NoJob
      /\ \A c \in Captures : /\ job[c].status = "absent" /\ job[c].attempts = 0
                             /\ rows[c] = 0
  BY DEF Init, Idle, NoRow
<1>3. \A w \in Workers, c \in Captures : ~Owns(w, c)
  BY <1>2, QueueAssumption DEF Owns
<1>4. QED
  BY <1>1, <1>2, <1>3, QueueAssumption DEF IndInv, BusyInv, AttemptInv,
     AttemptExclusive, LeaseInv, SingleOwner, ReadInv, ResultsMatch, Exists

LEMMA StepInv == IndInv /\ [Next]_vars => IndInv'
<1> SUFFICES ASSUME IndInv, [Next]_vars PROVE IndInv'
  OBVIOUS
<1>t. TypeOK'
  BY NextType DEF IndInv
(* Steps that change neither the tables nor a worker.                      *)
<1>u. ASSUME UNCHANGED <<tables, task>>
      PROVE  IndInv'
  BY <1>t, <1>u DEF tables, IndInv, BusyInv, AttemptInv, AttemptExclusive,
     LeaseInv, SingleOwner, ReadInv, ResultsMatch, Owns, Exists
<1>1. CASE UNCHANGED vars
  BY <1>1, <1>u DEF vars, tables
<1>2. ASSUME NEW u \in Uploads, UploadStep(u)
      PROVE  IndInv'
  <2>1. CASE InsertJob(u)
    BY <1>t, <2>1, InsertInv
  <2>2. CASE ~InsertJob(u)
    BY <1>2, <1>u, <2>2 DEF UploadStep, Receive, Reject, FindExisting,
       FindNone, Place, Insert, InsertConflict, ConflictCleanup, UploadFault,
       InsertUnacknowledged, Unwind
  <2>3. QED
    BY <2>1, <2>2
<1>3. ASSUME NEW w \in Workers, WorkerStep(w) \/ Crash(w) \/ Interrupt(w)
      PROVE  IndInv'
  <2>1. CASE QuietStep(w)
    BY <1>t, <2>1, QuietSteps, QuietInv DEF IndInv
  <2>2. CASE Claim(w)
    BY <1>t, <2>2, ClaimInv
  <2>3. CASE Sweep(w)
    BY <1>t, <2>3, SweepInv
  <2>4. CASE PersistCommit(w)
    BY <1>t, <2>4, PersistInv DEF PersistCommit
  <2>5. CASE PersistUnacknowledged(w)
    BY <1>t, <2>5, PersistInv DEF PersistUnacknowledged
  <2>6. CASE Report(w)
    BY <1>t, <2>6, ReportInv
  <2>7. QED
    BY <1>3, <2>1, <2>2, <2>3, <2>4, <2>5, <2>6 DEF WorkerStep, QuietStep
<1>4. ASSUME NEW c \in Captures, LeaseLapse(c)
      PROVE  IndInv'
  BY <1>t, <1>4, LapseInv
<1>5. CASE ApiCrash
  BY <1>5, <1>u DEF ApiCrash
<1>6. QED
  BY <1>1, <1>2, <1>3, <1>4, <1>5 DEF Next

(* The invariant on which the theorems rest holds of every instance.       *)
THEOREM Inductive == Spec => []IndInv
<1>1. QED
  BY InitInv, StepInv, PTL DEF Spec

(* Every variable has its type; in particular no capture job is ever       *)
(* attempted more than max_attempts times (worker.py:44).                  *)
THEOREM TypeCorrect == Spec => []TypeOK
<1>1. IndInv => TypeOK
  BY DEF IndInv
<1>2. QED
  BY Inductive, <1>1, PTL

(* No two workers carry out the same attempt of a capture job, whatever    *)
(* crashes, fails or overruns its lease (worker.py:36-56).                 *)
THEOREM AttemptsExclusive == Spec => []AttemptExclusive
<1>1. IndInv => AttemptExclusive
  BY DEF IndInv, AttemptInv
<1>2. QED
  BY Inductive, <1>1, PTL

(* If leases outlast their workers, at most one worker works on a capture  *)
(* at any time, whatever else goes wrong (worker.py:28-57).                *)
THEOREM OneOwner == Spec => []SingleOwner
<1>1. IndInv => SingleOwner
  BY DEF IndInv, LeaseInv, SingleOwner
<1>2. QED
  BY Inductive, <1>1, PTL

(* If in addition the worker's database calls do not fail, session rows    *)
(* exist exactly for the jobs that are "complete" (worker.py:116-140).     *)
THEOREM ResultsAtomic == Spec => []ResultsMatch
<1>1. IndInv => ResultsMatch
  BY DEF IndInv, ReadInv, ResultsMatch
<1>2. QED
  BY Inductive, <1>1, PTL

---------------------------------------------------------------------------
(* The answers to uploads.                                                 *)

Answered == {"accepted", "duplicate", "collided"}

AnswerInv ==
  /\ UploadIdempotent
  /\ \A u \in Uploads : req[u] = "conflict" => Exists(Body[u])

LEMMA ExistsStays ==
  ASSUME IndInv, Next, NEW c \in Captures, Exists(c)
  PROVE  Exists(c)'
<1>j. job \in [Captures -> Job] /\ Swept \in [Captures -> Job]
  BY SweptType DEF IndInv, TypeOK
<1>1. CASE UNCHANGED job
  BY <1>1 DEF Exists
<1>2. ASSUME NEW u \in Uploads, InsertJob(u)
      PROVE  Exists(c)'
  BY <1>2, <1>j DEF InsertJob, Exists
<1>3. ASSUME NEW w \in Workers, Claim(w) \/ Sweep(w)
      PROVE  Exists(c)'
  <2>1. PICK d \in Captures :
          job' = [Swept EXCEPT ![d] = Started(Swept[d])] \/ job' = Swept
    BY <1>3 DEF Claim, Sweep
  <2>2. Swept[c].status # "absent" /\ Started(Swept[c]).status = "running"
    BY <1>j, SweptRow DEF Exists, Started, Job
  <2>3. QED
    BY <1>j, <2>1, <2>2 DEF Exists
<1>4. ASSUME NEW w \in Workers, NEW d, NEW s, NEW v, NEW p, v # "absent",
             job' = [job EXCEPT ![d] = Flushed(job[d], s, v, p)]
      PROVE  Exists(c)'
  BY <1>j, <1>4 DEF Flushed, Exists, Job
<1>5. ASSUME NEW w \in Workers, NEW next, Persist(w, next)
      PROVE  Exists(c)'
  BY <1>4, <1>5 DEF Persist
<1>6. ASSUME NEW w \in Workers, Report(w)
      PROVE  Exists(c)'
  BY <1>4, <1>6 DEF Report
<1>7. ASSUME NEW d \in Captures, LeaseLapse(d)
      PROVE  Exists(c)'
  BY <1>j, <1>7 DEF LeaseLapse, Exists, Job
<1>8. QED
  BY <1>1, <1>2, <1>3, <1>5, <1>6, <1>7 DEF Next, UploadStep, WorkerStep,
     Receive, Reject, FindExisting, FindNone, Place, Insert, InsertConflict,
     ConflictCleanup, UploadFault, InsertUnacknowledged, Unwind, ApiCrash,
     ReadJob, CheckFile, Extract, ExtractFails, PersistBegin, PersistCommit,
     PersistFails, PersistUnacknowledged, Cleanup, FailRead, Purge,
     WorkerFault, Crash, Interrupt, tables

LEMMA AnswerStep == IndInv /\ AnswerInv /\ [Next]_vars => AnswerInv'
<1> SUFFICES ASSUME IndInv, AnswerInv, [Next]_vars PROVE AnswerInv'
  OBVIOUS
<1>r. req \in [Uploads -> ReqState] /\ \A u \in Uploads : Body[u] \in Captures
  BY QueueAssumption DEF IndInv, TypeOK
(* A step that gives nobody a new answer.                                  *)
<1>a. ASSUME Next,
             \A u \in Uploads : req'[u] \in Answered \cup {"conflict"} =>
               \/ req'[u] = req[u]
               \/ req'[u] # "accepted" /\ Exists(Body[u])
      PROVE  AnswerInv'
  BY <1>a, <1>r, ExistsStays DEF AnswerInv, UploadIdempotent, Answered
<1>1. CASE UNCHANGED vars
  BY <1>1 DEF vars, AnswerInv, UploadIdempotent, Exists
<1>2. ASSUME NEW u \in Uploads, Insert(u)
      PROVE  AnswerInv'
  <2>1. /\ req' = [req EXCEPT ![u] = "accepted"]
        /\ ~Exists(Body[u])
        /\ job'[Body[u]].status = "queued"
    BY <1>2, <1>r DEF Insert, Goto, InsertJob, IndInv, TypeOK
  <2>2. Next
    BY <1>2 DEF Next, UploadStep
  <2>3. QED
    BY <1>r, <2>1, <2>2, ExistsStays DEF AnswerInv, UploadIdempotent, Exists
<1>3. ASSUME NEW u \in Uploads, UploadStep(u), ~Insert(u)
      PROVE  AnswerInv'
  <2>1. Next
    BY <1>3 DEF Next
  <2>2. \A v \in Uploads \ {u} : req'[v] = req[v]
    BY <1>3, <1>r DEF UploadStep, Receive, Reject, FindExisting, FindNone,
       Place, InsertConflict, ConflictCleanup, UploadFault,
       InsertUnacknowledged, Unwind, Goto
  <2>3. req'[u] \in Answered \cup {"conflict"} =>
          req'[u] # "accepted" /\ Exists(Body[u])
    BY <1>3, <1>r DEF UploadStep, Receive, Reject, FindExisting, FindNone,
       Place, InsertConflict, ConflictCleanup, UploadFault,
       InsertUnacknowledged, Unwind, Goto, AnswerInv, Answered
  <2>4. QED
    BY <1>a, <2>1, <2>2, <2>3
<1>4. CASE ApiCrash
  BY <1>4, <1>a, <1>r DEF ApiCrash, Next, Answered
<1>5. CASE UNCHANGED req /\ Next
  BY <1>5, <1>a
<1>6. QED
  BY <1>1, <1>2, <1>3, <1>4, <1>5 DEF Next, WorkerStep, handlers, LeaseLapse,
     Claim, Sweep, ReadJob, CheckFile, Extract, ExtractFails, PersistBegin,
     PersistCommit, PersistFails, PersistUnacknowledged, Persist, Cleanup,
     FailRead, Purge, Report, WorkerFault, Crash, Interrupt

(* Identical bytes are enqueued at most once, and an upload answered with  *)
(* a job has one, whatever fails (capture_routes.py:149-178).              *)
THEOREM UploadsIdempotent == Spec => []UploadIdempotent
<1>1. Init => AnswerInv
  BY DEF Init, AnswerInv, UploadIdempotent
<1>2. AnswerInv => UploadIdempotent
  BY DEF AnswerInv
<1>3. QED
  BY Inductive, AnswerStep, <1>1, <1>2, PTL DEF Spec

---------------------------------------------------------------------------
(* The queue implements CaptureService.                                    *)

Reliable == Faults \cap {"overrun", "database"} = {}

LEMMA ViewStays ==
  ASSUME NEW c \in Captures, job'[c].status = job[c].status,
         job'[c].attempts = job[c].attempts, rows'[c] = rows[c]
  PROVE  View(c)' = View(c)
BY DEF View, Stored

LEMMA StoredRows ==
  ASSUME NEW c \in Captures
  PROVE  /\ rows[c] = 0 => Stored(c) = "none"
         /\ rows[c] # 0 => Stored(c) = "all"
BY DEF Stored

LEMMA StoredRowsNext ==
  ASSUME NEW c \in Captures
  PROVE  /\ rows'[c] = 0 => Stored(c)' = "none"
         /\ rows'[c] # 0 => Stored(c)' = "all"
         /\ rows'[c] = rows[c] => Stored(c)' = Stored(c)
BY DEF Stored

LEMMA ViewInit == Init => Service!Init
<1> SUFFICES ASSUME Init, NEW c \in Captures
             PROVE  View(c) = Service!Unknown
  BY DEF Service!Init, Lives
<1>1. job[c].status = "absent" /\ job[c].attempts = 0 /\ Stored(c) = "none"
  BY StoredRows DEF Init, NoRow
<1>2. QED
  BY <1>1 DEF View, Service!Unknown

LEMMA ViewSwept ==
  ASSUME IndInv, Reliable, NEW c \in Captures, NEW j,
         j = Swept[c], job'[c] = j, rows'[c] = rows[c]
  PROVE  View(c)' = View(c) \/ Service!Requeue(View(c), View(c)')
<1>1. View(c) = [phase |-> job[c].status, spent |-> job[c].attempts,
                 stored |-> Stored(c)]
  BY DEF View
<1>2. View(c)' = [phase |-> Swept[c].status, spent |-> job[c].attempts,
                  stored |-> Stored(c)]
  BY SweptRow, StoredRowsNext DEF View
<1>3. QED
  BY <1>1, <1>2, SweptRow DEF Service!Requeue

LEMMA InsertMove ==
  ASSUME IndInv, Reliable, NEW u \in Uploads, InsertJob(u), NEW c \in Captures
  PROVE  View(c)' = View(c) \/ Service!Accept(View(c), View(c)')
<1>1. Body[u] \in Captures /\ job \in [Captures -> Job] /\ rows' = rows
  BY QueueAssumption DEF InsertJob, IndInv, TypeOK
<1>2. CASE c # Body[u]
  BY <1>1, <1>2, ViewStays DEF InsertJob
<1>3. CASE c = Body[u]
  <2>1. job[c].status = "absent" /\ job[c].attempts = 0 /\ Stored(c) = "none"
    BY <1>1, <1>3, StoredRows DEF InsertJob, IndInv, BusyInv, ReadInv, ResultsMatch,
       Exists, Reliable
  <2>2. job'[c].status = "queued" /\ job'[c].attempts = 0
    BY <1>1, <1>3 DEF InsertJob
  <2>3. Stored(c)' = "none"
    BY <1>1, <2>1, StoredRowsNext
  <2>4. QED
    BY <2>1, <2>2, <2>3 DEF View, Service!Accept, Service!Unknown
<1>4. QED
  BY <1>2, <1>3

LEMMA ClaimMove ==
  ASSUME IndInv, Reliable, NEW w \in Workers, Claim(w), NEW d \in Captures
  PROVE  \/ View(d)' = View(d)
         \/ Service!Requeue(View(d), View(d)')
         \/ Service!Attempt(View(d), View(d)')
<1>1. PICK c \in Captures :
        /\ Claimable(Swept[c])
        /\ job' = [Swept EXCEPT ![c] = Started(Swept[c])]
        /\ rows' = rows
  BY DEF Claim
<1>2. Swept \in [Captures -> Job] /\ job \in [Captures -> Job]
  BY SweptType DEF IndInv, TypeOK
<1>3. CASE d # c
  BY <1>1, <1>2, <1>3, ViewSwept
<1>4. CASE d = c
  <2>1. /\ job[c].status \in {"queued", "running"}
        /\ job[c].attempts < MaxAttempts
    BY <1>1, SweptRow DEF Claimable
  <2>2. job'[c].status = "running" /\ job'[c].attempts = job[c].attempts + 1
    BY <1>1, <1>2, SweptRow DEF Started, Job
  <2>3. Stored(c)' = Stored(c)
    BY <1>1, StoredRowsNext
  <2>4. QED
    BY <1>4, <2>1, <2>2, <2>3 DEF View, Service!Attempt
<1>5. QED
  BY <1>3, <1>4

LEMMA PersistMove ==
  ASSUME IndInv, Reliable, NEW w \in Workers, Persist(w, "cleanup"),
         NEW d \in Captures
  PROVE  View(d)' = View(d) \/ Service!Finish(View(d), View(d)')
<1> DEFINE c == task[w].job
           outcome == IF c \in Mail THEN "complete" ELSE "empty"
<1>c. c \in Captures /\ Owns(w, c) /\ task[w].pc = "persisting"
  BY DEF IndInv, TypeOK, BusyInv, Persist, Task, Owns
<1>t. job \in [Captures -> Job] /\ rows \in [Captures -> 0..MaxAttempts]
  BY DEF IndInv, TypeOK
<1>s. job[c].status = "running" /\ task[w].seen = "running" /\ rows[c] = 0
  BY <1>c DEF IndInv, ReadInv, ResultsMatch, Reliable
<1>j. /\ \A e \in Captures \ {c} : job'[e] = job[e] /\ rows'[e] = rows[e]
      /\ job'[c].attempts = job[c].attempts
      /\ job'[c].status = outcome
      /\ rows'[c] = IF c \in Mail THEN task[w].try ELSE 0
  BY <1>t, <1>c, <1>s DEF Persist, Flushed, Job
<1>y. task[w].try \in 1..job[c].attempts /\ job[c].attempts \in Nat
  BY <1>c, <1>t, MaxNat DEF IndInv, AttemptInv, Job
<1>1. CASE d # c
  BY <1>1, <1>j, ViewStays
<1>2. CASE d = c /\ c \in Mail
  <2>1. Stored(d)' = "all"
    BY <1>2, <1>j, <1>y, <1>c, StoredRowsNext
  <2>2. QED
    BY <1>2, <2>1, <1>j, <1>s DEF View, Service!Finish
<1>3. CASE d = c /\ c \notin Mail
  <2>1. Stored(d)' = Stored(d)
    BY <1>3, <1>j, <1>s, <1>c, StoredRowsNext
  <2>2. QED
    BY <1>3, <2>1, <1>j, <1>s DEF View, Service!Finish
<1>4. QED
  BY <1>1, <1>2, <1>3

LEMMA ReportMove ==
  ASSUME IndInv, Reliable, NEW w \in Workers, Report(w), NEW d \in Captures
  PROVE  \/ View(d)' = View(d)
         \/ Service!Requeue(View(d), View(d)')
         \/ Service!Finish(View(d), View(d)')
<1> DEFINE c == task[w].job
           verdict == IF task[w].retry THEN "queued" ELSE "failed"
<1>c. c \in Captures /\ Owns(w, c) /\ task[w].pc = "reporting"
  BY DEF IndInv, TypeOK, BusyInv, Report, Task, Owns
<1>t. job \in [Captures -> Job] /\ rows' = rows
  BY DEF IndInv, TypeOK, Report
<1>s. job[c].status = "running" /\ task[w].seen = "running"
  BY <1>c DEF IndInv, ReadInv, Reliable
<1>j. /\ \A e \in Captures \ {c} : job'[e] = job[e]
      /\ job'[c].attempts = job[c].attempts
      /\ job'[c].status = verdict
  BY <1>t, <1>c, <1>s DEF Report, Flushed, Job
<1>1. CASE d # c
  BY <1>1, <1>j, <1>t, ViewStays
<1>2. CASE d = c
  <2>1. Stored(d)' = Stored(d)
    BY <1>t, <1>c, StoredRowsNext
  <2>2. QED
    BY <1>2, <2>1, <1>j, <1>s DEF View, Service!Finish, Service!Requeue
<1>3. QED
  BY <1>1, <1>2

LEMMA LifeTypeNext ==
  ASSUME TypeOK'
  PROVE  Lives' \in [Captures -> Service!Life]
<1> SUFFICES ASSUME NEW c \in Captures PROVE View(c)' \in Service!Life
  BY DEF Lives
<1>1. job'[c] \in Job
  BY DEF TypeOK
<1>2. QED
  BY <1>1 DEF View, Stored, Job, Status, Terminal, Service!Life, Service!Phase

LEMMA ServiceStep == IndInv /\ Reliable /\ [Next]_vars => [Service!Next]_Lives
<1> SUFFICES ASSUME IndInv, Reliable, [Next]_vars
             PROVE  [Service!Next]_Lives
  OBVIOUS
<1>s. ASSUME UNCHANGED tables PROVE Lives' = Lives
  BY <1>s DEF tables, Lives, View, Stored
<1>n. ASSUME \A c \in Captures :
               View(c)' = View(c) \/ Service!Move(View(c), View(c)')
      PROVE  Service!Next
  <2>1. Lives' \in [Captures -> Service!Life]
    BY NextType, LifeTypeNext DEF IndInv
  <2>2. \A c \in Captures : Lives[c] = View(c) /\ Lives'[c] = View(c)'
    BY DEF Lives
  <2>3. QED
    BY <1>n, <2>1, <2>2 DEF Service!Next
<1>1. CASE UNCHANGED vars
  BY <1>1, <1>s DEF vars, tables
<1>2. ASSUME NEW u \in Uploads, UploadStep(u)
      PROVE  [Service!Next]_Lives
  <2>1. CASE InsertJob(u)
    BY <2>1, <1>n, InsertMove DEF Service!Move
  <2>2. CASE ~InsertJob(u)
    BY <1>2, <1>s, <2>2 DEF UploadStep, Receive, Reject, FindExisting,
       FindNone, Place, Insert, InsertConflict, ConflictCleanup, UploadFault,
       InsertUnacknowledged, Unwind
  <2>3. QED
    BY <2>1, <2>2
<1>3. ASSUME NEW w \in Workers, WorkerStep(w) \/ Crash(w) \/ Interrupt(w)
      PROVE  [Service!Next]_Lives
  <2>1. CASE QuietStep(w)
    BY <2>1, <1>s, QuietSteps DEF IndInv, Quiet
  <2>2. CASE Claim(w)
    BY <2>2, <1>n, ClaimMove DEF Service!Move
  <2>3. CASE Sweep(w)
    BY <2>3, <1>n, ViewSwept DEF Sweep, Service!Move
  <2>4. CASE PersistCommit(w)
    BY <2>4, <1>n, PersistMove DEF PersistCommit, Service!Move
  <2>5. CASE PersistUnacknowledged(w)
    BY <2>5 DEF PersistUnacknowledged, Reliable
  <2>6. CASE Report(w)
    BY <2>6, <1>n, ReportMove DEF Service!Move
  <2>7. QED
    BY <1>3, <2>1, <2>2, <2>3, <2>4, <2>5, <2>6 DEF WorkerStep, QuietStep
<1>4. ASSUME NEW c \in Captures, LeaseLapse(c)
      PROVE  [Service!Next]_Lives
  <2>1. \A d \in Captures : View(d)' = View(d)
    BY <1>4 DEF LeaseLapse, IndInv, TypeOK, Job, View, Stored
  <2>2. QED
    BY <2>1 DEF Lives
<1>5. CASE ApiCrash
  BY <1>5, <1>s DEF ApiCrash
<1>6. QED
  BY <1>1, <1>2, <1>3, <1>4, <1>5 DEF Next

(* If leases outlast their workers and the workers' database calls do not  *)
(* fail, a client sees each job accepted once, attempted at most           *)
(* max_attempts times, and given its rows and its final status in the same *)
(* instant and for good, whatever crashes (worker.py, capture_routes.py).  *)
THEOREM ServiceImplemented ==
  ASSUME Faults \cap {"overrun", "database"} = {}
  PROVE  Spec => ServiceSpec
<1>1. Reliable
  BY DEF Reliable
<1>2. IndInv /\ [Next]_vars => [Service!Next]_Lives
  BY <1>1, ServiceStep
<1>3. QED
  BY Inductive, ViewInit, <1>2, PTL DEF Spec, ServiceSpec, Service!Spec

(***************************************************************************)
(* Files: the capture of a job that is still to be read stays on disk.     *)
(* The inductive invariant, under faults that skip the finally clauses and *)
(* leave the database alone.                                               *)
(***************************************************************************)
OnlyKills == Faults \subseteq {"extract", "crash", "api_crash"}

(* Another upload's collision is to blame for a file that is missing.      *)
Excused(c) ==
  \E u \in Uploads : Body[u] = c /\ ext[u] = job[c].path /\ req[u] = "collided"

Kept(c) == <<c, job[c].path>> \in files \/ Excused(c)

Reading == {"claimed", "located", "extracting"}

(* Somebody reads the file of this job, or may yet claim the job: not only *)
(* when it is queued, since a running job is requeued if its worker dies.  *)
Wanted(c) ==
  \/ job[c].status \in {"queued", "running"} /\ job[c].attempts < MaxAttempts
  \/ \E w \in Workers : task[w].job = c /\ task[w].pc \in Reading

(* What a worker knows: it removes a file only if the job is finished, has *)
(* no attempt left, or lost its file already.                              *)
WorkerFile(w) ==
  /\ task[w].pc \notin {"idle", "claimed", "cleanup"} =>
       task[w].path = job[task[w].job].path
  /\ task[w].unlinks => task[w].pc \in {"extracted", "persisting", "cleanup"}
  /\ task[w].pc = "persisting" => task[w].base = 0
  /\ task[w].pc = "cleanup" => job[task[w].job].status \in Terminal
  /\ task[w].pc = "failing" /\ ~task[w].retry => Excused(task[w].job)
  /\ task[w].pc = "purging" =>
       Excused(task[w].job) \/ job[task[w].job].attempts = MaxAttempts

(* A file placed for a job that is not yet inserted is there.              *)
PlacedKept ==
  \A u \in Uploads :
    req[u] = "placed" /\ ~Exists(Body[u]) => FinalFile(u) \in files

WantedKept == \A c \in Captures : Wanted(c) => Kept(c)

(* No upload unwinds after an insert that was durable all the same.        *)
NoneUnwinds == \A u \in Uploads : req[u] # "unwinding"

FileInv ==
  /\ NoneUnwinds
  /\ PlacedKept
  /\ WantedKept
  /\ \A w \in Workers : WorkerFile(w)

(* What the other invariants say under these faults.                       *)
LEMMA Owned ==
  ASSUME IndInv, OnlyKills, NEW w \in Workers, task[w].pc # "idle"
  PROVE  /\ task[w].job \in Captures /\ job[task[w].job].attempts > 0
         /\ Exists(task[w].job)
         /\ task[w].pc # "cleanup" => job[task[w].job].status = "running"
         /\ task[w].pc # "cleanup" =>
              \A v \in Workers : task[v].job = task[w].job /\ task[v].pc # "cleanup" => v = w
         /\ task[w].pc \in Loaded => task[w].seen = "running"
<1> DEFINE c == task[w].job
<1>t. task[w] \in Task /\ \A d \in Captures : job[d] \in Job
  BY DEF IndInv, TypeOK
<1>1. c \in Captures
  BY <1>t DEF IndInv, BusyInv, Task
<1>2. job[c].attempts > 0
  BY <1>1, <1>t, MaxNat DEF IndInv, AttemptInv, Job
<1>3. Exists(c)
  BY <1>1, <1>2 DEF IndInv, BusyInv
<1>4. Faults \cap {"overrun", "database"} = {} /\ "overrun" \notin Faults
  BY DEF OnlyKills
<1>5. task[w].pc # "cleanup" => Owns(w, c)
  BY DEF Owns
<1>6. \A v \in Workers : task[v].job = c /\ task[v].pc # "cleanup" => Owns(v, c)
  BY DEF Owns
<1>7. task[w].pc # "cleanup" => job[c].status = "running"
  BY <1>1, <1>4, <1>5 DEF IndInv, ReadInv
<1>8. task[w].pc # "cleanup" =>
        \A v \in Workers : task[v].job = c /\ task[v].pc # "cleanup" => v = w
  BY <1>1, <1>4, <1>5, <1>6 DEF IndInv, LeaseInv, SingleOwner
<1>9. task[w].pc \in Loaded => task[w].seen = "running"
  BY <1>1, <1>4, <1>5 DEF IndInv, ReadInv, Loaded
<1>10. QED
  BY <1>1, <1>2, <1>3, <1>7, <1>8, <1>9

(* An excuse remains one: a collision is the last step of its upload.      *)
LEMMA ExcuseStays ==
  ASSUME NEW c, Excused(c), job'[c].path = job[c].path,
         \A u \in Uploads : req[u] = "collided" => req'[u] = "collided" /\ ext'[u] = ext[u]
  PROVE  Excused(c)'
BY DEF Excused

(***************************************************************************)
(* Uploads.                                                                *)
(***************************************************************************)
LEMMA UploadEffect ==
  ASSUME TypeOK, AnswerInv, NoneUnwinds, OnlyKills, NEW u \in Uploads, UploadStep(u)
  PROVE  /\ UNCHANGED <<rows, task>>
         /\ \A v \in Uploads \ {u} : req'[v] = req[v] /\ ext'[v] = ext[v]
         /\ req[u] # "collided" /\ req'[u] # "unwinding"
         /\ req'[u] = "placed" => req[u] = "absent" /\ FinalFile(u) \in files'
         /\ req[u] # "new" => ext'[u] = ext[u]
         /\ \/ files \subseteq files'
            \/ /\ files' = files \ {FinalFile(u)} /\ req'[u] = "collided"
               /\ Exists(Body[u]) /\ req[u] # "new"
         /\ UNCHANGED job \/ (Insert(u) /\ files' = files)
<1>t. /\ req \in [Uploads -> ReqState] /\ ext \in [Uploads -> Exts]
      /\ "api_database" \notin Faults
  BY DEF TypeOK, OnlyKills
<1> USE DEF Goto, tables
<1>1. CASE Receive(u)
  BY <1>1, <1>t DEF Receive
<1>2. CASE Reject(u) \/ FindExisting(u) \/ FindNone(u) \/ InsertConflict(u)
  BY <1>2, <1>t DEF Reject, FindExisting, FindNone, InsertConflict
<1>3. CASE Place(u)
  BY <1>3, <1>t DEF Place, FinalFile
<1>4. CASE Insert(u)
  BY <1>4, <1>t DEF Insert, InsertJob
<1>5. CASE ConflictCleanup(u)
  BY <1>5, <1>t DEF ConflictCleanup, AnswerInv
<1>6. CASE UploadFault(u) \/ InsertUnacknowledged(u)
  BY <1>6, <1>t DEF UploadFault, InsertUnacknowledged
<1>7. CASE Unwind(u)
  BY <1>7, <1>t DEF Unwind, NoneUnwinds
<1>8. QED
  BY <1>1, <1>2, <1>3, <1>4, <1>5, <1>6, <1>7 DEF UploadStep

LEMMA UploadFiles ==
  ASSUME IndInv, AnswerInv, FileInv, OnlyKills, NEW u \in Uploads, UploadStep(u)
  PROVE  FileInv'
<1>t. /\ TypeOK /\ Body \in [Uploads -> Captures]
      /\ job \in [Captures -> Job]
  BY QueueAssumption DEF IndInv, TypeOK
<1>u. /\ UNCHANGED <<rows, task>>
      /\ \A v \in Uploads \ {u} : req'[v] = req[v] /\ ext'[v] = ext[v]
      /\ req[u] # "collided" /\ req'[u] # "unwinding"
      /\ req'[u] = "placed" => req[u] = "absent" /\ FinalFile(u) \in files'
      /\ req[u] # "new" => ext'[u] = ext[u]
      /\ \/ files \subseteq files'
         \/ /\ files' = files \ {FinalFile(u)} /\ req'[u] = "collided"
            /\ Exists(Body[u]) /\ req[u] # "new"
      /\ UNCHANGED job \/ (Insert(u) /\ files' = files)
  BY <1>t, UploadEffect DEF FileInv
<1>x. \A v \in Uploads : Exists(Body[v]) => Exists(Body[v])'
  BY <1>t, ExistsStays DEF Next
<1>k. \A v \in Uploads : req[v] = "collided" => req'[v] = "collided" /\ ext'[v] = ext[v]
  BY <1>u
<1>1. NoneUnwinds'
  BY <1>u DEF FileInv, NoneUnwinds
<1>2. PlacedKept'
  <2> SUFFICES ASSUME NEW v \in Uploads, req'[v] = "placed", ~Exists(Body[v])'
               PROVE  FinalFile(v)' \in files'
    BY DEF PlacedKept
  <2>1. CASE v = u
    <3>1. req[u] = "absent" /\ FinalFile(u) \in files'
      BY <1>u, <2>1
    <3>2. FinalFile(u)' = FinalFile(u)
      BY <3>1, <1>u DEF FinalFile
    <3>3. QED
      BY <2>1, <3>1, <3>2
  <2>2. CASE v # u
    <3>1. FinalFile(v)' = FinalFile(v) /\ req[v] = "placed" /\ ~Exists(Body[v])
      BY <1>u, <1>x, <2>2 DEF FinalFile
    <3>2. FinalFile(v) \in files
      BY <3>1 DEF FileInv, PlacedKept
    <3>3. Exists(Body[u]) => FinalFile(v) # FinalFile(u)
      BY <3>1 DEF FinalFile
    <3>4. QED
      BY <1>u, <3>1, <3>2, <3>3
  <2>3. QED
    BY <2>1, <2>2
(* A step that leaves the tables alone, but may remove the upload's file.  *)
<1>3. CASE UNCHANGED job
  <2>1. \A c \in Captures : Wanted(c)' <=> Wanted(c)
    BY <1>3, <1>u DEF Wanted
  <2>2. \A c : Excused(c) => Excused(c)'
    BY <1>3, <1>k, ExcuseStays
  <2>3. ASSUME NEW c \in Captures, Kept(c) PROVE Kept(c)'
    <3>1. CASE Excused(c)
      BY <3>1, <2>2 DEF Kept
    <3>2. CASE <<c, job[c].path>> \in files'
      BY <3>2, <1>3 DEF Kept
    <3>3. CASE <<c, job[c].path>> \in files /\ <<c, job[c].path>> \notin files'
      <4>1. /\ <<c, job[c].path>> = FinalFile(u) /\ req'[u] = "collided"
            /\ ext'[u] = ext[u]
        BY <3>3, <1>u
      <4>2. Body[u] = c /\ ext'[u] = job'[c].path
        BY <4>1, <1>3 DEF FinalFile
      <4>3. QED
        BY <4>1, <4>2 DEF Kept, Excused
    <3>4. QED
      BY <2>3, <3>1, <3>2, <3>3 DEF Kept
  <2>4. WantedKept'
    BY <2>1, <2>3 DEF FileInv, WantedKept
  <2>5. \A w \in Workers : WorkerFile(w)'
    BY <1>3, <1>u, <2>2 DEF FileInv, WorkerFile
  <2>6. QED
    BY <1>1, <1>2, <2>4, <2>5 DEF FileInv
(* The insert: nobody works for the job yet, and its file was placed.      *)
<1>4. CASE Insert(u) /\ files' = files
  <2> DEFINE d == Body[u]
  <2>1. /\ ~Exists(d) /\ req[u] = "placed" /\ d \in Captures
        /\ job'[d].path = ext[u] /\ ext' = ext
        /\ \A c \in Captures \ {d} : job'[c] = job[c]
    BY <1>4, <1>t DEF Insert, InsertJob, Goto
  <2>2. \A w \in Workers : task[w].pc # "idle" => task[w].job \in Captures \ {d}
    BY <2>1, Owned
  <2>3. <<d, ext[u]>> \in files
    BY <2>1 DEF FileInv, PlacedKept, FinalFile
  <2>4. \A c \in Captures \ {d} : Excused(c) => Excused(c)'
    BY <2>1, <1>k, ExcuseStays
  <2>5. ASSUME NEW c \in Captures, Wanted(c)' PROVE Kept(c)'
    <3>1. CASE c = d
      BY <3>1, <2>1, <2>3, <1>4 DEF Kept
    <3>2. CASE c # d
      <4>1. Wanted(c)
        BY <3>2, <2>1, <2>5, <1>u DEF Wanted
      <4>2. Kept(c)
        BY <4>1 DEF FileInv, WantedKept
      <4>3. QED
        BY <4>2, <3>2, <2>1, <2>4, <1>4 DEF Kept
    <3>3. QED
      BY <3>1, <3>2
  <2>6. ASSUME NEW w \in Workers PROVE WorkerFile(w)'
    <3>1. task[w].pc # "idle" => job'[task[w].job] = job[task[w].job]
                                  /\ (Excused(task[w].job) => Excused(task[w].job)')
      BY <2>1, <2>2, <2>4, <1>u
    <3>2. WorkerFile(w) /\ task' = task
      BY <1>u DEF FileInv
    <3>3. QED
      BY <3>1, <3>2, <1>u DEF WorkerFile
  <2>7. QED
    BY <1>1, <1>2, <2>5, <2>6 DEF FileInv, WantedKept
<1>5. QED
  BY <1>3, <1>4, <1>u

LEMMA ApiCrashFiles == ASSUME FileInv, ApiCrash PROVE FileInv'
<1>1. /\ UNCHANGED <<tables, files, ext, task>>
      /\ req' = [u \in Uploads |-> IF req[u] \in InFlight THEN "lost" ELSE req[u]]
  BY DEF ApiCrash
<1>2. \A u \in Uploads : /\ req[u] = "collided" => req'[u] = "collided"
                         /\ req'[u] \notin InFlight
  BY <1>1 DEF InFlight
<1>3. \A c : Excused(c) => Excused(c)'
  BY <1>1, <1>2, ExcuseStays DEF tables
<1>4. NoneUnwinds' /\ PlacedKept'
  <2>1. \A u \in Uploads : req'[u] # "placed" /\ req'[u] # "unwinding"
    BY <1>2 DEF InFlight
  <2>2. QED
    BY <2>1 DEF NoneUnwinds, PlacedKept
<1>5. WantedKept'
  BY <1>1, <1>3 DEF FileInv, WantedKept, Wanted, Kept, tables
<1>6. \A w \in Workers : WorkerFile(w)'
  BY <1>1, <1>3 DEF FileInv, WorkerFile, tables
<1>7. QED
  BY <1>4, <1>5, <1>6 DEF FileInv

(***************************************************************************)
(* Worker steps that leave the tables alone.                               *)
(***************************************************************************)
(* A step of w is sound if what it makes of its task is, it starts to read *)
(* no file, and each file it removes belongs to an inserted job that needs *)
(* it no longer or is excused.                                             *)
LEMMA QuietFrame ==
  ASSUME IndInv, FileInv, OnlyKills, NEW w \in Workers,
         UNCHANGED <<tables, handlers>>, \A v \in Workers \ {w} : task'[v] = task[v],
         task'[w].pc \in Reading => task[w].pc \in Reading /\ task'[w].job = task[w].job,
         \A c \in Captures, e \in Exts : <<c, e>> \in files \ files' =>
           Exists(c) /\ (Wanted(c)' => Excused(c)),
         WorkerFile(w)'
  PROVE  FileInv'
<1>t. /\ \A u \in Uploads : FinalFile(u)' = FinalFile(u) /\ FinalFile(u)[1] = Body[u]
      /\ \A u \in Uploads : FinalFile(u) \in Captures \X Exts
      /\ files \subseteq Captures \X Exts /\ job' = job /\ req' = req /\ ext' = ext
  BY QueueAssumption DEF IndInv, TypeOK, handlers, tables, FinalFile
<1>e. \A c : Excused(c)' <=> Excused(c)
  BY <1>t DEF Excused
<1>1. NoneUnwinds'
  BY <1>t DEF FileInv, NoneUnwinds
<1>2. PlacedKept'
  <2> SUFFICES ASSUME NEW u \in Uploads, req[u] = "placed", ~Exists(Body[u]),
                      FinalFile(u) \notin files'
               PROVE  FALSE
    BY <1>t DEF PlacedKept, Exists
  <2>1. FinalFile(u) \in files /\ FinalFile(u) = <<Body[u], ext[u]>>
    BY DEF FileInv, PlacedKept, FinalFile
  <2>2. Body[u] \in Captures /\ ext[u] \in Exts
    BY <1>t, <2>1
  <2>3. QED
    BY <2>1, <2>2
<1>3. WantedKept'
  <2> SUFFICES ASSUME NEW c \in Captures, Wanted(c)', ~Excused(c)
               PROVE  <<c, job[c].path>> \in files'
    BY <1>t, <1>e DEF WantedKept, Kept
  <2>1. Wanted(c)
    BY <1>t DEF Wanted
  <2>2. <<c, job[c].path>> \in files
    BY <2>1 DEF FileInv, WantedKept, Kept
  <2>3. job[c].path \in Exts
    BY <1>t, <2>2
  <2>4. QED
    BY <2>2, <2>3
<1>4. ASSUME NEW v \in Workers PROVE WorkerFile(v)'
  <2>1. CASE v = w
    BY <2>1
  <2>2. CASE v # w
    <3>1. WorkerFile(v) /\ task'[v] = task[v]
      BY <2>2 DEF FileInv
    <3>2. QED
      BY <3>1, <1>t, <1>e DEF WorkerFile
  <2>3. QED
    BY <2>1, <2>2
<1>5. QED
  BY <1>1, <1>2, <1>3, <1>4 DEF FileInv

LEMMA QuietFiles ==
  ASSUME IndInv, FileInv, OnlyKills, NEW w \in Workers, QuietStep(w)
  PROVE  FileInv'
<1> DEFINE t == task[w]
<1>c. PICK c : c = task[w].job
  OBVIOUS
<1>t. /\ task \in [Workers -> Task] /\ job \in [Captures -> Job]
      /\ files \subseteq Captures \X Exts
      /\ WorkerFile(w) /\ "overrun" \notin Faults /\ "database" \notin Faults
      /\ "interrupt" \notin Faults
  BY DEF IndInv, TypeOK, FileInv, OnlyKills
<1>o. t.pc # "idle" =>
        /\ c \in Captures /\ Exists(c)
        /\ t.pc # "cleanup" => job[c].status = "running"
        /\ t.pc # "cleanup" =>
             \A v \in Workers : task[v].job = c /\ task[v].pc # "cleanup" => v = w
  BY Owned, <1>c
<1>r. \A v \in Workers : task[v].pc \in Reading =>
        job[task[v].job].status = "running" /\ task[v].pc # "cleanup"
  BY Owned DEF Reading
(* The task is given up, and nothing is removed but after an end.          *)
<1>i. ASSUME UNCHANGED <<tables, handlers>>, task' = [task EXCEPT ![w] = Idle],
             \/ files' = files
             \/ t.pc = "cleanup" /\ files' = files \ {InputFile(w)}
      PROVE  FileInv'
  <2>1. task'[w] = Idle /\ \A v \in Workers \ {w} : task'[v] = task[v]
    BY <1>t, <1>i
  <2>2. WorkerFile(w)'
    BY <2>1 DEF WorkerFile, Idle
  <2>3. ASSUME t.pc = "cleanup" PROVE Exists(c) /\ ~Wanted(c)'
    <3>1. job[c].status \in Terminal /\ Exists(c)
      BY <2>3, <1>t, <1>o, <1>c DEF WorkerFile
    <3>2. \A v \in Workers : task'[v].job = c => task'[v].pc \notin Reading
      BY <2>1, <3>1, <1>r DEF Terminal, Idle, Reading
    <3>3. job'[c] = job[c]
      BY <1>i DEF tables
    <3>4. QED
      BY <3>1, <3>2, <3>3 DEF Wanted, Terminal
  <2>4. \A d, e : <<d, e>> \in files \ files' => t.pc = "cleanup" /\ d = c
    BY <1>i, <1>c DEF InputFile
  <2>5. task'[w].pc \notin Reading
    BY <2>1 DEF Idle, Reading
  <2>6. QED
    BY <1>i, <2>1, <2>2, <2>3, <2>4, <2>5, QuietFrame
(* The task goes on, and no file is removed.                               *)
<1>g. ASSUME NEW new, UNCHANGED <<tables, handlers, files>>,
             task' = [task EXCEPT ![w] = new], new.job = c, t.pc # "idle",
             new.pc \in Reading => t.pc \in Reading,
             /\ new.pc \notin {"idle", "claimed", "cleanup"} => new.path = job[c].path
             /\ new.unlinks => new.pc \in {"extracted", "persisting", "cleanup"}
             /\ new.pc = "persisting" => new.base = 0
             /\ new.pc # "cleanup"
             /\ new.pc = "failing" /\ ~new.retry => Excused(c)
             /\ new.pc = "purging" => Excused(c) \/ job[c].attempts = MaxAttempts
      PROVE  FileInv'
  <2>1. task'[w] = new /\ \A v \in Workers \ {w} : task'[v] = task[v]
    BY <1>t, <1>g
  <2>2. job' = job /\ Excused(c)' = Excused(c)
    BY <1>g DEF tables, handlers, Excused
  <2>3. WorkerFile(w)'
    BY <2>1, <2>2, <1>g DEF WorkerFile
  <2>4. QED
    BY <1>g, <1>c, <2>1, <2>3, QuietFrame
<1>1. CASE ReadJob(w)
  <2> DEFINE new == [t EXCEPT !.pc = "located", !.path = job[c].path]
  <2>1. t.pc = "claimed" /\ UNCHANGED <<tables, files, handlers>>
    BY <1>1 DEF ReadJob
  <2>2. task' = [task EXCEPT ![w] = new]
    BY <1>1, <1>c, <1>o, <2>1 DEF ReadJob
  <2>3. new.pc = "located" /\ new.job = c /\ new.path = job[c].path /\ new.unlinks = t.unlinks
    BY <1>t, <1>c DEF Task
  <2> HIDE DEF new
  <2>4. QED
    BY <2>1, <2>2, <2>3, <1>g, <1>t DEF WorkerFile, Reading
<1>2. CASE CheckFile(w)
  <2> DEFINE new == [t EXCEPT !.pc = IF InputFile(w) \in files THEN "extracting"
                                     ELSE "failing"]
  <2>1. t.pc = "located" /\ t.path = job[c].path /\ UNCHANGED <<tables, files, handlers>>
    BY <1>2, <1>c, <1>t DEF CheckFile, WorkerFile
  <2>2. task' = [task EXCEPT ![w] = new]
    BY <1>2, <1>t DEF CheckFile
  <2>3. InputFile(w) \notin files => Excused(c)
    <3>1. Wanted(c)
      BY <1>c, <2>1 DEF Wanted, Reading
    <3>2. Kept(c)
      BY <3>1, <2>1, <1>o DEF FileInv, WantedKept
    <3>3. QED
      BY <3>2, <2>1, <1>c DEF Kept, InputFile
  <2>4. /\ new.job = c /\ new.path = t.path /\ new.unlinks = t.unlinks
        /\ new.pc = IF InputFile(w) \in files THEN "extracting" ELSE "failing"
    BY <1>t, <1>c DEF Task
  <2> HIDE DEF new
  <2>5. QED
    BY <2>1, <2>2, <2>3, <2>4, <1>g, <1>t DEF WorkerFile, Reading
<1>3. CASE Extract(w)
  <2> DEFINE new == [t EXCEPT !.pc = "extracted", !.unlinks = TRUE]
  <2>1. /\ t.pc = "extracting" /\ UNCHANGED <<tables, files, handlers>>
        /\ task' = [task EXCEPT ![w] = new]
    BY <1>3 DEF Extract
  <2>2. new.pc = "extracted" /\ new.job = c /\ new.path = t.path
    BY <1>t, <1>c DEF Task
  <2> HIDE DEF new
  <2>3. QED
    BY <2>1, <2>2, <1>g, <1>t, <1>c DEF WorkerFile, Reading
<1>4. CASE ExtractFails(w)
  <2> DEFINE new == [t EXCEPT !.pc = "failing", !.retry = TRUE]
  <2>1. /\ t.pc = "extracting" /\ UNCHANGED <<tables, files, handlers>>
        /\ task' = [task EXCEPT ![w] = new]
    BY <1>4 DEF ExtractFails
  <2>2. /\ new.pc = "failing" /\ new.job = c /\ new.path = t.path /\ new.retry
        /\ new.unlinks = t.unlinks
    BY <1>t, <1>c DEF Task
  <2> HIDE DEF new
  <2>3. QED
    BY <2>1, <2>2, <1>g, <1>t, <1>c DEF WorkerFile, Reading
<1>5. CASE PersistBegin(w)
  <2> DEFINE new == [t EXCEPT !.pc = "persisting", !.seen = job[c].status, !.base = rows[c]]
  <2>1. /\ t.pc = "extracted" /\ UNCHANGED <<tables, files, handlers>>
        /\ task' = [task EXCEPT ![w] = new]
    BY <1>5, <1>c DEF PersistBegin
  <2>2. rows[c] = 0
    BY <2>1, <1>o DEF IndInv, ReadInv, ResultsMatch, OnlyKills
  <2>3. new.pc = "persisting" /\ new.job = c /\ new.path = t.path /\ new.base = 0
    BY <1>t, <1>c, <2>2 DEF Task
  <2> HIDE DEF new
  <2>4. QED
    BY <2>1, <2>3, <1>g, <1>t, <1>c DEF WorkerFile, Reading
<1>6. CASE PersistFails(w)
  <2>1. t.pc = "persisting" /\ rows[c] # t.base /\ t.base = 0
    BY <1>6, <1>t, <1>c DEF PersistFails, Collides, WorkerFile
  <2>2. rows[c] = 0
    BY <2>1, <1>o DEF IndInv, ReadInv, ResultsMatch, OnlyKills
  <2>3. QED
    BY <2>1, <2>2
<1>7. CASE Cleanup(w)
  BY <1>7, <1>i DEF Cleanup
<1>8. CASE FailRead(w)
  <2> DEFINE again == t.retry /\ job[c].attempts < MaxAttempts
             new == [t EXCEPT !.retry = again, !.seen = job[c].status,
                       !.pc = IF again \/ job[c].path = NoPath THEN "reporting"
                              ELSE "purging"]
  <2>1. t.pc = "failing" /\ task' = [task EXCEPT ![w] = new]
          /\ UNCHANGED <<tables, files, handlers>>
    BY <1>8, <1>c DEF FailRead
  <2>2. /\ new.job = c /\ new.path = t.path /\ new.unlinks = t.unlinks
        /\ new.pc = IF again \/ job[c].path = NoPath THEN "reporting" ELSE "purging"
    BY <1>t, <1>c DEF Task
  <2>3. job[c].attempts \in 0..MaxAttempts
    BY <1>t, <1>o, <2>1 DEF Job
  <2>5. ~again => ~t.retry \/ job[c].attempts = MaxAttempts
    BY <2>3, MaxNat
  <2> HIDE DEF new
  <2>4. QED
    BY <2>1, <2>2, <2>5, <1>g, <1>t, <1>c DEF WorkerFile, Reading
<1>9. CASE Purge(w)
  <2> DEFINE new == [t EXCEPT !.pc = "reporting"]
  <2>1. /\ t.pc = "purging" /\ files' = files \ {InputFile(w)}
        /\ task' = [task EXCEPT ![w] = new] /\ UNCHANGED <<tables, handlers>>
    BY <1>9, <1>t DEF Purge
  <2>2. task'[w] = new /\ \A v \in Workers \ {w} : task'[v] = task[v]
    BY <1>t, <2>1
  <2>3. new.pc = "reporting" /\ new.job = c /\ new.path = t.path /\ new.unlinks = t.unlinks
    BY <1>t, <1>c DEF Task
  <2> HIDE DEF new
  <2>4. WorkerFile(w)'
    BY <1>t, <1>c, <2>1, <2>2, <2>3 DEF WorkerFile, tables
  <2>5. Wanted(c)' => Excused(c)
    <3>1. \A v \in Workers : task'[v].job = c => task'[v].pc \notin Reading
      BY <2>1, <2>2, <2>3, <1>o, <1>r DEF Reading
    <3>2. Wanted(c)' => job[c].attempts < MaxAttempts
      BY <2>1, <3>1 DEF Wanted, tables
    <3>3. Excused(c) \/ job[c].attempts = MaxAttempts
      BY <1>t, <1>c, <2>1 DEF WorkerFile
    <3>4. QED
      BY <3>2, <3>3, MaxNat
  <2>6. \A d, e : <<d, e>> \in files \ files' => d = c
    BY <2>1, <1>c DEF InputFile
  <2>7. QED
    BY <2>1, <2>2, <2>3, <2>4, <2>5, <2>6, <1>o, QuietFrame DEF Reading
<1>10. CASE WorkerFault(w) \/ Interrupt(w)
  BY <1>10, <1>t DEF WorkerFault, Interrupt
<1>11. CASE Crash(w)
  BY <1>11, <1>i DEF Crash
<1>12. QED
  BY <1>1, <1>2, <1>3, <1>4, <1>5, <1>6, <1>7, <1>8, <1>9, <1>10, <1>11
  DEF QuietStep

(***************************************************************************)
(* Worker steps that write the tables, and the lapse of a lease: none of   *)
(* them touches a file.                                                    *)
(***************************************************************************)
(* Every other job keeps its path and its attempts, and its status unless  *)
(* it is requeued; job d is not wanted that was not, and those who work    *)
(* for it know what they should.                                           *)
LEMMA TableFrame ==
  ASSUME IndInv, FileInv, OnlyKills, Next, NEW d \in Captures, NEW w \in Workers,
         UNCHANGED <<files, handlers>>, \A v \in Workers \ {w} : task'[v] = task[v],
         task'[w].pc \in Reading => task'[w].job = d, WorkerFile(w)',
         \A c \in Captures \ {d} :
           /\ job'[c].path = job[c].path /\ job'[c].attempts = job[c].attempts
           /\ \/ job'[c].status = job[c].status
              \/ {job[c].status, job'[c].status} \subseteq {"queued", "running"},
         Wanted(d)' => Wanted(d) /\ job'[d].path = job[d].path,
         \A v \in Workers \ {w} : task[v].job = d =>
           task[v].pc = "cleanup" /\ job'[d].status \in Terminal
  PROVE  FileInv'
<1>t. /\ req' = req /\ ext' = ext /\ files' = files
      /\ Body \in [Uploads -> Captures]
  BY QueueAssumption DEF handlers
<1>k. \A c : Excused(c) /\ job'[c].path = job[c].path => Excused(c)'
  BY <1>t, ExcuseStays
<1>1. NoneUnwinds'
  BY <1>t DEF FileInv, NoneUnwinds
<1>2. PlacedKept'
  <2>1. \A c \in Captures : Exists(c) => Exists(c)'
    BY ExistsStays
  <2>2. \A u \in Uploads : FinalFile(u)' = FinalFile(u)
    BY <1>t DEF FinalFile
  <2>3. QED
    BY <1>t, <2>1, <2>2 DEF FileInv, PlacedKept
<1>3. ASSUME NEW c \in Captures, Wanted(c)' PROVE Kept(c)'
  <2>1. Wanted(c) /\ job'[c].path = job[c].path
    <3>1. CASE c = d
      BY <3>1, <1>3
    <3>2. CASE c # d
      <4>1. \A v \in Workers : task'[v].job = c /\ task'[v].pc \in Reading =>
                                task[v] = task'[v]
        BY <3>2
      <4>2. /\ job'[c].path = job[c].path /\ job'[c].attempts = job[c].attempts
            /\ job'[c].status \in {"queued", "running"} =>
                 job[c].status \in {"queued", "running"}
        BY <3>2
      <4>3. QED
        BY <1>3, <4>1, <4>2 DEF Wanted
    <3>3. QED
      BY <3>1, <3>2
  <2>2. Kept(c)
    BY <2>1 DEF FileInv, WantedKept
  <2>3. QED
    BY <2>1, <2>2, <1>t, <1>k DEF Kept
<1>4. ASSUME NEW v \in Workers PROVE WorkerFile(v)'
  <2>1. CASE v = w
    BY <2>1
  <2>2. CASE v # w
    <3>1. PICK c : c = task[v].job
      OBVIOUS
    <3>2. task'[v] = task[v] /\ WorkerFile(v)
      BY <2>2 DEF FileInv
    <3>3. CASE task[v].pc = "idle"
      BY <3>2, <3>3 DEF WorkerFile
    <3>4. CASE task[v].pc # "idle" /\ c = d
      <4>1. task[v].pc = "cleanup" /\ job'[d].status \in Terminal /\ task'[v].job = d
        BY <2>2, <3>1, <3>2, <3>4
      <4>2. job'[task'[v].job].status \in Terminal
        BY <4>1
      <4>3. QED
        BY <3>2, <4>1, <4>2 DEF WorkerFile
    <3>5. CASE task[v].pc # "idle" /\ c # d
      <4>1. c \in Captures \ {d}
        BY <3>1, <3>5, Owned
      <4>2. /\ job'[c].path = job[c].path /\ job'[c].attempts = job[c].attempts
            /\ job[c].status \in Terminal => job'[c].status \in Terminal
            /\ Excused(c) => Excused(c)'
        BY <4>1, <1>k DEF Terminal
      <4>3. QED
        BY <3>1, <3>2, <4>2 DEF WorkerFile
    <3>6. QED
      BY <3>3, <3>4, <3>5
  <2>3. QED
    BY <2>1, <2>2
<1>5. QED
  BY <1>1, <1>2, <1>3, <1>4 DEF FileInv, WantedKept

(* The sweep changes nothing but the status and the lease of a job.        *)
LEMMA SweptPath ==
  ASSUME IndInv, NEW c \in Captures
  PROVE  Swept[c].path = job[c].path
<1>1. job[c] \in Job
  BY DEF IndInv, TypeOK
<1>2. Swept[c] = job[c] \/ Swept[c] = [job[c] EXCEPT !.status = "queued", !.lease = "none"]
  BY DEF Swept
<1>3. QED
  BY <1>1, <1>2 DEF Job

LEMMA ClaimFiles ==
  ASSUME IndInv, FileInv, OnlyKills, NEW w \in Workers, Claim(w)
  PROVE  FileInv'
<1>1. PICK c \in Captures :
        /\ Claimable(Swept[c])
        /\ job' = [Swept EXCEPT ![c] = Started(Swept[c])]
        /\ task' = [task EXCEPT
             ![w] = [Idle EXCEPT !.pc = "claimed", !.job = c,
                                 !.try = Swept[c].attempts + 1]]
        /\ UNCHANGED <<files, handlers>>
  BY DEF Claim
<1>t. task \in [Workers -> Task] /\ Swept \in [Captures -> Job] /\ "overrun" \notin Faults
  BY SweptType DEF IndInv, TypeOK, OnlyKills
<1>2. \A d \in Captures \ {c} : job'[d] = Swept[d]
  BY <1>1, <1>t
<1>3. \A d \in Captures \ {c} :
        /\ job'[d].path = job[d].path /\ job'[d].attempts = job[d].attempts
        /\ \/ job'[d].status = job[d].status
           \/ {job[d].status, job'[d].status} \subseteq {"queued", "running"}
  BY <1>2, SweptRow, SweptPath
<1>4. /\ job[c].status \in {"queued", "running"} /\ job[c].attempts < MaxAttempts
      /\ Swept[c].status = "queued"
  BY <1>1, SweptRow DEF Claimable
<1>5. Wanted(c) /\ job'[c].path = job[c].path
  BY <1>1, <1>4, <1>t, SweptPath DEF Wanted, Started, Job
<1>6. \A v \in Workers : task[v].job # c
  <2> SUFFICES ASSUME NEW v \in Workers, task[v].job = c PROVE FALSE
    OBVIOUS
  <2>1. task[v].pc # "idle"
    BY QueueAssumption DEF IndInv, BusyInv
  <2>2. CASE task[v].pc = "cleanup"
    BY <2>2, <1>4 DEF FileInv, WorkerFile, Terminal
  <2>3. CASE task[v].pc # "cleanup"
    <3>1. Owns(v, c) /\ job[c].status = "running"
      BY <2>1, <2>3, Owned DEF Owns
    <3>2. Swept[c] = job[c]
      BY <3>1, <1>t, SweptRow
    <3>3. QED
      BY <3>1, <3>2, <1>4
  <2>4. QED
    BY <2>2, <2>3
<1>7. /\ task'[w].pc = "claimed" /\ task'[w].job = c /\ task'[w].unlinks = FALSE
      /\ \A v \in Workers \ {w} : task'[v] = task[v]
  BY <1>1, <1>t DEF Idle
<1>8. WorkerFile(w)'
  BY <1>7 DEF WorkerFile
<1>9. Next
  BY DEF Next, WorkerStep
<1>10. QED
  BY <1>1, <1>3, <1>5, <1>6, <1>7, <1>8, <1>9, TableFrame

(* The sweep alone, and the lapse of a lease: no job is a special one.     *)
LEMMA RequeueFiles ==
  ASSUME IndInv, FileInv, OnlyKills, Next, UNCHANGED <<files, handlers, task>>,
         \A c \in Captures :
           /\ job'[c].path = job[c].path /\ job'[c].attempts = job[c].attempts
           /\ \/ job'[c].status = job[c].status
              \/ {job[c].status, job'[c].status} \subseteq {"queued", "running"}
  PROVE  FileInv'
<1>t. req' = req /\ ext' = ext /\ Body \in [Uploads -> Captures]
  BY QueueAssumption DEF handlers
<1>k. \A c \in Captures : Excused(c) => Excused(c)'
  BY <1>t, ExcuseStays
<1>1. NoneUnwinds'
  BY <1>t DEF FileInv, NoneUnwinds
<1>2. PlacedKept'
  <2>1. \A c \in Captures : Exists(c) => Exists(c)'
    BY ExistsStays
  <2>2. \A u \in Uploads : FinalFile(u)' = FinalFile(u)
    BY <1>t DEF FinalFile
  <2>3. QED
    BY <1>t, <2>1, <2>2 DEF FileInv, PlacedKept
<1>3. ASSUME NEW c \in Captures, Wanted(c)' PROVE Kept(c)'
  <2>1. Wanted(c)
    BY <1>3 DEF Wanted
  <2>2. Kept(c)
    BY <2>1 DEF FileInv, WantedKept
  <2>3. QED
    BY <2>2, <1>k DEF Kept
<1>4. ASSUME NEW v \in Workers PROVE WorkerFile(v)'
  <2>1. PICK c : c = task[v].job
    OBVIOUS
  <2>2. WorkerFile(v) /\ task' = task
    BY DEF FileInv
  <2>3. CASE task[v].pc = "idle"
    BY <2>2, <2>3 DEF WorkerFile
  <2>4. CASE task[v].pc # "idle"
    <3>1. c \in Captures
      BY <2>1, <2>4, Owned
    <3>2. /\ job'[c].path = job[c].path /\ job'[c].attempts = job[c].attempts
          /\ job[c].status \in Terminal => job'[c].status \in Terminal
          /\ Excused(c) => Excused(c)'
      BY <3>1, <1>k DEF Terminal
    <3>3. QED
      BY <2>1, <2>2, <3>2 DEF WorkerFile
  <2>5. QED
    BY <2>3, <2>4
<1>5. QED
  BY <1>1, <1>2, <1>3, <1>4 DEF FileInv, WantedKept

LEMMA PersistFiles ==
  ASSUME IndInv, FileInv, OnlyKills, NEW w \in Workers, PersistCommit(w)
  PROVE  FileInv'
<1>c. PICK c : c = task[w].job
  OBVIOUS
<1> DEFINE outcome == IF c \in Mail THEN "complete" ELSE "empty"
           new == [task[w] EXCEPT !.pc = "cleanup", !.retry = TRUE]
<1>t. task \in [Workers -> Task] /\ job \in [Captures -> Job]
  BY DEF IndInv, TypeOK
<1>1. /\ task[w].pc = "persisting" /\ UNCHANGED <<files, handlers>>
      /\ job' = [job EXCEPT ![c] = Flushed(job[c], task[w].seen, outcome, NoPath)]
      /\ task' = [task EXCEPT ![w] = new]
  BY <1>c DEF PersistCommit, Persist
<1>2. /\ c \in Captures /\ task[w].seen = "running"
      /\ \A v \in Workers : task[v].job = c /\ task[v].pc # "cleanup" => v = w
  BY <1>1, <1>c, Owned DEF Loaded
<1>3. /\ \A d \in Captures \ {c} : job'[d] = job[d]
      /\ job'[c].status = outcome /\ outcome \in Terminal
  BY <1>1, <1>2, <1>t DEF Flushed, Job, Terminal
<1>4. /\ task'[w].pc = "cleanup" /\ task'[w].job = c
      /\ \A v \in Workers \ {w} : task'[v] = task[v]
  BY <1>1, <1>c, <1>t DEF Task
<1>5. \A v \in Workers : task'[v].job = c => task'[v].pc = "cleanup"
  BY <1>2, <1>4
<1>6. ~Wanted(c)'
  BY <1>3, <1>5 DEF Wanted, Terminal, Reading
<1>7. WorkerFile(w)'
  BY <1>3, <1>4 DEF WorkerFile
<1>8. Next
  BY DEF Next, WorkerStep
<1>9. task'[w].pc \notin Reading
  BY <1>4 DEF Reading
<1>10. \A v \in Workers \ {w} : task[v].job = c => task[v].pc = "cleanup"
  BY <1>2
<1>11. QED
  BY <1>1, <1>2, <1>3, <1>4, <1>6, <1>7, <1>8, <1>9, <1>10, TableFrame

LEMMA ReportFiles ==
  ASSUME IndInv, FileInv, OnlyKills, NEW w \in Workers, Report(w)
  PROVE  FileInv'
<1>c. PICK c : c = task[w].job
  OBVIOUS
<1> DEFINE retry == task[w].retry
           verdict == IF retry THEN "queued" ELSE "failed"
           path == IF retry THEN job[c].path ELSE NoPath
<1>t. task \in [Workers -> Task] /\ job \in [Captures -> Job] /\ WorkerFile(w)
  BY DEF IndInv, TypeOK, FileInv
<1>1. /\ task[w].pc = "reporting" /\ UNCHANGED <<files, handlers>> /\ Return(w)
      /\ job' = [job EXCEPT ![c] = Flushed(job[c], task[w].seen, verdict, path)]
  BY <1>c DEF Report
<1>2. /\ c \in Captures /\ task[w].seen = "running" /\ job[c].status = "running"
      /\ \A v \in Workers : task[v].job = c /\ task[v].pc # "cleanup" => v = w
  BY <1>1, <1>c, Owned DEF Loaded
<1>3. /\ \A d \in Captures \ {c} : job'[d] = job[d]
      /\ job'[c].status = verdict /\ job'[c].attempts = job[c].attempts
      /\ job'[c].path = path
  BY <1>1, <1>2, <1>t DEF Flushed, Job
<1>4. task'[w] = Idle /\ \A v \in Workers \ {w} : task'[v] = task[v]
  <2>1. ~task[w].unlinks
    BY <1>1, <1>t DEF WorkerFile
  <2>2. QED
    BY <1>1, <1>t, <2>1 DEF Return
<1>5. \A v \in Workers \ {w} : task[v].job # c
  <2>1. \A v \in Workers : task[v].job = c /\ task[v].pc = "cleanup" =>
                             job[c].status \in Terminal
    BY DEF FileInv, WorkerFile
  <2>2. QED
    BY <1>2, <2>1 DEF Terminal
<1>6. \A v \in Workers : task'[v].job = c => task'[v].pc \notin Reading
  BY <1>4, <1>5 DEF Idle, Reading
<1>7. Wanted(c)' => Wanted(c) /\ job'[c].path = job[c].path
  BY <1>2, <1>3, <1>6 DEF Wanted
<1>8. WorkerFile(w)'
  BY <1>4 DEF WorkerFile, Idle
<1>9. Next
  BY DEF Next, WorkerStep
<1>10. task'[w].pc \notin Reading
  BY <1>4 DEF Idle, Reading
<1>11. QED
  BY <1>1, <1>2, <1>3, <1>4, <1>5, <1>7, <1>8, <1>9, <1>10, TableFrame

(***************************************************************************)
(* The theorem.                                                            *)
(***************************************************************************)
LEMMA InitFiles == Init => FileInv
<1> SUFFICES ASSUME Init PROVE FileInv
  OBVIOUS
<1>1. \A w \in Workers : task[w].pc = "idle" /\ task[w].unlinks = FALSE
  BY DEF Init, Idle
<1>2. \A c \in Captures : job[c].status = "absent"
  BY DEF Init, NoRow
<1>3. \A u \in Uploads : req[u] = "new"
  BY DEF Init
<1>4. QED
  BY <1>1, <1>2, <1>3 DEF FileInv, NoneUnwinds, PlacedKept, WantedKept, Wanted, WorkerFile,
     Reading

LEMMA StepFiles ==
  OnlyKills /\ IndInv /\ AnswerInv /\ FileInv /\ [Next]_vars => FileInv'
<1> SUFFICES ASSUME OnlyKills, IndInv, AnswerInv, FileInv, [Next]_vars PROVE FileInv'
  OBVIOUS
<1>1. CASE UNCHANGED vars
  <2>1. UNCHANGED <<job, files, req, ext, task>>
    BY <1>1 DEF vars
  <2>2. QED
    BY <2>1 DEF FileInv, NoneUnwinds, PlacedKept, WantedKept, Wanted, Kept, Excused,
       WorkerFile, Exists, FinalFile
<1>2. ASSUME NEW u \in Uploads, UploadStep(u) PROVE FileInv'
  BY <1>2, UploadFiles
<1>3. ASSUME NEW w \in Workers, WorkerStep(w) \/ Crash(w) \/ Interrupt(w)
      PROVE  FileInv'
  <2>1. CASE QuietStep(w)
    BY <2>1, QuietFiles
  <2>2. CASE Claim(w)
    BY <2>2, ClaimFiles
  <2>3. CASE Sweep(w)
    <3>1. Next /\ job' = Swept /\ UNCHANGED <<files, handlers, task>>
      BY <2>3 DEF Next, WorkerStep, Sweep
    <3>2. QED
      BY <3>1, SweptRow, SweptPath, RequeueFiles
  <2>4. CASE PersistCommit(w)
    BY <2>4, PersistFiles
  <2>5. CASE PersistUnacknowledged(w)
    BY <2>5 DEF PersistUnacknowledged, OnlyKills
  <2>6. CASE Report(w)
    BY <2>6, ReportFiles
  <2>7. QED
    BY <1>3, <2>1, <2>2, <2>3, <2>4, <2>5, <2>6 DEF WorkerStep, QuietStep
<1>4. ASSUME NEW c \in Captures, LeaseLapse(c) PROVE FileInv'
  <2>1. Next /\ UNCHANGED <<files, handlers, task>>
    BY <1>4 DEF Next, LeaseLapse
  <2>2. \A d \in Captures : /\ job'[d].path = job[d].path
                            /\ job'[d].attempts = job[d].attempts
                            /\ job'[d].status = job[d].status
    BY <1>4 DEF LeaseLapse, IndInv, TypeOK, Job
  <2>3. QED
    BY <2>1, <2>2, RequeueFiles
<1>5. CASE ApiCrash
  BY <1>5, ApiCrashFiles
<1>6. QED
  BY <1>1, <1>2, <1>3, <1>4, <1>5 DEF Next

(* Only an upload of the same bytes that loses the race for the insert can *)
(* take away the file of a job that is queued for an attempt or about to   *)
(* be read: neither a worker, however many of them die and at whatever     *)
(* moment, nor a sweep, nor any other upload (worker.py,                   *)
(* capture_routes.py:171-177).                                             *)
THEOREM FilesAreKept == Spec => []OnlyCollisionLosesFile
<1>1. CASE OnlyKills
  <2>1. Init => AnswerInv
    BY DEF Init, AnswerInv, UploadIdempotent
  <2>2. Spec => []AnswerInv
    BY Inductive, AnswerStep, <2>1, PTL DEF Spec
  <2>3. IndInv /\ AnswerInv /\ FileInv /\ [Next]_vars => FileInv'
    BY <1>1, StepFiles
  <2>4. FileInv => OnlyCollisionLosesFile
    BY DEF FileInv, WantedKept, Wanted, Kept, Excused, OnlyCollisionLosesFile, Needed,
       Claimable, Reading
  <2>5. QED
    BY Inductive, InitFiles, <2>2, <2>3, <2>4, PTL DEF Spec
<1>2. CASE ~OnlyKills
  <2>1. OnlyCollisionLosesFile
    BY <1>2 DEF OnlyCollisionLosesFile, OnlyKills
  <2>2. QED
    BY <2>1, PTL
<1>3. QED
  BY <1>1, <1>2
=============================================================================
