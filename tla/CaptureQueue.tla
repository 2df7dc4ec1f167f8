--------------------------- MODULE CaptureQueue ---------------------------
(***************************************************************************)
(* The PCAP extraction queue: HTTP uploads (api/capture_routes.py), the    *)
(* capture_jobs and capture_sessions tables (api/database.py), the spool   *)
(* directory that the API and the workers share, and the extraction        *)
(* workers (api/worker.py).                                                *)
(*                                                                         *)
(* A step is what the program does between two points where another        *)
(* process or coroutine can run: one database transaction or query, or the *)
(* file operations up to the next await.  The database is PostgreSQL at    *)
(* READ COMMITTED, as in compose.yaml.                                     *)
(***************************************************************************)
EXTENDS Naturals, FiniteSets

CONSTANTS
  Captures,     \* capture ids, one per distinct file content (its SHA-256)
  Uploads,      \* HTTP upload requests, each of them made at most once
  Body,         \* the content each upload carries
  Mail,         \* the captures that hold at least one mail session
  Workers,      \* worker processes
  MaxAttempts,  \* capture_jobs.max_attempts
  Faults,       \* what may go wrong, a subset of FaultKinds
  NoJob         \* the job of an idle worker

FaultKinds ==
  { "extract",    \* TShark is missing, rejects the file or exceeds the timeout
    "crash",      \* a worker process is killed
    "interrupt",  \* a worker is cancelled (SIGINT): finally clauses still run
    "api_crash",  \* the API process is killed
    "database",   \* a worker's database call raises, before or after its effect
    "api_database",  \* as "database", in an upload handler
    "overrun" }   \* a lease lapses while the worker that took it still works

ASSUME QueueAssumption ==
  /\ IsFiniteSet(Captures)
  /\ Body \in [Uploads -> Captures]
  /\ Mail \subseteq Captures
  /\ MaxAttempts \in Nat \ {0}
  /\ Faults \subseteq FaultKinds
  /\ NoJob \notin Captures

VARIABLES
  job,    \* capture_jobs, by capture_id
  rows,   \* capture_sessions: the attempt that wrote a capture's rows, 0 if none
  files,  \* spooled captures, named by capture_id and extension
  temps,  \* uploads whose ".upload-" temporary file exists
  req,    \* progress of each upload handler
  ext,    \* extension of each upload's file name
  task    \* what each worker is doing, with the locals it has read

vars == <<job, rows, files, temps, req, ext, task>>
tables == <<job, rows>>
handlers == <<temps, req, ext>>

Exts == {"pcap", "pcapng"}
NoPath == "none"
Terminal == {"complete", "empty", "failed"}
Status == {"absent", "queued", "running"} \cup Terminal

(* A row of capture_jobs.  lease is started_at as the sweep sees it: never *)
(* set, within LEASE_TIMEOUT_SECONDS, or older.                            *)
Job == [status : Status, attempts : 0..MaxAttempts,
        path : Exts \cup {NoPath}, lease : {"none", "fresh", "stale"},
        created : Nat]

NoRow == [status |-> "absent", attempts |-> 0, path |-> NoPath,
          lease |-> "none", created |-> 0]

(* try is the claim the worker works for; the code does not keep it.  seen *)
(* and base are the status and the session rows a transaction read, retry  *)
(* is should_retry, unlinks says that the finally clause is still to run.  *)
Task == [pc : {"idle", "claimed", "located", "extracting", "extracted",
               "persisting", "failing", "purging", "reporting", "cleanup"},
         job : Captures \cup {NoJob}, try : 0..MaxAttempts,
         path : Exts \cup {NoPath}, seen : Status, base : 0..MaxAttempts,
         retry : BOOLEAN, unlinks : BOOLEAN]

Idle == [pc |-> "idle", job |-> NoJob, try |-> 0, path |-> NoPath,
         seen |-> "absent", base |-> 0, retry |-> FALSE, unlinks |-> FALSE]

Init ==
  /\ job = [c \in Captures |-> NoRow]
  /\ rows = [c \in Captures |-> 0]
  /\ files = {}
  /\ temps = {}
  /\ req = [u \in Uploads |-> "new"]
  /\ ext = [u \in Uploads |-> "pcap"]
  /\ task = [w \in Workers |-> Idle]

---------------------------------------------------------------------------
(* Uploads: create_capture_job.                                            *)

Exists(c) == job[c].status # "absent"
FinalFile(u) == <<Body[u], ext[u]>>

Goto(u, from, to) == req[u] = from /\ req' = [req EXCEPT ![u] = to]

(* _write_capture streams the body into a temporary file.                  *)
Receive(u) ==
  /\ Goto(u, "new", "stored")
  /\ \E e \in Exts : ext' = [ext EXCEPT ![u] = e]
  /\ temps' = temps \cup {u}
  /\ UNCHANGED <<tables, files, task>>

(* _write_capture answers 413 or 422 and removes its temporary file.       *)
Reject(u) ==
  /\ Goto(u, "new", "rejected")
  /\ UNCHANGED <<tables, files, temps, ext, task>>

(* Mutant of FindExisting: the duplicate removes the stored capture.       *)
FindExistingUnlinksFinal(u) ==
  /\ Exists(Body[u])
  /\ Goto(u, "stored", "duplicate")
  /\ files' = files \ {FinalFile(u)}
  /\ UNCHANGED <<tables, temps, ext, task>>

FindExisting(u) ==
  /\ Exists(Body[u])
  /\ Goto(u, "stored", "duplicate")
  /\ temps' = temps \ {u}
  /\ UNCHANGED <<tables, files, ext, task>>

FindNone(u) ==
  /\ ~Exists(Body[u])
  /\ Goto(u, "stored", "absent")
  /\ UNCHANGED <<tables, files, temps, ext, task>>

(* os.replace, in the turn that follows the query.                         *)
Place(u) ==
  /\ Goto(u, "absent", "placed")
  /\ temps' = temps \ {u}
  /\ files' = files \cup {FinalFile(u)}
  /\ UNCHANGED <<tables, ext, task>>

(* Mutant of InsertJob: capture_id is not unique.                          *)
InsertAgain(u) ==
  /\ job' = [job EXCEPT ![Body[u]] =
               [NoRow EXCEPT !.status = "queued", !.path = ext[u]]]
  /\ UNCHANGED <<rows, files, temps, ext, task>>

InsertJob(u) ==
  /\ ~Exists(Body[u])
  /\ job' = [job EXCEPT ![Body[u]] =
               [status |-> "queued", attempts |-> 0, path |-> ext[u],
                lease |-> "none",
                created |-> Cardinality({c \in Captures : Exists(c)}) + 1]]
  /\ UNCHANGED <<rows, files, temps, ext, task>>

Insert(u) == Goto(u, "placed", "accepted") /\ InsertJob(u)

(* The unique index on capture_id refuses the row: IntegrityError.  The    *)
(* client gets the same answer as for a duplicate.                         *)
InsertConflict(u) ==
  /\ Exists(Body[u])
  /\ Goto(u, "placed", "conflict")
  /\ UNCHANGED <<tables, files, temps, ext, task>>

ConflictCleanup(u) ==
  /\ Goto(u, "conflict", "collided")
  /\ files' = files \ {FinalFile(u)}
  /\ UNCHANGED <<tables, temps, ext, task>>

(* A database call raises and the outer handler removes both files, at     *)
(* once or, when the insert was durable all the same, after it.            *)
UploadFault(u) ==
  /\ "api_database" \in Faults
  /\ req[u] \in {"stored", "placed", "conflict"}
  /\ req' = [req EXCEPT ![u] = "error"]
  /\ temps' = temps \ {u}
  /\ files' = files \ {FinalFile(u)}
  /\ UNCHANGED <<tables, ext, task>>

InsertUnacknowledged(u) ==
  /\ "api_database" \in Faults
  /\ Goto(u, "placed", "unwinding")
  /\ InsertJob(u)

Unwind(u) ==
  /\ Goto(u, "unwinding", "error")
  /\ files' = files \ {FinalFile(u)}
  /\ UNCHANGED <<tables, temps, ext, task>>

InFlight == {"stored", "absent", "placed", "conflict", "unwinding"}

ApiCrash ==
  /\ "api_crash" \in Faults
  /\ \E u \in Uploads : req[u] \in InFlight
  /\ req' = [u \in Uploads |-> IF req[u] \in InFlight THEN "lost" ELSE req[u]]
  /\ UNCHANGED <<tables, files, temps, ext, task>>

UploadStep(u) ==
  \/ Receive(u) \/ Reject(u) \/ FindExisting(u) \/ FindNone(u) \/ Place(u)
  \/ Insert(u) \/ InsertConflict(u) \/ ConflictCleanup(u)
  \/ UploadFault(u) \/ InsertUnacknowledged(u) \/ Unwind(u)

---------------------------------------------------------------------------
(* Leases and claims: _claim_next_job, one transaction.                    *)

(* A worker owns its job from the claim to the transaction that reports.   *)
Owns(w, c) == task[w].job = c /\ task[w].pc # "cleanup"

(* The lease is at least twice the extraction timeout: unless "overrun" is *)
(* a fault, it outlasts the worker that holds it.                          *)
LeaseLapse(c) ==
  /\ job[c].status = "running" /\ job[c].lease = "fresh"
  /\ "overrun" \in Faults \/ \A w \in Workers : ~Owns(w, c)
  /\ job' = [job EXCEPT ![c].lease = "stale"]
  /\ UNCHANGED <<rows, files, handlers, task>>

(* Mutants of Swept: it does not look at the lease; it gives attempts back.*)
SweptUnlapsed ==
  [c \in Captures |-> IF job[c].status = "running"
                      THEN [job[c] EXCEPT !.status = "queued", !.lease = "none"]
                      ELSE job[c]]

SweptForgiving ==
  [c \in Captures |-> IF job[c].status = "running" /\ job[c].lease = "stale"
                      THEN [job[c] EXCEPT !.status = "queued", !.attempts = 0]
                      ELSE job[c]]

(* The table after the sweep of lapsed leases.                             *)
Swept ==
  [c \in Captures |->
     IF job[c].status = "running" /\ job[c].lease = "stale"
     THEN [job[c] EXCEPT !.status = "queued", !.lease = "none"]
     ELSE job[c]]

(* Mutants of Started: started_at is not set; the attempt is not counted.  *)
StartedUndated(j) ==
  [j EXCEPT !.status = "running", !.attempts = j.attempts + 1]

StartedUncounted(j) == [j EXCEPT !.status = "running", !.lease = "fresh"]

Started(j) == [j EXCEPT !.status = "running", !.attempts = j.attempts + 1,
                        !.lease = "fresh"]

(* Mutant of Claimable: one attempt too many.                              *)
ClaimableOnceMore(j) == j.status = "queued" /\ j.attempts <= MaxAttempts

Claimable(j) == j.status = "queued" /\ j.attempts < MaxAttempts

Claim(w) ==
  /\ task[w].pc = "idle"
  /\ \E c \in Captures :
       /\ Claimable(Swept[c])
       /\ \A d \in Captures :
            Claimable(Swept[d]) => Swept[c].created <= Swept[d].created
       /\ job' = [Swept EXCEPT ![c] = Started(Swept[c])]
       /\ task' = [task EXCEPT
            ![w] = [Idle EXCEPT !.pc = "claimed", !.job = c,
                                !.try = Swept[c].attempts + 1]]
  /\ UNCHANGED <<rows, files, handlers>>

Sweep(w) ==
  /\ task[w].pc = "idle"
  /\ \A c \in Captures : ~Claimable(Swept[c])
  /\ Swept # job
  /\ job' = Swept
  /\ UNCHANGED <<rows, files, handlers, task>>

---------------------------------------------------------------------------
(* One attempt: _process_job.                                              *)

InputFile(w) == <<task[w].job, task[w].path>>

ReadJob(w) ==
  LET j == job[task[w].job] IN
  /\ task[w].pc = "claimed"
  /\ task' = [task EXCEPT ![w] =
       IF j.status = "running" THEN [@ EXCEPT !.pc = "located", !.path = j.path]
       ELSE Idle]
  /\ UNCHANGED <<tables, files, handlers>>

CheckFile(w) ==
  /\ task[w].pc = "located"
  /\ task' = [task EXCEPT ![w].pc =
       IF InputFile(w) \in files THEN "extracting" ELSE "failing"]
  /\ UNCHANGED <<tables, files, handlers>>

Extract(w) ==
  /\ task[w].pc = "extracting"
  /\ InputFile(w) \in files
  /\ task' = [task EXCEPT ![w] = [@ EXCEPT !.pc = "extracted", !.unlinks = TRUE]]
  /\ UNCHANGED <<tables, files, handlers>>

ExtractFails(w) ==
  /\ task[w].pc = "extracting"
  /\ "extract" \in Faults \/ InputFile(w) \notin files
  /\ task' = [task EXCEPT ![w] = [@ EXCEPT !.pc = "failing", !.retry = TRUE]]
  /\ UNCHANGED <<tables, files, handlers>>

(* The persisting transaction loads the job and deletes the rows it sees.  *)
PersistBegin(w) ==
  LET c == task[w].job IN
  /\ task[w].pc = "extracted"
  /\ task' = [task EXCEPT ![w] =
       [@ EXCEPT !.pc = "persisting", !.seen = job[c].status, !.base = rows[c]]]
  /\ UNCHANGED <<tables, files, handlers>>

(* Mutant of Flushed: the status is left for later.                        *)
FlushedPath(j, seen, new, path) == [j EXCEPT !.path = path]

(* A transaction that loaded status seen commits a new status and path.    *)
(* SQLAlchemy writes a column only if it differs from what was loaded.     *)
Flushed(j, seen, new, path) ==
  [j EXCEPT !.status = IF seen = new THEN j.status ELSE new, !.path = path]

(* Rows that another attempt committed since the DELETE collide with ours  *)
(* in the unique index on (capture_id, session_id).                        *)
Collides(w) == task[w].job \in Mail /\ rows[task[w].job] # task[w].base

Persist(w, next) ==
  LET t == task[w]
      outcome == IF t.job \in Mail THEN "complete" ELSE "empty"
  IN
  /\ t.pc = "persisting"
  /\ ~Collides(w)
  /\ rows' = [rows EXCEPT ![t.job] = IF t.job \in Mail THEN t.try ELSE 0]
  /\ job' = [job EXCEPT ![t.job] =
       Flushed(job[t.job], t.seen, outcome, NoPath)]
  /\ task' = [task EXCEPT ![w] = [@ EXCEPT !.pc = next, !.retry = TRUE]]
  /\ UNCHANGED <<files, handlers>>

PersistCommit(w) == Persist(w, "cleanup")

(* Any exception of that transaction is a retryable failure, also one that *)
(* hides a commit that succeeded.                                          *)
PersistFails(w) ==
  /\ \/ task[w].pc = "persisting" /\ Collides(w)
     \/ task[w].pc \in {"extracted", "persisting"} /\ "database" \in Faults
  /\ task' = [task EXCEPT ![w] = [@ EXCEPT !.pc = "failing", !.retry = TRUE]]
  /\ UNCHANGED <<tables, files, handlers>>

PersistUnacknowledged(w) == "database" \in Faults /\ Persist(w, "failing")

(* Mutant of Cleanup: the finally clause is missing.                       *)
CleanupNothing(w) ==
  /\ task[w].pc = "cleanup"
  /\ task' = [task EXCEPT ![w] = Idle]
  /\ UNCHANGED <<tables, files, handlers>>

Cleanup(w) ==
  /\ task[w].pc = "cleanup"
  /\ files' = files \ {InputFile(w)}
  /\ task' = [task EXCEPT ![w] = Idle]
  /\ UNCHANGED <<tables, handlers>>

---------------------------------------------------------------------------
(* A failed attempt: _mark_failure, which loads the job, decides, removes  *)
(* the capture if it gives up, and commits.                                *)

(* Mutant of FailRead: a retryable failure is always retried.              *)
FailReadForever(w) ==
  /\ task[w].pc = "failing"
  /\ task' = [task EXCEPT ![w] =
       [@ EXCEPT !.seen = job[task[w].job].status,
                 !.pc = IF task[w].retry THEN "reporting" ELSE "purging"]]
  /\ UNCHANGED <<tables, files, handlers>>

FailRead(w) ==
  LET j == job[task[w].job]
      again == task[w].retry /\ j.attempts < MaxAttempts
  IN
  /\ task[w].pc = "failing"
  /\ task' = [task EXCEPT ![w] =
       [@ EXCEPT !.retry = again, !.seen = j.status,
                 !.pc = IF again \/ j.path = NoPath THEN "reporting"
                        ELSE "purging"]]
  /\ UNCHANGED <<tables, files, handlers>>

Purge(w) ==
  /\ task[w].pc = "purging"
  /\ files' = files \ {InputFile(w)}
  /\ task' = [task EXCEPT ![w].pc = "reporting"]
  /\ UNCHANGED <<tables, handlers>>

(* _mark_failure returns or raises to _process_job, whose finally clause   *)
(* runs if the failure came from the persisting transaction.               *)
Return(w) ==
  task' = [task EXCEPT ![w] =
             IF @.unlinks THEN [@ EXCEPT !.pc = "cleanup"] ELSE Idle]

Report(w) ==
  LET t == task[w]
      verdict == IF t.retry THEN "queued" ELSE "failed"
  IN
  /\ t.pc = "reporting"
  /\ job' = [job EXCEPT ![t.job] =
       Flushed(job[t.job], t.seen, verdict,
               IF t.retry THEN job[t.job].path ELSE NoPath)]
  /\ Return(w)
  /\ UNCHANGED <<rows, files, handlers>>

(* A database call outside the persisting transaction raises: run_worker   *)
(* logs it and goes on.  (A commit that raises after it took effect is     *)
(* Report.)                                                                *)
WorkerFault(w) ==
  /\ "database" \in Faults
  /\ task[w].pc \in {"claimed", "failing", "reporting"}
  /\ Return(w)
  /\ UNCHANGED <<tables, files, handlers>>

(* The worker process dies and is started again: the attempt is forgotten. *)
Crash(w) ==
  /\ "crash" \in Faults
  /\ task[w].pc # "idle"
  /\ task' = [task EXCEPT ![w] = Idle]
  /\ UNCHANGED <<tables, files, handlers>>

(* As Crash, but the exception unwinds through the finally clause.         *)
Interrupt(w) ==
  /\ "interrupt" \in Faults
  /\ task[w].pc # "idle"
  /\ files' = IF task[w].unlinks THEN files \ {InputFile(w)} ELSE files
  /\ task' = [task EXCEPT ![w] = Idle]
  /\ UNCHANGED <<tables, handlers>>

WorkerStep(w) ==
  \/ Claim(w) \/ Sweep(w) \/ ReadJob(w) \/ CheckFile(w)
  \/ Extract(w) \/ ExtractFails(w)
  \/ PersistBegin(w) \/ PersistCommit(w) \/ PersistFails(w)
  \/ PersistUnacknowledged(w) \/ Cleanup(w)
  \/ FailRead(w) \/ Purge(w) \/ Report(w) \/ WorkerFault(w)

---------------------------------------------------------------------------
Next ==
  \/ \E u \in Uploads : UploadStep(u)
  \/ \E w \in Workers : WorkerStep(w) \/ Crash(w) \/ Interrupt(w)
  \/ \E c \in Captures : LeaseLapse(c)
  \/ ApiCrash

(* Handlers and workers run on, and time passes.  Nothing has to crash.    *)
Fairness ==
  /\ \A u \in Uploads : WF_vars(UploadStep(u))
  /\ \A w \in Workers : WF_vars(WorkerStep(w))
  /\ \A c \in Captures : WF_vars(LeaseLapse(c))

Spec == Init /\ [][Next]_vars
FairSpec == Spec /\ Fairness

---------------------------------------------------------------------------
(* Properties.                                                             *)

ReqState == InFlight \cup {"new", "rejected", "accepted", "duplicate",
                           "collided", "error", "lost"}

(* Every variable has its type; no job is attempted more than MaxAttempts  *)
(* times.                                                                  *)
TypeOK ==
  /\ job \in [Captures -> Job]
  /\ rows \in [Captures -> 0..MaxAttempts]
  /\ files \subseteq Captures \X Exts
  /\ temps \subseteq Uploads
  /\ req \in [Uploads -> ReqState]
  /\ ext \in [Uploads -> Exts]
  /\ task \in [Workers -> Task]

(* At most one worker works on a capture, as long as leases outlast the    *)
(* workers that hold them: the sweep and FOR UPDATE SKIP LOCKED hand out   *)
(* no job that is still in work (worker.py:28-57).                         *)
SingleOwner ==
  "overrun" \notin Faults =>
    \A c \in Captures : \A v, w \in Workers :
      Owns(v, c) /\ Owns(w, c) => v = w

(* Whatever goes wrong, no two workers ever carry out the same attempt, so *)
(* a capture is extracted at most max_attempts times in all.               *)
AttemptExclusive ==
  \A v, w \in Workers :
    /\ task[v].job \in Captures
    /\ task[v].job = task[w].job
    /\ task[v].try = task[w].try
    => v = w

(* Re-uploading identical bytes never enqueues the work again, and every   *)
(* upload that was answered with a job has one.                            *)
UploadIdempotent ==
  /\ \A u, v \in Uploads :
       Body[u] = Body[v] /\ req[u] = "accepted" /\ req[v] = "accepted" => u = v
  /\ \A u \in Uploads :
       req[u] \in {"accepted", "duplicate", "collided"} => Exists(Body[u])

(* A capture has session rows if and only if its job says "complete": the  *)
(* rows and the status change in one transaction, and no later attempt     *)
(* touches either.                                                         *)
ResultsMatch ==
  Faults \cap {"overrun", "database"} = {} =>
    \A c \in Captures : rows[c] # 0 <=> job[c].status = "complete"

(* Somebody is still to read the file of this job.                         *)
Needed(c) ==
  \/ Claimable(job[c])
  \/ \E w \in Workers : /\ task[w].job = c
                         /\ task[w].pc \in {"claimed", "located", "extracting"}

(* A job that is queued for a worker, or about to be read by one, has its  *)
(* capture on disk.                                                        *)
NeededFileExists ==
  \A c \in Captures : Needed(c) => <<c, job[c].path>> \in files

(* The capture of a needed job goes missing in one way only: another       *)
(* upload of the same bytes under the same extension, whose insert lost to *)
(* the insert of this job, removed it (capture_routes.py:171-177).         *)
OnlyCollisionLosesFile ==
  Faults \subseteq {"extract", "crash", "api_crash"} =>
    \A c \in Captures :
      Needed(c) /\ <<c, job[c].path>> \notin files =>
        \E u \in Uploads :
          Body[u] = c /\ ext[u] = job[c].path /\ req[u] = "collided"

(* The inductive invariant behind the theorems of CaptureQueueProofs.      *)
(* First, a worker's attempt is one that the job counts, and no other's.   *)
AttemptInv ==
  /\ \A w \in Workers : task[w].job \in Captures =>
       task[w].try \in 1..job[task[w].job].attempts
  /\ AttemptExclusive

(* Second, an owner holds a lease that has not lapsed, so that no sweep    *)
(* requeues its job and no claim takes it.                                 *)
LeaseInv ==
  "overrun" \notin Faults =>
    /\ \A w \in Workers, c \in Captures : Owns(w, c) =>
         /\ job[c].status \in {"running"} \cup Terminal
         /\ job[c].lease = "fresh"
    /\ SingleOwner

(* Third, what an owner has read of its job is still so when it commits.   *)
ReadInv ==
  Faults \cap {"overrun", "database"} = {} =>
    /\ \A w \in Workers, c \in Captures : Owns(w, c) =>
         /\ job[c].status = "running"
         /\ task[w].pc \in {"persisting", "purging", "reporting"} =>
              task[w].seen = "running"
    /\ ResultsMatch

(* A worker is idle exactly when it has no job, and a job that was never   *)
(* inserted was never attempted.                                           *)
BusyInv ==
  /\ \A w \in Workers : task[w].pc = "idle" <=> task[w].job = NoJob
  /\ \A c \in Captures : ~Exists(c) => job[c].attempts = 0

IndInv ==
  /\ TypeOK
  /\ BusyInv
  /\ AttemptInv
  /\ LeaseInv
  /\ ReadInv

(* The promise of the queue to its clients, and what they see of a job.    *)
Stored(c) == IF rows[c] = 0 THEN "none" ELSE "all"

View(c) == [phase |-> job[c].status, spent |-> job[c].attempts,
            stored |-> Stored(c)]

Lives == [c \in Captures |-> View(c)]

Service == INSTANCE CaptureService WITH life <- Lives

(* As long as leases outlast workers and the workers' database calls do    *)
(* not fail: a job is accepted once, attempted while attempts are left,    *)
(* and gets its rows and its final status together and for good.           *)
ServiceSpec == Service!Spec

Settled(c) ==
  \/ job[c].status \in Terminal
  \/ job[c].status = "queued" /\ job[c].attempts = MaxAttempts

(* Whatever goes wrong, every job comes to rest: its status is terminal    *)
(* for good, or it is queued with no attempt left.                         *)
JobsSettle == \A c \in Captures : Exists(c) ~> []Settled(c)

(* Every job reaches a terminal status.                                    *)
JobsFinish == \A c \in Captures : Exists(c) ~> job[c].status \in Terminal

(* Once the uploads stop the spool directory empties: every temporary file *)
(* and every capture is removed for good.                                  *)
SpoolDrains == <>[](files = {} /\ temps = {})
=============================================================================
