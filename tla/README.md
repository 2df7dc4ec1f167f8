# SecureMail-ML: TLA+ specifications

SecureMail-ML is a FastAPI backend that accepts packet captures of mail
sessions, extracts TLS features from them with TShark, scores the sessions with
deterministic rules and trained models, and keeps the results in PostgreSQL. A
mail lab produces captures to train the models on. This directory holds TLA+
models of the system, the TLC configurations that check them, and proofs that
the TLA+ proof system checks.

## Inventory

| Component | Code | State | Operations | What makes it correct | Modelled in |
|---|---|---|---|---|---|
| Capture uploads | `api/capture_routes.py` | spool directory, `capture_jobs` | upload; list, get, sessions, results | identical bytes give one job; a queued job has its file; a file no job needs goes away | `CaptureQueue` |
| Extraction worker | `api/worker.py` | `capture_jobs`, `capture_sessions`, spool directory | claim, sweep, extract, persist, mark failure | one worker per job; at most `max_attempts` attempts; rows and status agree; every job ends | `CaptureQueue` |
| Security agent | `api/agent/` | `agent_memory` | insight request, focus policy | an answer built on an old memory never overwrites a newer one | `AgentMemory` |
| Authentication | `api/auth.py`, `api/auth_routes.py` | `users`, `auth_sessions` | register, log in, log out, profile | one account per e-mail; a revoked or expired token opens nothing | `AuthSessions` |
| Analyses and validations | `api/routes.py`, `api/data_routes.py` | `analysis_records`, `validation_records`, links from `capture_sessions` | analyse, validate, list, statistics, delete | what is answered is stored; links name analyses; lists and statistics fit what was there | `AnalysisStore`, `Pipeline` |
| Rules, fusion, calibration | `ml/rules.py`, `ml/fusion.py`, `ml/calibration.py` | none | score a session | neither models nor rules lower the other's risk | `Rules`, `Fusion` |
| PCAP extraction | `ml/pcap.py` | none | classify a handshake, build a record | the record follows from the packets, whatever is missing | `Extraction`, `MailTls` |
| Feature schema | `ml/schema.py` | none | validate a record | a record is of one piece | `Session` |
| Catalogue and datasets | `ml/dataset.py` | dataset directories | build records, split, write | labels are those the rules produce; a split is whole and disjoint | `Scenarios`, `LabRuns` |
| Mail lab | `datasets/lab/` | run directories with manifests | run a scenario, retry, resume a matrix, assemble | a failed or partial run is never taken for a whole one | `LabProfiles`, `LabRuns` |
| Training, evaluation | `ml/models.py`, `ml/evaluate.py`, `scripts/` | bundle and evaluation directories | train, save, report, monitor | a report is of the bundle that is stored | `LabRuns` (the files) |
| Set-up and deployment | `api/app.py`, `api/dependencies.py`, `deploy/`, `migrations/` | schema, containers | start, migrate, deploy | glue | the request transaction only |

The components meet in the database and on disk. An upload writes a file and a
`queued` row; a worker, in another container, polls the table, reads the file,
writes `capture_sessions` rows and removes the file; the frontend polls the job,
fetches the rows and submits each of them to `POST /analyses`, which links the
row to its analysis; an agent request carries an analysis and keeps a memory
under its request id. The lab's runner writes captures, which the same extractor
turns into the records of a dataset, on which a bundle is trained that the API
loads.

The hard behaviours are the interleavings of requests with each other and with
the workers at database transactions that commit after the response, the order
of file and database operations, kills between any two of them, leases that
expire, database calls that fail before or after they took effect, captures that
lack packets, and knowledge that is kept in two places: thresholds in the rules
and in the dashboard, expectations in the catalogue and traffic in the lab.
`PROJECT.json` lists each one under `hazards` with its line and its properties.

## Modules

| Module | What it models |
|---|---|
| `CaptureService` | abstract: each capture is accepted once, attempted at most `MaxAttempts` times, gets its rows in the instant its status becomes `complete`, and never changes after a terminal status |
| `CaptureQueue` | uploads, job tables, spool directory and workers; implements `CaptureService` |
| `MemoryThread` | abstract: every revision of a memory is built on the one before, no completed step is forgotten, the active step changes only when it is completed |
| `AgentMemory` | an insight request: loading, provider, focus policy, the compared write and its transaction; implements `MemoryThread` |
| `AuthSessions` | accounts, tokens and their sessions |
| `AnalysisStore` | stored analyses, their links, lists, counts and deletions, beside the worker's replacement of capture sessions |
| `Session` | the record of a mail session and its validators |
| `Rules` | the deterministic rules, the evidence they cite, the dashboard's posture |
| `Fusion` | calibrated and fused probabilities, the anomaly threshold, risk, source and action of a verdict |
| `Scenarios` | the catalogue of scenarios and the generator of synthetic records |
| `MailTls` | external: the packets of a mail connection as TShark shows them |
| `Extraction` | from the packets of a stream to a record |
| `LabProfiles` | the lab's runtime profiles and the connection that client and server make of one |
| `Pipeline` | composes the seven above: one session from the wire, through the privacy gate and the models, to a stored verdict |
| `LabRuns` | the runs of a training matrix, the dataset, bundle and evaluation made of them, and the script that can be killed anywhere; the monitor's view |

`MC*` modules supply small sets for TLC, `*Proofs` modules hold the theorems.
`CaptureQueue` hands a job's records to `Pipeline` (`v_certificate_refused` is
about that hand-over) and its worker replaces the rows that `AnalysisStore` links
(`StoreSessions`); otherwise the groups share no state.

### How CaptureQueue corresponds to the code

| Variable | In the code |
|---|---|
| `job` | the `capture_jobs` row of each capture: `status`, `attempts`, `input_path` (reduced to the extension of the file), `started_at` (reduced to whether it is unset, within the lease, or older), `created_at` (the order of insertion) |
| `rows` | the `capture_sessions` rows of each capture, as the number of the attempt that wrote them |
| `files`, `temps` | the spool directory: final files by capture and extension, `.upload-` files by upload |
| `req`, `ext` | where each upload handler is, and the extension of its file name |
| `task` | where each worker is in `run_once`, with the locals it holds |

A step is the code between two points at which another process or coroutine may
run. An upload is `Receive` or `Reject`, the lookup (`FindExisting`,
`FindNone`), `os.replace` (`Place`), the commit (`Insert`, `InsertConflict`) and
the removal of the refused upload's file (`ConflictCleanup`). A worker's life is
`Claim` or `Sweep` (one transaction of `_claim_next_job`), then `ReadJob`,
`CheckFile`, `Extract` or `ExtractFails`, `PersistBegin` and `PersistCommit` or
`PersistFails`, and `Cleanup` (the `finally` clause); a failure goes through
`FailRead`, `Purge` and `Report` (`_mark_failure`). A transaction that loads a
row and commits later is two steps, with what it loaded kept in `task`:
SQLAlchemy writes only the columns that differ from what was loaded, which
`Flushed` models.

What may go wrong is the constant `Faults`: extraction failures and timeouts
(`extract`), kills of a worker (`crash`) or the API process (`api_crash`), a
cancelled worker whose `finally` clauses still run (`interrupt`), database calls
that raise before or after their effect (`database` in a worker, `api_database`
in an upload), and a lease that lapses while its worker still works
(`overrun`). The lease is `max(2 * timeout, 300)` seconds while extraction is
cut off after `timeout` seconds, so an overrun takes a slow persistence, a
stopped container or two clocks that disagree; it is kept apart for that reason.

Assumptions: PostgreSQL at READ COMMITTED as in `compose.yaml` (SQLite ignores
`FOR UPDATE`); one API process; file-system calls succeed; an upload request is
made once and not cancelled; two contents do not share the first 16 hex digits
of their SHA-256. A claim takes the oldest claimable job of the table; that
`SKIP LOCKED` may pass over a job whose claim is then rolled back is not
modelled, and no property is about the order in which jobs are served. File
contents, previews, diagnostics and progress are left out.

### How AgentMemory corresponds to the code

| Variable | In the code |
|---|---|
| `row` | the committed `agent_memory` row of one analysis: its revision (0 if there is no row), completed steps and active step |
| `lock` | the request whose open transaction has locked the row (`with_for_update`) or inserted its unique key |
| `req` | where each request is in `agent_insights`, the revision and memory it holds, and the revision its response reported as persisted |

`get_db` gives a request one session, hence one transaction, from `Load` to
`Commit` or `Release`. `Advise` is the provider call and `apply_focus_policy`;
the answer is any memory that `AgentMemoryState` accepts, and whether the
question reports a completion is free. `save_memory` is `SelectNone`, then
`Insert` or `InsertConflict`; or `Update` or `Refuse`, once the lock is free. At
READ COMMITTED the locking select reads the latest committed row, and because
`load_memory` kept no reference to its instance the session builds a new one
instead of returning the stale one. `Respond` precedes `Commit`: FastAPI, in the
version of `uv.lock`, runs the end of a dependency after sending the response.
A refused write keeps its lock until `Release`.

`Faults` allows queries that raise (`query`; the handler catches none of them),
commits that raise without effect (`commit`) and kills of the API (`api_crash`).
A row that does not validate makes `Load` fail, as `model_validate` does.

Abstractions: of a memory only the completed and the active step are kept, each
as a step id; a step's title, status and evidence, the summary, the facts and the
questions are left out, because the policy passes them through. Another thread
is another copy of the module, since threads share no row.

### How AuthSessions corresponds to the code

| Variable | In the code |
|---|---|
| `users`, `name` | rows of `users`, and for each the request that last set the display name |
| `sessions` | committed rows of `auth_sessions`: jti, user, `revoked_at` as a Boolean |
| `expired` | tokens whose `exp` and `expires_at` are past |
| `issued` | tokens that a response has handed out |
| `req` | where each request is, and the rows it read |

`register` is `RegisterCheck` (409) and `RegisterInsert`, which commits; the
unique index turns the second insert into an error. `Issue` adds the session and
answers; `Commit` is `get_db` after the response. `get_current_user` reads the
session (`ReadSession`), then the account (`ReadUser`), and then compares with
the clock (`Decide`): logouts and expiry may come between. `Fail` ends a request
anywhere, its writes undone. Tokens are forged by nobody: decoding a JWT is a
choice of an issued token. The update of a profile (`patch`) records whom it
renamed, so that a token can be seen to reach its own account only.

### How AnalysisStore corresponds to the code

`rows`, `checks` and `link` are `analysis_records`, `validation_records` and
`capture_sessions.analysis_request_id`; `stored` tells the rows of one extraction
from those that replaced them. An analysis flushes its row and reads the capture
session in one step (`Analyze`) and commits in another (`CommitAnalysis`); if the
worker replaced the row it read, the update matches nothing and all is rolled
back. Each query of `analyses_stats` is a step, since each sees what is committed
when it runs; so is each page of a list. `delete_analysis` and
`bulk_delete_analyses` commit after their response; a bulk deletion holds the
locks of its rows. `Fail` is an error of the database before a commit, and
`CommitAnalysis` may also lose the answer to a commit that succeeded. What an
analysis says is reduced to whether it is flagged and whether it is synthetic.

### How Pipeline corresponds to the code

`origin` says what the session really was: an authorized connection, a lab run,
or a generated record. `sent` and `captured` are the packets; `Pass` and `Lose`
let a capture begin late, miss packets or stop early. `ExtractAuthorized`,
`ExtractNothing` and `ExtractLab` are `extract_authorized_capture` and
`extract_run`, with validation of the record they build; `Generate` is
`_build_record`. `Submit` is the privacy gate and the strict validation of
`POST /analyses`, with what a client may leave out or add; `NotScored` a missing
bundle or failed inference; `Infer` is `predict_session`; `Answer` and
`PersistFails` the row that is or is not stored.

An optional field is a set of at most one value, a risk label its rank. What the
properties do not tell apart is left out: ports, durations, byte counts, texts
of findings. Probabilities are integer weights, which makes fusion exact where
the code rounds; the models' raw answers are chosen freely. `Connection` records
say what client and server do; `Packets` is the traffic. Of a lab run with more
than one connection the first is modelled, since all are alike, and the one
scenario that requires renegotiation is not run in the lab.

### How LabRuns corresponds to the code

| Variable | In the code |
|---|---|
| `dirs` | `runs/<profile>` and `runs/retry-1/<profile>`: profile file, `runtime_status.json`, `capture.pcap`, manifest, and the hash in it |
| `dataset`, `bundle`, `reports` | the directories that `write_dataset_run`, `save_model_bundle` and `save_evaluation_report` make |
| `job` | the running script with its locals; `Crash` forgets them |

A step lies between two effects on disk. `FindRun` is `_existing_run`; `Prepare`,
`BringUp`, `RunClient`, `FinalizeRun` and `WriteManifest` are `run_scenario` and
`finalize_run`; `Conclude` moves on to the retry, the next profile or the
assembly. `Assemble`, `StoreDataset` and `WriteDataset` are `assemble_successful_runs`,
`validate_training_matrix` and `write_dataset_run`; the rest is
`train_packet_matrix`. A file that was being written when the script died is
`"half"`. A capture is `"none"`, `"empty"` (no byte), `"short"` (it lacks sessions,
or all of them: tcpdump writes the file's header when it starts) or `"whole"`. It is
assumed that one script runs at a time and that one seed is in use. Docker
commands may fail in any way; they have no timeout, and one that never returns
has to be killed, which is `Crash`.

## Runs

Deadlock is nowhere checked: requests, uploads, scripts and sessions all end.

| Run | Shows |
|---|---|
| `queue_safety` | types, one worker per job, rows agree with status, bytes are enqueued once, and the invariant of the proofs, under kills, cancellations and upload database errors |
| `queue_service` | under kills the queue implements `CaptureService`, with one capture that has sessions and one that has none, and a needed capture goes missing only through the refused insert of a duplicate upload |
| `queue_settles` | under every fault, overruns and failing commits included, no attempt is carried out twice and every job comes to rest: terminal, or queued without attempts left |
| `queue_finishes` | if no process dies, every job ends and the spool directory empties |
| `memory_thread` | under every fault committed memories follow `MemoryThread`, a revision is claimed by one committed response only, every request ends, and the invariant of the proofs holds |
| `auth_sessions` | one registration of an e-mail is answered; a token that was revoked or over when a request began opens nothing, a live one only its own account; a committed logout has revoked the session it found |
| `analysis_store` | an answered analysis is stored until it is deleted; a link names a stored or deleted analysis of that session; the numbers of one statistics answer fit each other, equal when nothing changed and ordered when nothing was deleted; a client that reads page after page misses no row |
| `session_pipeline` | see below |
| `lab_dataset` | a recorded success has the capture its manifest has the hash of; what is recorded is never touched again; the monitor shows what the script goes on with; a dataset has the whole capture of every profile, each in one split; an evaluation is of the bundle that is stored |

`session_pipeline` checks, from the wire to the analyst, that a handshake shown as
successful was completed by the client (`SuccessHasFinished`); that losing
packets never makes a record the validators reject (`ExtractionIsValid`); that a
refused handshake is counted and shown (`RefusalSeen`); that a deprecated version
ends in critical review whatever the models say (`DeprecatedReviewed`); that lost
forward secrecy is flagged (`SecrecyLossFlagged`); that neither rules nor models
lower the other's risk (`FloorKept`); that the dashboard's posture agrees with
the rules (`PostureAgrees`); that generated labels are those the rules produce
(`LabelsFollowRules`); and which scenarios' findings the lab's traffic can and
cannot show (`LabFindsExpected`).

Three runs are expected to find a violation; each is a disagreement between the
documentation and the code (`findings` in `PROJECT.json`).

| Run | What happens |
|---|---|
| `v_lost_capture` | two uploads of the same bytes both find no job; the one whose insert is refused unlinks the file of the job that was queued. The job then fails with `capture_file_missing`, and these bytes can never be extracted again. No fault is needed. |
| `v_memory_first_write` | two requests find no row; the second insert violates the unique key and its answer becomes a server error, not `memory_persisted=false` |
| `v_certificate_refused` | the record of a session with a certificate holds the key `subject`; submitted as the job handed it out, it is refused by the privacy gate |

### Bounds

- Queue: `MaxAttempts` is 2, as `create_capture_job` sets it. One capture
  suffices for hazards between uploads and workers of the same bytes; two let the
  sweep and the claim meet jobs of different kinds. Three uploads of the same
  bytes let one race lose while another finds the job; two workers and two
  attempts give one attempt that is abandoned and one that replaces it.
- Memory: three requests let one write succeed, one be refused or conflict, and
  one load what the first wrote. With two steps `MaxSteps` is 1 where the code
  has 12: what matters is that two valid lists can have a union that is not valid.
- `auth_sessions`: four requests are one that makes an account, one that uses its
  token, one that logs out and one more that registers, logs in or uses it; two
  e-mails let tokens of different accounts meet.
- `analysis_store`: three requests are one analysis, one deletion and one reader;
  `MaxStored` 2 is the first storing and one replacement; pages of one row make
  every row a page boundary.
- `session_pipeline`: every scenario and protocol of the lab; authorized
  connections in seven negotiations and nine behaviours, two poor certificates
  and opaque TLS 1.3 records. `MaxLost` is 1: classification looks for single
  packets, and dropping any one of them is enough to lose a sign. The models'
  answers include ties and all-zero calibrators, with a detector on and off.
- `lab_dataset`: one profile per environment, one of them fragile and legacy, one
  more that is run alone and renegotiates; two configurations; two starts, so that
  everything a killed start can leave is met by another one.

### Fairness

`FairSpec` assumes weak fairness of each upload handler, of each worker and of
the passing of time (`LeaseLapse`). The event loop resumes every coroutine whose
await has completed, `run_worker` loops for ever and is restarted by Docker
(`restart: unless-stopped`), and nothing is assumed about which alternative of a
worker's step happens. Nothing forces a fault: kills may happen for ever, and
because each claim counts an attempt they cannot keep a job alive
(`JobsSettle`).

`AgentMemory` assumes weak fairness of each request's own steps, never of its
failures: a waiting request is not saved by a query that raises. Weak is enough
although a request waits for the lock with others: requests are finite in number and
nobody takes the lock twice, so it is free for good in the end.

The other modules have safety properties only: nothing obliges a client, an
operator or a capture to go on.

## Proofs

Each `Spec => []IndInv` is proved by a lemma per action and cited by the theorems
that follow from it.

### CaptureQueueProofs and AgentMemoryProofs

All theorems of `CaptureQueueProofs` are about `Spec`, for all finite sets of captures and all sets of
uploads and workers, every `MaxAttempts > 0` and every set of faults, from
`QueueAssumption` alone. `SingleOwner`, `ResultsMatch` and `ServiceSpec` carry
the faults they exclude in their own statement or in that of the theorem.

`IndInv` is the conjunction of

- `TypeOK`;
- `BusyInv`: a worker is idle exactly when it has no job, and an absent job has
  no attempts;
- `AttemptInv`: the attempt a worker carries out is one its job has counted, and
  nobody else's. A claim hands out attempt `attempts + 1` and counts it in the
  same transaction, so a second worker always gets another number. This needs no
  assumption on leases;
- `LeaseInv` (no overrun): an owner holds an unexpired lease on a job that is
  running or terminal, so neither the sweep nor a claim touches it, hence
  `SingleOwner`. The claim needs the job to be queued after the sweep, which
  contradicts the lease of any other owner;
- `ReadInv` (no overrun, no worker database errors): the status a worker has
  loaded is still the status of the row when it commits, hence `ResultsMatch`.

`Inductive` proves `Spec => []IndInv`: most worker steps touch neither table and
are handled together (`QuietSteps`, `QuietInv`), the others one lemma each.
`UploadsIdempotent` adds `AnswerInv`: the answer to a refused upload is given
while the row exists, and rows never disappear (`ExistsStays`).
`ServiceImplemented` proves the refinement: under `ReadInv` each step moves the
view of each capture by one move of `CaptureService` or leaves it alone.

The theorems of `AgentMemoryProofs` hold for all sets of requests and steps,
every bound and every set of faults, from `MemoryAssumption` alone. Their
`IndInv` is the conjunction of `TypeOK` and

- `LockInv`: a request that wrote or was refused holds the lock, alone;
- `BaseInv`: a request that loaded the present revision holds the present
  memory, or after the policy one that advances it, and a request that wrote
  loaded the present revision. The lock is needed here: nobody else can commit
  between the comparison and the commit;
- `ToldInv`: what a response reported is the next revision while its commit is
  pending, and an old one afterwards, hence `ClaimsHold`.

All steps but `Commit` and `ApiCrash` leave the row alone and are proved
together (`QuietSteps`, `QuietInv`). `CommitInv` shows that a commit is one
`Write` of `MemoryThread`, which with `FocusAdvances`, the lemma on the policy,
gives the refinement `NoLostUpdate`. `ClaimsAreTrue` states `ClaimsHold`, which
names the two faults it excludes.

`FilesAreKept` is `OnlyCollisionLosesFile`, under the faults its statement names:
kills and failed extractions. It needs a second invariant, `FileInv`, beside
`IndInv`. A job is `Wanted` while somebody reads its capture or a claim may still
take it, which includes running jobs with an attempt left: their worker may die.
`WantedKept` says that a wanted job has its file, or that an upload of the same
bytes that was refused at the insert has removed it. For the steps that remove
files two things must be known: that an upload that placed a file nobody has
inserted still finds it (`PlacedKept`), and that a worker removes a file only if
its job is finished, has no attempt left or has lost the file (`WorkerFile`).

### AuthSessionsProofs

For all sets of requests and e-mails, without assumptions. Beside `TypeOK` the
invariant says of the tables that an e-mail has one account and a token one
session, and of each request that what it read is still stored and not less
revoked (`SessionSeen`). The argument for `DeadTokensRefused` is `DeadSeen`:
tables only grow and revocation is for good (`Grown`), so what was dead at the
start of a request is dead in each row it reads later, or the clock says so at
the end. `OthersKeep` proves once that a step of one request keeps all this for
the others. `LogoutsRevoke` rests on `LiveStored`.

### AnalysisStoreProofs

For every finite set of requests and any number of replacements. `RowNamed` says
that a request keeps the one row it is to store, and that after an answer it is
in the table or was deleted; `StoredCommitted`, that rows are of requests past
their commit, which gives the freshness of ids that `RowOnce` and
`LinksNameStored` need.

`StatisticsAgree` and `ListIsComplete` compare what one request read at different
moments. Their invariant `ReadInv` says that rows have distinct times, so that
ranks number them from 0 without gaps, and of each reader:

- `StatsSound`: it has the answers to its first n queries; each is what the
  tables would answer now, if nothing was committed since it began, and none of
  those asked before the verdicts is above the rows of now, or above the verdicts
  once they are counted, if nothing was deleted;
- `ListSound`: while nothing is deleted, a row of the beginning has been seen or
  its rank is not below the next page's offset (`Ahead`). New rows come first, so
  they only push the others away from the start.

### PipelineProofs

For every set of connections, every loss, and all that models, calibrators and
weights may answer, assuming only that `MaxLost` and all weights are natural
numbers.
`VerdictsKeepFloor` rests on `FloorIsHighest` (the highest severity is attained)
and `ModelRiskIsLabel` (a distribution has a first greatest label).
`AuthorizedCapturesAreValid` is a property of the extractor alone: whatever the
rows, it fills the negotiated fields exactly if the handshake counts as
successful, and the certificate's fields only with a certificate
(`TlsFieldsFollowHandshake`). `PosturesAgree` needs that a record past the
validators has a forward secrecy only with a successful handshake, which is why
`IndInv` carries the validity of the record from extraction to verdict.

### PipelineWireProofs

From the wire to the verdict, under the same assumptions. `WireInv` says that a
record keeps its origin, that a lab run is captured whole, and that a record's
features are those the extractor makes of the captured packets, or those of its
scenario. The rest is about one connection at a time:

- `PacketsLayout` tells for each packet of any connection what it is and what it
  stands between, `FeaturesShow` what each field of a record says of the rows;
- `SuccessIsFinished` holds for every subset of the packets: a packet from which
  the extractor concludes success does not come before the client's last flight
  (`FlightFirst`), TLS 1.3 with opaque records excepted;
- the other three need the whole capture: `WholeShows` tells what its rows have,
  `CompletionSeen` and `RefusalCounted` what the handshake fields become.
  `RefusalIsSeen`, `DeprecatedIsReviewed` and `SecrecyLossIsFlagged` follow the
  fields through rules, fusion and the dashboard's buckets (`VerdictOfRecord`),
  with the floor of the rules standing against whatever the models answer.

### PipelineCatalogueProofs

About the scenario catalogue, entry by entry. A rule reads a few fields only
(`FieldsTold`, `RulesRead`), so a lemma per builder gives the findings of all its
records for every value of the counters and dates it draws (`RsaStays`,
`LongKeyRaises`, `FailuresRaise`, ...), and a lemma per table of the catalogue
concludes.

- `ExtractionsAreValid`: with `AuthorizedCapturesAreValid`, no record of any of
  the three sources is one the validators reject.
- `LabelsAreTrue`: the rules find what each entry expects, with the severity and
  the findings its risk and its bucket name (`CatalogueIsSound`).
- `LabFindings`: a lab run of a scenario, on any protocol, has the findings its
  entry expects, exactly if it is not one of the exceptions. `LabShowsExpected`
  sorts the scenarios into those that show nothing, those of the certificate,
  those of the negotiation, and the `Unshown` ones, for which the proof shows that
  the finding is missing.

### LabRunsProofs

For every matrix, any number of other profiles and of starts. `IndInv` has three
parts. `RunsInv` is about run directories: a script at a directory found no
manifest there (`Unrecorded`), a retry has a failed first run
(`RetryAfterFailure`) and a concluded profile is recorded as concluded
(`ResultsRecorded`); with `Covered`, no profile of the matrix is skipped, this
gives `DatasetsAreWhole`. `Storing` and `Reporting` say what each step between
two file operations may rely on. `RunWritten` is the lemma that a script writes
at its own directory only, from which `RecordsStay` follows.

Only model-checked: the four liveness properties `JobsSettle`, `JobsFinish`,
`SpoolDrains` and `EveryRequestEnds`, which need fairness and so ENABLED, beyond
the proof system. Every invariant and action property of the passing runs has a
theorem.

## What the models show of the code beyond the runs

These consequences of the code are stated here without a run of their own.

- A worker killed between the commit and the unlink leaves the capture on disk
  for good (`worker.py:146`); `SpoolDrains` is checked while no process dies.
- An upload that is killed between `os.replace` and the commit leaves a file
  without a row for good. A database error in the upload handler removes the final
  file, also if a queued job needs it (`capture_routes.py:181`);
  `OnlyCollisionLosesFile` is stated for kills and failed extractions only.
- A worker that dies in its last attempt leaves the job `queued` without an
  attempt left: no claim takes it, nobody ends it. `session_persistence_error` is
  reported as retryable although the `finally` clause has removed the file.
- An attempt that outlives its lease overwrites the status another worker
  committed; `SingleOwner`, `ResultsMatch` and `ServiceSpec` exclude overruns.
- The focus policy may store more completed steps than `AgentMemoryState`
  accepts, so that the thread can no longer be loaded; and a response may report
  `memory_persisted=true` before a commit that fails.
- A logout may overtake the commit of the login that issued its token: it finds
  no session, is answered, and the token lives. A registration that dies after its
  account is stored leaves an account whose answer was never sent. A token may be
  answered whose session is never stored; it opens nothing.
- While rows are deleted a reader gets no promise: numbers of one statistics answer
  need not fit each other, and a client that pages by offset may miss rows.
- An analysis whose answer is lost after the commit is stored twice if the client
  retries. The `total` of a list and its page, and the count of a bulk deletion
  and its rows, come from different snapshots.
- `README.md:711` says success requires the client's Finished; `pcap.py:193-243`
  also takes application data or two ChangeCipherSpecs. `SuccessHasFinished` shows
  that this is wrong only for TLS 1.3 without keys and with opaque records.
- `README.md:725` says what cannot be told is UNKNOWN and not guessed; a suite
  outside the table of eight is nevertheless given `forward_secrecy` false, and so
  FS-001, even if it is ECDHE.
- A capture that ends between the server's STARTTLS offer and the ClientHello
  raises STLS-001 for a session that did use it.
- PCAP findings whose fields share no name with the TShark fields cite the source
  `scenario` although there is none (`rules.py:14-23`). 3DES suites are put into
  family AES-CBC by their name. An ECDSA key of 256 bits is shown as weak.
- The lab cannot show what `Unshown` lists, nor unused STARTTLS on POP3.
- `KNOWN_RULES` lacks CRIT-001; the verdicts that synthetic analyses store are not
  among `FLAGGED_VERDICTS`.
- `finalize_run` asks of a capture that it has a byte (`runner.py:152`). As
  `tcpdump -U -w` writes the file's header when it starts, a run whose capture has
  no packet is hashed and recorded as a success. `SuccessHasCapture` promises no
  more; `DatasetIsWhole` shows that such a capture ends in no dataset.
- A half-written run manifest, a capture recorded as a success although it lacks
  sessions, or a dataset or evaluation directory without its manifest makes every
  later start raise; of these the monitor shows only the first. A
  `runtime_status.json` left by a killed attempt is read as the outcome of the next.

## Not modelled

- Training, explanation and metrics (`ml/models.py`, `ml/evaluate.py`), numeric
  encoding and the rounding of probabilities: floating point, beyond TLC.
- The random split of generated datasets and augmentation: seeded choices over
  thousands of records; `environment_for` (`dataset.py:269`) redraws without end if
  every environment is reserved, a matter of configuration.
- Running TShark, OpenSSL and docker, password hashing and JWT signatures:
  external; `MailTls` says what the extractor is given.
- The agent's provider, context building and wording: any valid memory is its
  answer.
- Holdout servers, the other scripts, start-up, settings, the model singleton,
  migrations and containers: glue without state that another part reads
  concurrently.
- Read-only endpoints of captures: no state changes, and no several queries that
  have to agree.
