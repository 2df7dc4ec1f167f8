------------------------------ MODULE LabRuns ------------------------------
(***************************************************************************)
(* From the mail lab to a model bundle: the runs of the training matrix    *)
(* (datasets/lab/runner.py), the dataset made of them (ml/dataset.py), the *)
(* bundle trained on it (ml/models.py), and the script that drives all     *)
(* three and can be killed and started again at any point                  *)
(* (scripts/train_evaluate_grouped_matrix.py).  What survives is what is   *)
(* on disk; what a monitor shows of it is scripts/monitor_pcap_matrix.py.  *)
(***************************************************************************)
EXTENDS Naturals, Sequences

CONSTANTS
  Matrix,         \* the profiles of the training matrix, in order
  Others,         \* profiles run one at a time by the runner's main
  Legacy,         \* profiles whose service is legacy-lab
  Renegotiating,  \* profiles that require renegotiation
  Fragile,        \* profiles with TLS that the client's OpenSSL may not have
  Environment,    \* the environment of each profile
  Configs,        \* training configurations a start may name
  MaxStarts       \* how often the operator starts a script

Planned == {Matrix[i] : i \in DOMAIN Matrix}
Profiles == Planned \cup Others
Roots == {"first", "retry"}
Statuses == {"success", "unsupported_in_lab", "failed"}
Environments == {"lab_train", "lab_calibration", "lab_test"}

ASSUME MatrixIsSequence == Matrix \in Seq(Planned) /\ Matrix # << >>
ASSUME StartsAreCounted == MaxStarts \in Nat
ASSUME OthersAreNotPlanned == Others \cap Planned = {}
ASSUME EveryProfileHasEnvironment == Environment \in [Profiles -> Environments]

VARIABLES
  dirs,     \* the run directory of each profile, under runs/ and runs/retry-1/
  dataset,  \* the dataset run's directory
  bundle,   \* the model bundle's directory
  reports,  \* the evaluation directory of each configuration
  job,      \* the script that runs
  starts    \* how many were started
vars == <<dirs, dataset, bundle, reports, job, starts>>

(* pcap: what the capture holds; "empty" has no byte, "short" lacks some   *)
(* of the sessions, or all: tcpdump writes the header of the file when it  *)
(* starts.  sha: the capture the manifest has the hash of.  note:          *)
(* runtime_status.json says unsupported_in_lab.  A file that was being     *)
(* written when the script died is "half".                                 *)
Captures == {"none", "empty", "short", "whole"}
NoRun == [profile |-> FALSE, note |-> FALSE, pcap |-> "none",
          manifest |-> "none", sha |-> "none"]
NoDataset == [state |-> "none", train |-> {}, validation |-> {}, test |-> {}]
NoJob == [pc |-> "off", kind |-> "none", todo |-> << >>, root |-> "first",
          capturing |-> FALSE, status |-> "none", results |-> {}, config |-> "none"]

Init ==
  /\ dirs = [d \in Profiles \X Roots |-> NoRun]
  /\ dataset = NoDataset
  /\ bundle = [state |-> "none", config |-> "none"]
  /\ reports = [config \in Configs |-> "none"]
  /\ job = NoJob
  /\ starts = 0

Profile == Head(job.todo)
Here == <<Profile, job.root>>
Goto(pc) == job' = [job EXCEPT !.pc = pc]
Raise == job' = NoJob

(* train_packet_matrix: the named dataset is used if its manifest is there *)
(* (a half-written one is no JSON), else the matrix is run.                *)
StartTraining(config) ==
  /\ job.pc = "off" /\ starts < MaxStarts
  /\ starts' = starts + 1
  /\ job' = CASE dataset.state = "written" ->
                   [NoJob EXCEPT !.pc = "save", !.kind = "train", !.config = config]
             [] dataset.state \in {"none", "directory"} ->
                   [NoJob EXCEPT !.pc = "find", !.kind = "train", !.config = config,
                                 !.todo = Matrix]
             [] OTHER -> NoJob
  /\ UNCHANGED <<dirs, dataset, bundle, reports>>

(* The runner's main: one profile, no retry.                               *)
StartSingle(p) ==
  /\ job.pc = "off" /\ starts < MaxStarts
  /\ starts' = starts + 1
  /\ job' = [NoJob EXCEPT !.pc = "find", !.kind = "single", !.todo = <<p>>]
  /\ UNCHANGED <<dirs, dataset, bundle, reports>>

(* run_training_matrix retries what failed, once, in a directory of its    *)
(* own.                                                                    *)
Retried(status) == status = "failed"

(* The script has the status of the directory it is at.                    *)
Conclude(status) ==
  job' = IF job.kind = "train" /\ job.root = "first" /\ Retried(status)
         THEN [job EXCEPT !.pc = "find", !.root = "retry", !.capturing = FALSE,
                          !.status = "none"]
         ELSE [job EXCEPT
                 !.pc = CASE Len(job.todo) > 1 -> "find"
                        [] Len(job.todo) = 1 /\ job.kind = "train" -> "assemble"
                        [] OTHER -> "off",
                 !.todo = Tail(@), !.root = "first",
                 !.capturing = FALSE, !.status = "none",
                 !.results = @ \cup {[profile |-> Profile, root |-> job.root,
                                      status |-> status]}]

(* A mutant of the next: a run that failed is not taken as it is.          *)
ExistingUnlessFailed(d) ==
  IF dirs[d].manifest = "failed" THEN "none" ELSE dirs[d].manifest

(* _existing_run: what the manifest says is the answer, whatever it is.    *)
ExistingRun(d) == dirs[d].manifest

(* A half-written manifest is an error.                                    *)
FindRun ==
  /\ job.pc = "find" /\ ExistingRun(Here) # "none"
  /\ IF ExistingRun(Here) = "half" THEN Raise ELSE Conclude(ExistingRun(Here))
  /\ UNCHANGED <<dirs, dataset, bundle, reports, starts>>

(* A directory without a manifest is prepared, whatever else it holds.     *)
Prepare ==
  /\ job.pc = "find" /\ ExistingRun(Here) = "none"
  /\ dirs' = [dirs EXCEPT ![Here].profile = TRUE]
  /\ IF Profile \in Renegotiating
     THEN job' = [job EXCEPT !.pc = "finalize", !.status = "unsupported_in_lab"]
     ELSE \/ Goto("up")
          \/ job' = [job EXCEPT !.pc = "finalize", !.status = "failed"]
  /\ UNCHANGED <<dataset, bundle, reports, starts>>

(* The services come up or not; the capture of mail-core comes up with     *)
(* them and truncates the file.  tcpdump in legacy-lab is started without  *)
(* looking whether it runs: what an earlier attempt captured may stay.     *)
BringUp ==
  /\ job.pc = "up"
  /\ \E up \in BOOLEAN, capturing \in BOOLEAN :
       /\ capturing => up
       /\ up /\ Profile \notin Legacy => capturing
       /\ dirs' = IF capturing THEN [dirs EXCEPT ![Here].pcap = "empty"] ELSE dirs
       /\ job' = [job EXCEPT !.pc = IF up THEN "client" ELSE "finalize",
                             !.capturing = capturing,
                             !.status = CASE up -> "none"
                                        [] ~up /\ dirs[Here].note -> "unsupported_in_lab"
                                        [] OTHER -> "failed"]
  /\ UNCHANGED <<dataset, bundle, reports, starts>>

(* The client makes its connections; it may leave a note that its OpenSSL  *)
(* cannot, may fail, and the capture may miss packets.  The note, which an *)
(* earlier attempt may have left, comes before the return code.            *)
RunClient ==
  /\ job.pc = "client"
  /\ \E note, fails \in BOOLEAN, pcap \in {"empty", "short", "whole"} :
       LET noted == dirs[Here].note \/ note
       IN /\ note => Profile \in Fragile
          /\ dirs' = [dirs EXCEPT ![Here].note = noted,
                                  ![Here].pcap = IF job.capturing THEN pcap
                                                  ELSE dirs[Here].pcap]
          /\ job' = [job EXCEPT !.pc = "finalize",
                                !.status = CASE noted -> "unsupported_in_lab"
                                           [] ~noted /\ fails -> "failed"
                                           [] OTHER -> "success"]
  /\ UNCHANGED <<dataset, bundle, reports, starts>>

(* A mutant of the next: a capture that is there is good enough.           *)
FinalStatusOfFile(status, pcap) ==
  IF status = "success" /\ pcap = "none" THEN "failed" ELSE status

(* Another: such a run is recorded as incomplete.                          *)
FinalStatusIncomplete(status, pcap) ==
  IF status = "success" /\ pcap \in {"none", "empty"} THEN "incomplete" ELSE status

(* finalize_run: no success without a capture of at least one byte.        *)
FinalStatus(status, pcap) ==
  IF status = "success" /\ pcap \in {"none", "empty"} THEN "failed" ELSE status

(* The capture is hashed and the manifest opened.                          *)
FinalizeRun ==
  /\ job.pc = "finalize"
  /\ LET status == FinalStatus(job.status, dirs[Here].pcap)
     IN /\ dirs' = [dirs EXCEPT ![Here].manifest = "half",
                                ![Here].sha = IF status = "success" /\ dirs[Here].pcap # "empty"
                                              THEN dirs[Here].pcap ELSE "none"]
        /\ job' = [job EXCEPT !.pc = "manifest", !.status = status]
  /\ UNCHANGED <<dataset, bundle, reports, starts>>

WriteManifest ==
  /\ job.pc = "manifest"
  /\ dirs' = [dirs EXCEPT ![Here].manifest = job.status]
  /\ Conclude(job.status)
  /\ UNCHANGED <<dataset, bundle, reports, starts>>

(* A mutant of the next: the sessions extracted are not counted.           *)
AssembleUncounted ==
  /\ job.pc = "assemble"
  /\ IF \A r \in job.results : r.status = "success" THEN Goto("store") ELSE Raise
  /\ UNCHANGED <<dirs, dataset, bundle, reports, starts>>

(* assemble_successful_runs and validate_training_matrix: every capture of *)
(* the matrix, each with all its sessions; split_dataset has none for a    *)
(* configured environment otherwise.                                       *)
Assemble ==
  /\ job.pc = "assemble"
  /\ IF \A r \in job.results :
          r.status = "success" /\ dirs[<<r.profile, r.root>>].pcap = "whole"
     THEN Goto("store") ELSE Raise
  /\ UNCHANGED <<dirs, dataset, bundle, reports, starts>>

(* split_dataset by the configured environments.                           *)
SplitOf(environment) == {p \in Planned : Environment[p] = environment}

(* write_dataset_run: a directory without a manifest is an error.          *)
StoreDataset ==
  /\ job.pc = "store"
  /\ IF dataset.state = "none"
     THEN dataset' = [dataset EXCEPT !.state = "directory"] /\ Goto("files")
     ELSE UNCHANGED dataset /\ Raise
  /\ UNCHANGED <<dirs, bundle, reports, starts>>

(* The records and the splits, then the manifest.                          *)
WriteDataset ==
  /\ \/ /\ job.pc = "files" /\ Goto("half")
        /\ dataset' = [dataset EXCEPT !.train = SplitOf("lab_train"),
                                      !.validation = SplitOf("lab_calibration"),
                                      !.test = SplitOf("lab_test")]
     \/ /\ job.pc = "half" /\ Goto("written")
        /\ dataset' = [dataset EXCEPT !.state = "half"]
     \/ /\ job.pc = "written" /\ Goto("save")
        /\ dataset' = [dataset EXCEPT !.state = "written"]
  /\ UNCHANGED <<dirs, bundle, reports, starts>>

(* A mutant of the next: the bundle that is there is not looked at.        *)
SaveBundleUnread ==
  /\ job.pc = "save"
  /\ \/ /\ bundle.state = "none" /\ Goto("checksums")
        /\ bundle' = [state |-> "part", config |-> job.config]
     \/ bundle.state # "none" /\ Goto("report") /\ UNCHANGED bundle
  /\ UNCHANGED <<dirs, dataset, reports, starts>>

(* _reuse_or_save_bundle: a bundle without checksums cannot be loaded, one *)
(* of another configuration has another id.                                *)
SaveBundle ==
  /\ job.pc = "save"
  /\ \/ /\ bundle.state = "none" /\ Goto("checksums")
        /\ bundle' = [state |-> "part", config |-> job.config]
     \/ /\ bundle.state # "none" /\ UNCHANGED bundle
        /\ IF bundle = [state |-> "written", config |-> job.config]
           THEN Goto("report") ELSE Raise
  /\ UNCHANGED <<dirs, dataset, reports, starts>>

WriteChecksums ==
  /\ job.pc = "checksums" /\ Goto("report")
  /\ bundle' = [bundle EXCEPT !.state = "written"]
  /\ UNCHANGED <<dirs, dataset, reports, starts>>

(* save_evaluation_report: the same evaluation is found again, a directory *)
(* without metrics is an error; else it is made, and the metrics written.  *)
SaveReport ==
  /\ job.pc = "report"
  /\ IF reports[job.config] = "none"
     THEN reports' = [reports EXCEPT ![job.config] = "part"] /\ Goto("metrics")
     ELSE UNCHANGED reports /\ Raise
  /\ UNCHANGED <<dirs, dataset, bundle, starts>>

WriteMetrics ==
  /\ job.pc = "metrics" /\ Raise
  /\ reports' = [reports EXCEPT ![job.config] = "written"]
  /\ UNCHANGED <<dirs, dataset, bundle, starts>>

(* The script is killed, or a command it runs cannot be started.           *)
Crash ==
  /\ job.pc # "off" /\ job' = NoJob
  /\ UNCHANGED <<dirs, dataset, bundle, reports, starts>>

Next ==
  \/ \E config \in Configs : StartTraining(config)
  \/ \E p \in Others : StartSingle(p)
  \/ FindRun \/ Prepare \/ BringUp \/ RunClient \/ FinalizeRun \/ WriteManifest
  \/ Assemble \/ StoreDataset \/ WriteDataset
  \/ SaveBundle \/ WriteChecksums \/ SaveReport \/ WriteMetrics
  \/ Crash
Spec == Init /\ [][Next]_vars

(***************************************************************************)
(* What the monitor shows of a profile: the retry if there is one.         *)
(***************************************************************************)
RunStatus(run) ==
  CASE run.manifest = "none" -> "incomplete"
    [] run.manifest = "half" -> "invalid"
    [] OTHER -> run.manifest

(* A mutant of the next: the first run is preferred.                       *)
ShownFirst(p) ==
  LET root == IF dirs[<<p, "first">>].profile THEN "first" ELSE "retry"
  IN IF dirs[<<p, root>>].profile THEN RunStatus(dirs[<<p, root>>]) ELSE "none"

Shown(p) ==
  LET root == IF dirs[<<p, "retry">>].profile THEN "retry" ELSE "first"
  IN IF dirs[<<p, root>>].profile THEN RunStatus(dirs[<<p, root>>]) ELSE "none"

(***************************************************************************)
(* Properties.                                                             *)
(***************************************************************************)
Run ==
  [profile : BOOLEAN, note : BOOLEAN, pcap : Captures,
   manifest : {"none", "half"} \cup Statuses, sha : Captures]
Job ==
  [pc : {"off", "find", "up", "client", "finalize", "manifest", "assemble", "store",
         "files", "half", "written", "save", "checksums", "report", "metrics"},
   kind : {"none", "train", "single"}, todo : Seq(Profiles), root : Roots,
   capturing : BOOLEAN, status : {"none"} \cup Statuses,
   results : SUBSET [profile : Profiles, root : Roots, status : Statuses],
   config : Configs \cup {"none"}]

TypeOK ==
  /\ dirs \in [Profiles \X Roots -> Run]
  /\ dataset \in [state : {"none", "directory", "half", "written"},
                  train : SUBSET Planned, validation : SUBSET Planned,
                  test : SUBSET Planned]
  /\ bundle \in [state : {"none", "part", "written"}, config : Configs \cup {"none"}]
  /\ reports \in [Configs -> {"none", "part", "written"}]
  /\ job \in Job
  /\ starts \in 0..MaxStarts

(* A run that is recorded as a success has a capture of at least one byte, *)
(* and its manifest has the hash of that capture, through every crash and  *)
(* every later start (runner.py:143-174).  The capture need not hold a     *)
(* packet: a file with nothing but its header counts as a success here,    *)
(* and DatasetIsWhole is what keeps it out of a dataset.                   *)
SuccessHasCapture ==
  \A d \in Profiles \X Roots : dirs[d].manifest = "success" =>
    dirs[d].sha = dirs[d].pcap /\ dirs[d].pcap \in {"short", "whole"}

(* What is recorded is never touched again: neither a later start nor a    *)
(* retry runs in a directory that has a manifest (runner.py:250-268).      *)
RecordedStays ==
  [][\A d \in Profiles \X Roots :
       dirs[d].manifest \in Statuses => dirs'[d] = dirs[d]]_vars

(* What the monitor shows of a profile whose turn is over is what the      *)
(* script goes on with, in this start or a later one                       *)
(* (monitor_pcap_matrix.py:64-107, runner.py:177-193).                     *)
MonitorAgrees ==
  job.kind = "train" => \A r \in job.results : Shown(r.profile) = r.status

(* A dataset with a manifest has the whole capture of every profile of the *)
(* matrix, each in exactly one split (runner.py:196-247, 390-430,          *)
(* dataset.py:1474-1680).                                                  *)
DatasetIsWhole ==
  dataset.state = "written" =>
    /\ dataset.train \cup dataset.validation \cup dataset.test = Planned
    /\ dataset.train \cap (dataset.validation \cup dataset.test) = {}
    /\ dataset.validation \cap dataset.test = {}
    /\ \A p \in Planned : \E root \in Roots :
         dirs[<<p, root>>].manifest = "success" /\ dirs[<<p, root>>].pcap = "whole"

(* An evaluation was made of the bundle that is stored, complete, and of   *)
(* no other configuration's (train_evaluate_grouped_matrix.py:195-330).    *)
ReportedIsStored ==
  \A config \in Configs : reports[config] # "none" =>
    bundle = [state |-> "written", config |-> config] /\ dataset.state = "written"
=============================================================================
