--------------------------- MODULE LabRunsProofs ---------------------------
(* Theorems about LabRuns, for every matrix, every set of other profiles   *)
(* and every number of starts.                                             *)
EXTENDS LabRuns, SequenceTheorems, TLAPS

Places == Profiles \X Roots
Running == {"up", "client", "finalize"}
Busy == {"find", "manifest"} \cup Running

(***************************************************************************)
(* The inductive invariant.  The first part is about the run directories:  *)
(* a script that is at a directory found no manifest there, a retry has a  *)
(* failed first run, and what the script has concluded is on disk.         *)
(***************************************************************************)
AtWork ==
  /\ (job.pc \in Busy => job.todo # << >>)
  /\ (job.pc \in Busy /\ job.root = "retry" =>
        job.kind = "train" /\ dirs[<<Profile, "first">>].manifest = "failed")
  /\ (job.pc = "assemble" => job.kind = "train")

Unrecorded ==
  job.pc \in Running =>
    dirs[Here].manifest = "none" /\ dirs[Here].profile = TRUE

Finishing == job.pc = "finalize" => job.status \in Statuses

HalfRecorded ==
  job.pc = "manifest" =>
    /\ dirs[Here].manifest = "half" /\ dirs[Here].profile = TRUE
    /\ job.status \in Statuses
    /\ (job.status = "success" =>
          dirs[Here].sha = dirs[Here].pcap /\ dirs[Here].pcap \in {"short", "whole"})

RecordedHasProfile ==
  \A d \in Places : dirs[d].manifest # "none" => dirs[d].profile = TRUE

RetryAfterFailure ==
  \A p \in Profiles :
    dirs[<<p, "retry">>].profile = TRUE => dirs[<<p, "first">>].manifest = "failed"

ResultsRecorded ==
  \A r \in job.results :
    /\ dirs[<<r.profile, r.root>>].manifest = r.status
    /\ (job.kind = "train" /\ r.root = "first" => r.status # "failed")

(* No profile of the matrix is left out.                                   *)
Covered ==
  job.kind = "train" /\ job.pc \in Busy \cup {"assemble"} =>
    \A p \in Planned : \/ \E r \in job.results : r.profile = p
                       \/ job.pc # "assemble" /\ \E i \in DOMAIN job.todo : job.todo[i] = p

RunsInv ==
  /\ AtWork /\ Unrecorded /\ Finishing /\ HalfRecorded
  /\ SuccessHasCapture /\ RecordedHasProfile /\ RetryAfterFailure
  /\ ResultsRecorded /\ Covered

(***************************************************************************)
(* The second part is about what is made of the runs.                      *)
(***************************************************************************)
AllWhole ==
  \A p \in Planned : \E root \in Roots :
    dirs[<<p, root>>].manifest = "success" /\ dirs[<<p, root>>].pcap = "whole"

IsSplit ==
  /\ dataset.train = SplitOf("lab_train")
  /\ dataset.validation = SplitOf("lab_calibration")
  /\ dataset.test = SplitOf("lab_test")

Storing ==
  /\ (job.pc \in {"store", "files", "half", "written"} => AllWhole)
  /\ (job.pc \in {"files", "half"} => dataset.state = "directory")
  /\ (job.pc = "written" => dataset.state = "half")
  /\ (job.pc \in {"half", "written"} => IsSplit)
  /\ (dataset.state = "written" => AllWhole /\ IsSplit)

Reporting ==
  /\ (job.pc \in {"save", "checksums", "report", "metrics"} => dataset.state = "written")
  /\ (job.pc = "checksums" => bundle = [state |-> "part", config |-> job.config])
  /\ (job.pc \in {"report", "metrics"} =>
        bundle = [state |-> "written", config |-> job.config])

IndInv == TypeOK /\ RunsInv /\ Storing /\ Reporting /\ ReportedIsStored

LEMMA InitInv == Init => IndInv
<1> SUFFICES ASSUME Init PROVE IndInv
  OBVIOUS
<1>1. TypeOK
  BY StartsAreCounted DEF Init, TypeOK, Run, NoRun, NoDataset, NoJob, Job, Captures, Statuses, Roots
<1>2. \A d \in Places : dirs[d] = NoRun
  BY DEF Init, Places
<1>3. RunsInv
  BY <1>2 DEF Init, RunsInv, AtWork, Unrecorded, Finishing, HalfRecorded, SuccessHasCapture,
     RecordedHasProfile, RetryAfterFailure, ResultsRecorded, Covered, NoJob, NoRun, Busy,
     Running, Places, Roots
<1>4. Storing /\ Reporting /\ ReportedIsStored
  BY DEF Init, Storing, Reporting, ReportedIsStored, NoJob, NoDataset
<1>5. QED
  BY <1>1, <1>3, <1>4 DEF IndInv

(* The script is at a directory.                                           *)
LEMMA HereIsPlace ==
  ASSUME TypeOK, AtWork, job.pc \in Busy
  PROVE  /\ Profile \in Profiles /\ job.root \in Roots /\ Here \in Places
         /\ Tail(job.todo) \in Seq(Profiles) /\ Len(job.todo) \in Nat \ {0}
<1>1. job.todo \in Seq(Profiles) /\ job.todo # << >> /\ job.root \in Roots
  BY DEF TypeOK, Job, AtWork
<1>2. QED
  BY <1>1 DEF Profile, Here, Places

(* What a script that is at a directory may write there, without harm to   *)
(* any other directory or to what was concluded.                           *)
LEMMA RunWritten ==
  ASSUME IndInv, job.pc \in Busy, dirs[Here].manifest \notin Statuses,
         NEW run \in Run, dirs' = [dirs EXCEPT ![Here] = run], run.profile = TRUE,
         (run.manifest = "success") =>
           (run.sha = run.pcap /\ run.pcap \in {"short", "whole"})
  PROVE  /\ dirs' \in [Places -> Run] /\ dirs'[Here] = run
         /\ \A d \in Places : dirs[d].manifest \in Statuses => dirs'[d] = dirs[d]
         /\ SuccessHasCapture' /\ RecordedHasProfile' /\ RetryAfterFailure'
<1>1. /\ Here \in Places /\ Profile \in Profiles /\ job.root \in Roots
  BY HereIsPlace DEF IndInv, RunsInv
<1>2. dirs \in [Places -> Run]
  BY DEF IndInv, TypeOK, Places
<1>3. /\ dirs' \in [Places -> Run] /\ dirs'[Here] = run
      /\ \A d \in Places : d # Here => dirs'[d] = dirs[d]
  BY <1>1, <1>2
<1>4. SuccessHasCapture' /\ RecordedHasProfile'
  BY <1>3 DEF IndInv, RunsInv, SuccessHasCapture, RecordedHasProfile, Places
<1>5. RetryAfterFailure'
  <2> SUFFICES ASSUME NEW p \in Profiles, dirs'[<<p, "retry">>].profile = TRUE
               PROVE  dirs'[<<p, "first">>].manifest = "failed"
    BY DEF RetryAfterFailure
  <2>1. <<p, "retry">> \in Places /\ <<p, "first">> \in Places
    BY DEF Places, Roots
  <2>2. CASE Here = <<p, "retry">>
    <3>1. job.root = "retry" /\ Profile = p
      BY <2>2 DEF Here
    <3>2. dirs[<<p, "first">>].manifest = "failed"
      BY <3>1 DEF IndInv, RunsInv, AtWork
    <3>3. QED
      BY <1>3, <2>1, <2>2, <3>2
  <2>3. CASE Here = <<p, "first">>
    <3>1. dirs[<<p, "retry">>].profile = TRUE
      BY <1>3, <2>1, <2>3
    <3>2. QED
      BY <2>3, <3>1 DEF IndInv, RunsInv, RetryAfterFailure, Statuses
  <2>4. CASE Here \notin {<<p, "retry">>, <<p, "first">>}
    BY <1>3, <2>1, <2>4 DEF IndInv, RunsInv, RetryAfterFailure
  <2>5. QED
    BY <2>2, <2>3, <2>4
<1>6. QED
  BY <1>3, <1>4, <1>5

(* What is recorded stays, and with it what the matrix came to.            *)
LEMMA ResultsStay ==
  ASSUME IndInv, dirs' \in [Places -> Run],
         \A d \in Places : dirs[d].manifest \in Statuses => dirs'[d] = dirs[d]
  PROVE  /\ (AllWhole => AllWhole')
         /\ \A r \in job.results : dirs'[<<r.profile, r.root>>].manifest = r.status
<1>1. job.results \subseteq [profile : Profiles, root : Roots, status : Statuses]
  BY DEF IndInv, TypeOK, Job
<1>2. \A r \in job.results : dirs'[<<r.profile, r.root>>].manifest = r.status
  BY <1>1 DEF IndInv, RunsInv, ResultsRecorded, Places
<1>3. ASSUME AllWhole PROVE AllWhole'
  <2> SUFFICES ASSUME NEW p \in Planned
               PROVE  \E root \in Roots : /\ dirs'[<<p, root>>].manifest = "success"
                                          /\ dirs'[<<p, root>>].pcap = "whole"
    BY DEF AllWhole
  <2>1. PICK root \in Roots : /\ dirs[<<p, root>>].manifest = "success"
                             /\ dirs[<<p, root>>].pcap = "whole"
    BY <1>3 DEF AllWhole
  <2>2. <<p, root>> \in Places
    BY DEF Places, Profiles
  <2>3. QED
    BY <2>1, <2>2 DEF Statuses
<1>4. QED
  BY <1>2, <1>3

LEMMA TailLeft ==
  ASSUME NEW S, NEW s \in Seq(S), Len(s) > 1
  PROVE  Tail(s) # << >>
<1> DEFINE n == Len(s)
<1>1. n \in Nat /\ n > 1 /\ Len(Tail(s)) = n - 1
  OBVIOUS
<1> HIDE DEF n
<1>2. n - 1 # 0
  BY <1>1
<1>3. Len(Tail(s)) # 0
  BY <1>1, <1>2, Zenon
<1>4. Len(<< >>) = 0
  BY EmptySeq
<1>5. QED
  BY <1>3, <1>4, Zenon

(* The script goes on with the status of the directory it is at.           *)
LEMMA Concluding ==
  ASSUME IndInv, job.pc \in {"find", "manifest"}, dirs' \in [Places -> Run],
         \A d \in Places : dirs[d].manifest \in Statuses => dirs'[d] = dirs[d],
         NEW status \in Statuses, dirs'[Here].manifest = status, Conclude(status)
  PROVE  /\ job' \in Job /\ job'.pc \in {"find", "assemble", "off"}
         /\ (AtWork /\ Unrecorded /\ Finishing /\ HalfRecorded)'
         /\ ResultsRecorded' /\ Covered'
<1> DEFINE done == [profile |-> Profile, root |-> job.root, status |-> status]
<1>1. /\ Profile \in Profiles /\ job.root \in Roots /\ Here \in Places
      /\ Tail(job.todo) \in Seq(Profiles) /\ Len(job.todo) \in Nat \ {0}
  BY HereIsPlace DEF IndInv, RunsInv, Busy
<1>2. job \in Job /\ job.todo \in Seq(Profiles)
  BY DEF IndInv, TypeOK, Job
<1>3. \A r \in job.results : dirs'[<<r.profile, r.root>>].manifest = r.status
  BY ResultsStay
<1>4. CASE job.kind = "train" /\ job.root = "first" /\ Retried(status)
  <2>1. job' = [job EXCEPT !.pc = "find", !.root = "retry", !.capturing = FALSE,
                           !.status = "none"]
    BY <1>4 DEF Conclude
  <2>2. job' \in Job
    BY <1>2, <2>1 DEF Job, Roots
  <2>3. /\ job'.pc = "find" /\ job'.root = "retry" /\ job'.todo = job.todo
        /\ job'.kind = job.kind /\ job'.results = job.results
    BY <1>2, <2>1 DEF Job
  <2>4. AtWork'
    <3>1. Profile' = Profile /\ Here = <<Profile, "first">>
      BY <1>4, <2>3 DEF Profile, Here
    <3>2. dirs'[<<Profile', "first">>].manifest = "failed"
      BY <1>4, <3>1 DEF Retried
    <3>3. QED
      BY <1>4, <2>3, <3>2 DEF AtWork, IndInv, RunsInv, Busy
  <2>5. (Unrecorded /\ Finishing /\ HalfRecorded)'
    BY <2>3 DEF Unrecorded, Finishing, HalfRecorded, Running
  <2>6. ResultsRecorded'
    BY <1>3, <2>3 DEF ResultsRecorded, IndInv, RunsInv
  <2>7. Covered'
    BY <2>3 DEF Covered, IndInv, RunsInv, Busy
  <2>8. QED
    BY <2>2, <2>3, <2>4, <2>5, <2>6, <2>7
<1>5. CASE ~(job.kind = "train" /\ job.root = "first" /\ Retried(status))
  <2> DEFINE pc == CASE Len(job.todo) > 1 -> "find"
                   [] Len(job.todo) = 1 /\ job.kind = "train" -> "assemble"
                   [] OTHER -> "off"
  <2>1. job' = [job EXCEPT !.pc = pc, !.todo = Tail(job.todo), !.root = "first",
                           !.capturing = FALSE, !.status = "none",
                           !.results = job.results \cup {done}]
    BY <1>2, <1>5 DEF Conclude, Job
  <2>2. /\ pc \in {"find", "assemble", "off"}
        /\ (pc = "find" => Len(job.todo) > 1)
        /\ (pc = "assemble" => Len(job.todo) = 1 /\ job.kind = "train")
    BY <1>1
  <2> HIDE DEF pc
  <2>3. done \in [profile : Profiles, root : Roots, status : Statuses]
    BY <1>1
  <2>4. job' \in Job
    <3>1. Tail(job.todo) \in Seq(Profiles)
      BY <1>1
    <3>2. job.results \cup {done} \in SUBSET [profile : Profiles, root : Roots, status : Statuses]
      BY <1>1, <1>2, <2>3 DEF Job
    <3>3. QED
      BY <1>1, <1>2, <2>1, <2>2, <3>1, <3>2 DEF Job, Roots
  <2>5. /\ job'.pc = pc /\ job'.root = "first" /\ job'.todo = Tail(job.todo)
        /\ job'.kind = job.kind /\ job'.results = job.results \cup {done}
    BY <1>2, <2>1 DEF Job
  <2>6. AtWork'
    <3>1. pc = "find" => Tail(job.todo) # << >>
      BY <1>2, <2>2, TailLeft
    <3>2. QED
      BY <2>2, <2>5, <3>1 DEF AtWork, Busy, Running
  <2>7. (Unrecorded /\ Finishing /\ HalfRecorded)'
    BY <2>2, <2>5 DEF Unrecorded, Finishing, HalfRecorded, Running
  <2>8. ResultsRecorded'
    <3>1. <<done.profile, done.root>> = Here
      BY DEF Here
    <3>2. dirs'[<<done.profile, done.root>>].manifest = done.status
      BY <3>1
    <3>3. job.kind = "train" /\ done.root = "first" => done.status # "failed"
      BY <1>5 DEF Retried
    <3> HIDE DEF done
    <3>4. QED
      BY <1>3, <2>5, <3>2, <3>3 DEF ResultsRecorded, IndInv, RunsInv
  <2>9. Covered'
    <3> SUFFICES ASSUME job.kind = "train", pc \in {"find", "assemble"}, NEW p \in Planned
                 PROVE  \/ \E r \in job.results \cup {done} : r.profile = p
                        \/ pc # "assemble" /\ \E i \in DOMAIN Tail(job.todo) : Tail(job.todo)[i] = p
      BY <2>2, <2>5 DEF Covered, Busy, Running
    <3>1. \/ \E r \in job.results : r.profile = p
          \/ \E i \in DOMAIN job.todo : job.todo[i] = p
      BY DEF IndInv, RunsInv, Covered, Busy
    <3>2. ASSUME NEW i \in DOMAIN job.todo, job.todo[i] = p, i # 1
          PROVE  pc # "assemble" /\ \E k \in DOMAIN Tail(job.todo) : Tail(job.todo)[k] = p
      <4>1. i \in 1..Len(job.todo) /\ i - 1 \in 1..(Len(job.todo) - 1)
        BY <1>2, <3>2
      <4>2. DOMAIN Tail(job.todo) = 1..(Len(job.todo) - 1)
        BY <1>1, <1>2
      <4>3. Tail(job.todo)[i - 1] = p
        BY <1>1, <1>2, <3>2, <4>1
      <4>4. QED
        BY <2>2, <4>1, <4>2, <4>3
    <3>3. ASSUME job.todo[1] = p PROVE done.profile = p
      BY <1>1, <1>2, <3>3 DEF Profile
    <3>4. QED
      BY <3>1, <3>2, <3>3
  <2>10. QED
    BY <2>2, <2>4, <2>5, <2>6, <2>7, <2>8, <2>9
<1>6. QED
  BY <1>4, <1>5

(* The script is not at a directory, or leaves the one it was at.          *)
LEMMA Leaving ==
  ASSUME IndInv, UNCHANGED dirs,
         \/ job' = NoJob
         \/ \E pc \in {"store", "files", "half", "written", "save", "checksums",
                       "report", "metrics"} : job' = [job EXCEPT !.pc = pc]
  PROVE  job' \in Job /\ RunsInv'
<1>1. job \in Job
  BY DEF IndInv, TypeOK
<1>2. job' \in Job /\ job'.pc \notin Busy \cup {"assemble"}
  <2>1. CASE job' = NoJob
    <3>1. NoJob.todo \in Seq(Profiles)
      BY DEF NoJob
    <3>2. QED
      BY <2>1, <3>1 DEF Job, NoJob, Statuses, Roots, Busy, Running
  <2>2. ASSUME NEW pc \in {"store", "files", "half", "written", "save", "checksums",
                           "report", "metrics"}, job' = [job EXCEPT !.pc = pc]
        PROVE  job' \in Job /\ job'.pc = pc
    BY <1>1, <2>2 DEF Job
  <2>3. QED
    BY <2>1, <2>2 DEF Busy, Running
<1>3. job'.results = {} \/ (job'.results = job.results /\ job'.kind = job.kind)
  BY <1>1 DEF Job, NoJob
<1>4. ResultsRecorded'
  BY <1>3 DEF ResultsRecorded, IndInv, RunsInv
<1>5. (AtWork /\ Unrecorded /\ Finishing /\ HalfRecorded /\ Covered)'
  BY <1>2 DEF AtWork, Unrecorded, Finishing, HalfRecorded, Covered, Busy, Running
<1>6. (SuccessHasCapture /\ RecordedHasProfile /\ RetryAfterFailure)'
  BY DEF IndInv, RunsInv, SuccessHasCapture, RecordedHasProfile, RetryAfterFailure
<1>7. QED
  BY <1>2, <1>4, <1>5, <1>6 DEF RunsInv

(* The script is at a directory and stays there.                           *)
LEMMA Working ==
  ASSUME IndInv, job.pc \in Busy, dirs[Here].manifest \notin Statuses,
         NEW run \in Run, dirs' = [dirs EXCEPT ![Here] = run], run.profile = TRUE,
         (run.manifest = "success") =>
           (run.sha = run.pcap /\ run.pcap \in {"short", "whole"}),
         NEW pc \in {"up", "client", "finalize", "manifest"},
         NEW capturing \in BOOLEAN, NEW status \in {"none"} \cup Statuses,
         job' = [job EXCEPT !.pc = pc, !.capturing = capturing, !.status = status],
         (pc \in Running) => (run.manifest = "none"),
         (pc \in {"finalize", "manifest"}) => (status \in Statuses),
         (pc = "manifest") =>
           (/\ run.manifest = "half"
            /\ status = "success" => run.sha = run.pcap /\ run.pcap \in {"short", "whole"}),
         UNCHANGED <<dataset, bundle, reports, starts>>
  PROVE  IndInv'
<1>1. /\ dirs' \in [Places -> Run] /\ dirs'[Here] = run
      /\ \A d \in Places : dirs[d].manifest \in Statuses => dirs'[d] = dirs[d]
      /\ SuccessHasCapture' /\ RecordedHasProfile' /\ RetryAfterFailure'
  BY RunWritten
<1>2. Profile \in Profiles
  BY HereIsPlace DEF IndInv, RunsInv
<1>3. job \in Job
  BY DEF IndInv, TypeOK
<1>4. /\ job' \in Job /\ job'.pc = pc /\ job'.status = status /\ job'.kind = job.kind
      /\ job'.todo = job.todo /\ job'.root = job.root /\ job'.results = job.results
  BY <1>3 DEF Job
<1>5. Profile' = Profile /\ Here' = Here
  BY <1>4 DEF Profile, Here
<1>6. AtWork'
  <2>1. <<Profile, "first">> \in Places
    BY <1>2 DEF Places, Roots
  <2>2. QED
    BY <1>1, <1>4, <1>5, <2>1 DEF AtWork, IndInv, RunsInv, Statuses
<1>7. (Unrecorded /\ Finishing /\ HalfRecorded)'
  <2>1. dirs'[Here'] = run
    BY <1>1, <1>5
  <2>2. QED
    BY <1>4, <2>1 DEF Unrecorded, Finishing, HalfRecorded
<1>8. ResultsRecorded' /\ (AllWhole => AllWhole')
  BY <1>1, <1>4, ResultsStay DEF ResultsRecorded, IndInv, RunsInv
<1>9. Covered'
  BY <1>4 DEF Covered, IndInv, RunsInv, Busy, Running
<1>10. TypeOK'
  BY <1>1, <1>4 DEF TypeOK, IndInv, Places
<1>11. Storing' /\ Reporting' /\ ReportedIsStored'
  BY <1>4, <1>8 DEF Storing, Reporting, ReportedIsStored, IsSplit, IndInv
<1>12. QED
  BY <1>1, <1>6, <1>7, <1>8, <1>9, <1>10, <1>11 DEF IndInv, RunsInv

(***************************************************************************)
(* The actions, one by one.                                                *)
(***************************************************************************)
LEMMA StartTrainingInv ==
  ASSUME IndInv, NEW config \in Configs, StartTraining(config)
  PROVE  IndInv'
<1>1. UNCHANGED <<dirs, dataset, bundle, reports>> /\ starts' \in 0..MaxStarts
  BY StartsAreCounted DEF StartTraining, IndInv, TypeOK
<1>2. /\ job' \in Job /\ job'.results = {}
      /\ \/ job'.pc = "save" /\ dataset.state = "written"
         \/ job'.pc = "find" /\ job'.todo = Matrix /\ job'.root = "first"
         \/ job'.pc = "off"
  <2>1. CASE dataset.state = "written"
    <3>1. job' = [NoJob EXCEPT !.pc = "save", !.kind = "train", !.config = config]
      BY <2>1 DEF StartTraining
    <3>2. NoJob.todo \in Seq(Profiles)
      BY DEF NoJob
    <3>3. QED
      BY <2>1, <3>1, <3>2 DEF NoJob, Job, Roots
  <2>2. CASE dataset.state \in {"none", "directory"}
    <3>1. job' = [NoJob EXCEPT !.pc = "find", !.kind = "train", !.config = config,
                               !.todo = Matrix]
      BY <2>2 DEF StartTraining
    <3>2. Matrix \in Seq(Profiles)
      BY MatrixIsSequence DEF Profiles
    <3>3. QED
      BY <3>1, <3>2 DEF NoJob, Job, Roots
  <2>3. CASE dataset.state = "half"
    <3>1. job' = NoJob
      BY <2>3 DEF StartTraining
    <3>2. NoJob.todo \in Seq(Profiles)
      BY DEF NoJob
    <3>3. QED
      BY <3>1, <3>2 DEF NoJob, Job, Roots
  <2>4. QED
    BY <2>1, <2>2, <2>3 DEF IndInv, TypeOK
<1>3. TypeOK'
  BY <1>1, <1>2 DEF IndInv, TypeOK
<1>4. (AtWork /\ Unrecorded /\ Finishing /\ HalfRecorded)'
  BY <1>2, MatrixIsSequence DEF AtWork, Unrecorded, Finishing, HalfRecorded, Busy, Running
<1>5. ResultsRecorded'
  BY <1>2 DEF ResultsRecorded
<1>6. Covered'
  BY <1>2 DEF Covered, Busy, Running, Planned
<1>7. (SuccessHasCapture /\ RecordedHasProfile /\ RetryAfterFailure)'
  BY <1>1 DEF IndInv, RunsInv, SuccessHasCapture, RecordedHasProfile, RetryAfterFailure
<1>8. Storing' /\ Reporting' /\ ReportedIsStored'
  BY <1>1, <1>2 DEF IndInv, Storing, AllWhole, IsSplit, Reporting, ReportedIsStored
<1>9. QED
  BY <1>3, <1>4, <1>5, <1>6, <1>7, <1>8 DEF IndInv, RunsInv

LEMMA StartSingleInv ==
  ASSUME IndInv, NEW p \in Others, StartSingle(p)
  PROVE  IndInv'
<1>1. UNCHANGED <<dirs, dataset, bundle, reports>> /\ starts' \in 0..MaxStarts
  BY StartsAreCounted DEF StartSingle, IndInv, TypeOK
<1>2. job' = [NoJob EXCEPT !.pc = "find", !.kind = "single", !.todo = <<p>>]
  BY DEF StartSingle
<1>3. <<p>> \in Seq(Profiles) /\ <<p>> # << >>
  BY DEF Profiles
<1>4. /\ job' \in Job /\ job'.pc = "find" /\ job'.kind = "single" /\ job'.root = "first"
      /\ job'.todo # << >> /\ job'.results = {}
  BY <1>2, <1>3 DEF NoJob, Job, Roots
<1>5. TypeOK'
  BY <1>1, <1>4 DEF IndInv, TypeOK
<1>6. (AtWork /\ Unrecorded /\ Finishing /\ HalfRecorded /\ ResultsRecorded /\ Covered)'
  BY <1>4 DEF AtWork, Unrecorded, Finishing, HalfRecorded, ResultsRecorded, Covered, Running
<1>7. (SuccessHasCapture /\ RecordedHasProfile /\ RetryAfterFailure)'
  BY <1>1 DEF IndInv, RunsInv, SuccessHasCapture, RecordedHasProfile, RetryAfterFailure
<1>8. Storing' /\ Reporting' /\ ReportedIsStored'
  BY <1>1, <1>4 DEF IndInv, Storing, AllWhole, IsSplit, Reporting, ReportedIsStored
<1>9. QED
  BY <1>5, <1>6, <1>7, <1>8 DEF IndInv, RunsInv

(* The script dies, or raises: what it was doing stays as it is.           *)
LEMMA RaiseInv ==
  ASSUME IndInv, Raise, UNCHANGED <<dirs, dataset, bundle, reports, starts>>
  PROVE  IndInv'
<1>1. job' \in Job /\ RunsInv'
  BY Leaving DEF Raise
<1>2. TypeOK'
  BY <1>1 DEF IndInv, TypeOK
<1>3. Storing' /\ Reporting' /\ ReportedIsStored'
  BY DEF Raise, NoJob, IndInv, Storing, AllWhole, IsSplit, Reporting, ReportedIsStored
<1>4. QED
  BY <1>1, <1>2, <1>3 DEF IndInv

LEMMA FindRunInv ==
  ASSUME IndInv, FindRun
  PROVE  IndInv'
<1> USE DEF FindRun, ExistingRun
<1>1. CASE dirs[Here].manifest = "half"
  BY <1>1, RaiseInv
<1>2. CASE dirs[Here].manifest # "half"
  <2>1. Here \in Places
    BY HereIsPlace DEF IndInv, RunsInv, Busy
  <2>2. dirs \in [Places -> Run]
    BY DEF IndInv, TypeOK, Places
  <2>3. dirs[Here].manifest \in Statuses
    BY <1>2, <2>1, <2>2 DEF Run
  <2>4. Conclude(dirs[Here].manifest) /\ UNCHANGED <<dirs, dataset, bundle, reports, starts>>
    BY <1>2
  <2>5. /\ job' \in Job /\ job'.pc \in {"find", "assemble", "off"}
        /\ (AtWork /\ Unrecorded /\ Finishing /\ HalfRecorded)'
        /\ ResultsRecorded' /\ Covered'
    BY <2>2, <2>3, <2>4, Concluding
  <2>6. (SuccessHasCapture /\ RecordedHasProfile /\ RetryAfterFailure)'
    BY <2>4 DEF IndInv, RunsInv, SuccessHasCapture, RecordedHasProfile, RetryAfterFailure
  <2>7. TypeOK' /\ Storing' /\ Reporting' /\ ReportedIsStored'
    BY <2>4, <2>5 DEF IndInv, TypeOK, Storing, AllWhole, IsSplit, Reporting, ReportedIsStored
  <2>8. QED
    BY <2>5, <2>6, <2>7 DEF IndInv, RunsInv
<1>3. QED
  BY <1>1, <1>2

LEMMA WriteManifestInv ==
  ASSUME IndInv, WriteManifest
  PROVE  IndInv'
<1> DEFINE run == [dirs[Here] EXCEPT !.manifest = job.status]
<1>1. /\ job.pc = "manifest" /\ Conclude(job.status) /\ dirs' = [dirs EXCEPT ![Here] = run]
      /\ UNCHANGED <<dataset, bundle, reports, starts>>
  BY DEF WriteManifest
<1>2. Here \in Places
  BY <1>1, HereIsPlace DEF IndInv, RunsInv, Busy
<1>3. dirs[Here] \in Run
  BY <1>2 DEF IndInv, TypeOK, Places
<1>4. /\ dirs[Here].manifest = "half" /\ dirs[Here].profile = TRUE /\ job.status \in Statuses
      /\ (job.status = "success" =>
            dirs[Here].sha = dirs[Here].pcap /\ dirs[Here].pcap \in {"short", "whole"})
  BY <1>1 DEF IndInv, RunsInv, HalfRecorded
<1>5. /\ run \in Run /\ run.manifest = job.status /\ run.profile = TRUE
      /\ run.sha = dirs[Here].sha /\ run.pcap = dirs[Here].pcap
  BY <1>3, <1>4 DEF Run
<1> HIDE DEF run
<1>6. /\ dirs' \in [Places -> Run] /\ dirs'[Here] = run
      /\ \A d \in Places : dirs[d].manifest \in Statuses => dirs'[d] = dirs[d]
      /\ SuccessHasCapture' /\ RecordedHasProfile' /\ RetryAfterFailure'
  <2>1. dirs[Here].manifest \notin Statuses /\ job.pc \in Busy
    BY <1>1, <1>4 DEF Statuses, Busy
  <2>2. (run.manifest = "success") => (run.sha = run.pcap /\ run.pcap \in {"short", "whole"})
    BY <1>4, <1>5
  <2>3. QED
    BY <1>1, <1>5, <2>1, <2>2, RunWritten
<1>7. dirs'[Here].manifest = job.status
  BY <1>5, <1>6
<1>8. /\ job' \in Job /\ job'.pc \in {"find", "assemble", "off"}
      /\ (AtWork /\ Unrecorded /\ Finishing /\ HalfRecorded)'
      /\ ResultsRecorded' /\ Covered'
  BY <1>1, <1>4, <1>6, <1>7, Concluding
<1>9. AllWhole => AllWhole'
  BY <1>6, ResultsStay
<1>10. TypeOK' /\ Storing' /\ Reporting' /\ ReportedIsStored'
  BY <1>1, <1>6, <1>8, <1>9
     DEF IndInv, TypeOK, Storing, IsSplit, Reporting, ReportedIsStored, Places
<1>11. QED
  BY <1>6, <1>8, <1>10 DEF IndInv, RunsInv

(* What the script finds where it is.                                      *)
LEMMA HereIsRun ==
  ASSUME IndInv, job.pc \in Busy
  PROVE  Here \in Places /\ dirs[Here] \in Run
<1>1. Here \in Places
  BY HereIsPlace DEF IndInv, RunsInv
<1>2. QED
  BY <1>1 DEF IndInv, TypeOK, Places

LEMMA PrepareInv ==
  ASSUME IndInv, Prepare
  PROVE  IndInv'
<1> DEFINE run == [dirs[Here] EXCEPT !.profile = TRUE]
<1>1. /\ job.pc \in Busy /\ job.pc = "find" /\ dirs[Here].manifest = "none"
      /\ dirs' = [dirs EXCEPT ![Here] = run]
      /\ UNCHANGED <<dataset, bundle, reports, starts>>
  BY DEF Prepare, ExistingRun, Busy
<1>2. /\ run \in Run /\ run.profile = TRUE /\ run.manifest = "none"
  BY <1>1, HereIsRun DEF Run
<1> HIDE DEF run
<1>3. job \in Job
  BY DEF IndInv, TypeOK
<1>4. PICK pc \in {"up", "finalize"}, status \in {"none"} \cup Statuses :
        /\ job' = [job EXCEPT !.pc = pc, !.status = status]
        /\ pc = "finalize" => status \in Statuses
  <2>1. CASE job' = [job EXCEPT !.pc = "up"]
    <3>1. job' = [job EXCEPT !.pc = "up", !.status = job.status]
      BY <1>3, <2>1 DEF Job
    <3>2. job.status \in {"none"} \cup Statuses
      BY <1>3 DEF Job
    <3>3. QED
      BY <3>1, <3>2
  <2>2. CASE job' = [job EXCEPT !.pc = "finalize", !.status = "unsupported_in_lab"]
    BY <2>2 DEF Statuses
  <2>3. CASE job' = [job EXCEPT !.pc = "finalize", !.status = "failed"]
    BY <2>3 DEF Statuses
  <2>4. QED
    BY <2>1, <2>2, <2>3 DEF Prepare, Goto
<1>5. /\ job' = [job EXCEPT !.pc = pc, !.capturing = job.capturing, !.status = status]
      /\ job.capturing \in BOOLEAN
  BY <1>3, <1>4 DEF Job
<1>6. QED
  BY <1>1, <1>2, <1>4, <1>5, Working DEF Statuses

LEMMA BringUpInv ==
  ASSUME IndInv, BringUp
  PROVE  IndInv'
<1>1. job.pc \in Busy /\ job.pc = "up" /\ UNCHANGED <<dataset, bundle, reports, starts>>
  BY DEF BringUp, Busy, Running
<1>2. PICK up \in BOOLEAN, capturing \in BOOLEAN :
        /\ dirs' = IF capturing THEN [dirs EXCEPT ![Here].pcap = "empty"] ELSE dirs
        /\ job' = [job EXCEPT !.pc = IF up THEN "client" ELSE "finalize",
                              !.capturing = capturing,
                              !.status = CASE up -> "none"
                                         [] ~up /\ dirs[Here].note -> "unsupported_in_lab"
                                         [] OTHER -> "failed"]
  BY DEF BringUp
<1>3. Here \in Places /\ dirs[Here] \in Run /\ dirs \in [Places -> Run]
  BY <1>1, HereIsRun DEF IndInv, TypeOK, Places
<1>4. dirs[Here].manifest = "none" /\ dirs[Here].profile = TRUE
  BY <1>1 DEF IndInv, RunsInv, Unrecorded, Running
<1> DEFINE run == [dirs[Here] EXCEPT !.pcap = IF capturing THEN "empty" ELSE dirs[Here].pcap]
<1>5. dirs' = [dirs EXCEPT ![Here] = run]
  <2>1. CASE capturing
    BY <1>2, <2>1
  <2>2. CASE ~capturing
    <3>1. run = dirs[Here]
      BY <1>3, <2>2 DEF Run
    <3>2. QED
      BY <1>2, <1>3, <2>2, <3>1
  <2>3. QED
    BY <2>1, <2>2
<1>6. run \in Run /\ run.profile = TRUE /\ run.manifest = "none"
  BY <1>3, <1>4 DEF Run, Captures
<1> HIDE DEF run
<1> DEFINE pc == IF up THEN "client" ELSE "finalize"
           status == CASE up -> "none"
                     [] ~up /\ dirs[Here].note -> "unsupported_in_lab"
                     [] OTHER -> "failed"
<1>7. job' = [job EXCEPT !.pc = pc, !.capturing = capturing, !.status = status]
  BY <1>2
<1>8. /\ pc \in {"client", "finalize"} /\ status \in {"none"} \cup Statuses
      /\ (pc = "finalize" => status \in Statuses)
  BY DEF Statuses
<1> HIDE DEF pc, status
<1>9. QED
  BY <1>1, <1>4, <1>5, <1>6, <1>7, <1>8, Working DEF Statuses

LEMMA RunClientInv ==
  ASSUME IndInv, RunClient
  PROVE  IndInv'
<1>1. job.pc \in Busy /\ job.pc = "client" /\ UNCHANGED <<dataset, bundle, reports, starts>>
  BY DEF RunClient, Busy, Running
<1>2. PICK note \in BOOLEAN, fails \in BOOLEAN, pcap \in {"empty", "short", "whole"} :
        LET noted == dirs[Here].note \/ note
        IN /\ dirs' = [dirs EXCEPT ![Here].note = noted,
                                   ![Here].pcap = IF job.capturing THEN pcap
                                                  ELSE dirs[Here].pcap]
           /\ job' = [job EXCEPT !.pc = "finalize",
                                 !.status = CASE noted -> "unsupported_in_lab"
                                            [] ~noted /\ fails -> "failed"
                                            [] OTHER -> "success"]
  BY DEF RunClient
<1>3. Here \in Places /\ dirs[Here] \in Run /\ dirs \in [Places -> Run]
  BY <1>1, HereIsRun DEF IndInv, TypeOK, Places
<1>4. dirs[Here].manifest = "none" /\ dirs[Here].profile = TRUE
  BY <1>1 DEF IndInv, RunsInv, Unrecorded, Running
<1> DEFINE noted == dirs[Here].note \/ note
           run == [dirs[Here] EXCEPT !.note = noted,
                                     !.pcap = IF job.capturing THEN pcap ELSE dirs[Here].pcap]
           status == CASE noted -> "unsupported_in_lab"
                     [] ~noted /\ fails -> "failed"
                     [] OTHER -> "success"
<1>5. dirs' = [dirs EXCEPT ![Here] = run]
  BY <1>2, <1>3
<1>6. run \in Run /\ run.profile = TRUE /\ run.manifest = "none"
  BY <1>3, <1>4 DEF Run, Captures
<1>7. job' = [job EXCEPT !.pc = "finalize", !.status = status]
  BY <1>2
<1>8. status \in Statuses
  BY DEF Statuses
<1> HIDE DEF run, status, noted
<1>9. /\ job' = [job EXCEPT !.pc = "finalize", !.capturing = job.capturing, !.status = status]
      /\ job.capturing \in BOOLEAN
  BY <1>7 DEF IndInv, TypeOK, Job
<1>10. QED
  BY <1>1, <1>4, <1>5, <1>6, <1>8, <1>9, Working DEF Statuses

LEMMA FinalizeRunInv ==
  ASSUME IndInv, FinalizeRun
  PROVE  IndInv'
<1> DEFINE status == FinalStatus(job.status, dirs[Here].pcap)
           sha == IF status = "success" /\ dirs[Here].pcap # "empty"
                  THEN dirs[Here].pcap ELSE "none"
           run == [dirs[Here] EXCEPT !.manifest = "half", !.sha = sha]
<1>1. /\ job.pc \in Busy /\ job.pc = "finalize"
      /\ UNCHANGED <<dataset, bundle, reports, starts>>
      /\ job' = [job EXCEPT !.pc = "manifest", !.status = status]
  BY DEF FinalizeRun, Busy, Running
<1>2. Here \in Places /\ dirs[Here] \in Run /\ dirs \in [Places -> Run]
  BY <1>1, HereIsRun DEF IndInv, TypeOK, Places
<1>3. dirs[Here].manifest = "none" /\ dirs[Here].profile = TRUE /\ job.status \in Statuses
  BY <1>1 DEF IndInv, RunsInv, Unrecorded, Finishing, Running
<1>4. dirs' = [dirs EXCEPT ![Here] = run]
  BY <1>2 DEF FinalizeRun
<1>5. /\ status \in Statuses
      /\ (status = "success" => sha = dirs[Here].pcap /\ dirs[Here].pcap \in {"short", "whole"})
  BY <1>2, <1>3 DEF FinalStatus, Statuses, Run, Captures
<1>6. sha \in Captures
  BY <1>2 DEF Run, Captures
<1> HIDE DEF status, sha
<1>7. /\ run \in Run /\ run.profile = TRUE /\ run.manifest = "half"
      /\ run.sha = sha /\ run.pcap = dirs[Here].pcap
  BY <1>2, <1>3, <1>6 DEF Run
<1> HIDE DEF run
<1>8. /\ job' = [job EXCEPT !.pc = "manifest", !.capturing = job.capturing, !.status = status]
      /\ job.capturing \in BOOLEAN
  BY <1>1 DEF IndInv, TypeOK, Job
<1>9. QED
  BY <1>1, <1>3, <1>4, <1>5, <1>7, <1>8, Working DEF Statuses, Running

LEMMA AssembleInv ==
  ASSUME IndInv, Assemble
  PROVE  IndInv'
<1>1. job.pc = "assemble" /\ UNCHANGED <<dirs, dataset, bundle, reports, starts>>
  BY DEF Assemble
<1>2. CASE Raise
  BY <1>1, <1>2, RaiseInv
<1>3. CASE ~Raise
  <2>1. /\ job' = [job EXCEPT !.pc = "store"]
        /\ \A r \in job.results :
             r.status = "success" /\ dirs[<<r.profile, r.root>>].pcap = "whole"
    BY <1>3 DEF Assemble, Goto
  <2>2. job' \in Job /\ RunsInv'
    BY <1>1, <2>1, Leaving
  <2>3. AllWhole
    <3> SUFFICES ASSUME NEW p \in Planned
                 PROVE  \E root \in Roots : /\ dirs[<<p, root>>].manifest = "success"
                                            /\ dirs[<<p, root>>].pcap = "whole"
      BY DEF AllWhole
    <3>1. PICK r \in job.results : r.profile = p
      BY <1>1 DEF IndInv, RunsInv, Covered, AtWork
    <3>2. r.root \in Roots
      BY DEF IndInv, TypeOK, Job
    <3>3. dirs[<<r.profile, r.root>>].manifest = r.status
      BY DEF IndInv, RunsInv, ResultsRecorded
    <3>4. QED
      BY <2>1, <3>1, <3>2, <3>3
  <2>4. job'.pc = "store"
    BY <2>1 DEF IndInv, TypeOK, Job
  <2>5. TypeOK' /\ Storing' /\ Reporting' /\ ReportedIsStored'
    BY <1>1, <2>2, <2>3, <2>4
       DEF IndInv, TypeOK, Storing, AllWhole, IsSplit, Reporting, ReportedIsStored
  <2>6. QED
    BY <2>2, <2>5 DEF IndInv
<1>4. QED
  BY <1>2, <1>3

(* A step from one part of the storing and training to the next.           *)
LEMMA Stepping ==
  ASSUME IndInv, UNCHANGED dirs,
         NEW pc \in {"store", "files", "half", "written", "save", "checksums", "report",
                     "metrics"}, Goto(pc)
  PROVE  /\ job' \in Job /\ RunsInv' /\ job'.pc = pc /\ job'.config = job.config
         /\ (AllWhole => AllWhole')
<1>1. job' \in Job /\ RunsInv'
  BY Leaving DEF Goto
<1>2. job'.pc = pc /\ job'.config = job.config
  BY DEF Goto, IndInv, TypeOK, Job
<1>3. QED
  BY <1>1, <1>2 DEF AllWhole

LEMMA StoreDatasetInv ==
  ASSUME IndInv, StoreDataset
  PROVE  IndInv'
<1>1. job.pc = "store" /\ UNCHANGED <<dirs, bundle, reports, starts>>
  BY DEF StoreDataset
<1>2. CASE dataset.state = "none"
  <2>1. dataset' = [dataset EXCEPT !.state = "directory"] /\ Goto("files")
    BY <1>2 DEF StoreDataset
  <2>2. /\ job' \in Job /\ RunsInv' /\ job'.pc = "files" /\ AllWhole'
    BY <1>1, <2>1, Stepping DEF IndInv, Storing
  <2>3. TypeOK'
    BY <1>1, <2>1, <2>2 DEF IndInv, TypeOK
  <2>4. dataset'.state = "directory"
    BY <2>1 DEF IndInv, TypeOK
  <2>5. Storing' /\ Reporting' /\ ReportedIsStored'
    BY <1>1, <1>2, <2>2, <2>4 DEF IndInv, Storing, Reporting, ReportedIsStored
  <2>6. QED
    BY <2>2, <2>3, <2>5 DEF IndInv
<1>3. CASE dataset.state # "none"
  BY <1>1, <1>3, RaiseInv DEF StoreDataset
<1>4. QED
  BY <1>2, <1>3

LEMMA WriteDatasetInv ==
  ASSUME IndInv, WriteDataset
  PROVE  IndInv'
<1>1. UNCHANGED <<dirs, bundle, reports, starts>>
  BY DEF WriteDataset
<1>2. \A e \in Environments : SplitOf(e) \in SUBSET Planned
  BY DEF SplitOf
<1>3. CASE job.pc = "files"
  <2>1. /\ Goto("half")
        /\ dataset' = [dataset EXCEPT !.train = SplitOf("lab_train"),
                                      !.validation = SplitOf("lab_calibration"),
                                      !.test = SplitOf("lab_test")]
    BY <1>3 DEF WriteDataset
  <2>2. /\ job' \in Job /\ RunsInv' /\ job'.pc = "half" /\ AllWhole'
    BY <1>1, <1>3, <2>1, Stepping DEF IndInv, Storing
  <2>3. TypeOK' /\ IsSplit' /\ dataset'.state = dataset.state
    BY <1>1, <1>2, <2>1, <2>2 DEF IndInv, TypeOK, IsSplit, Environments, SplitOf
  <2>4. Storing' /\ Reporting' /\ ReportedIsStored'
    BY <1>1, <1>3, <2>2, <2>3 DEF IndInv, Storing, Reporting, ReportedIsStored
  <2>5. QED
    BY <2>2, <2>3, <2>4 DEF IndInv
<1>4. CASE job.pc = "half"
  <2>1. Goto("written") /\ dataset' = [dataset EXCEPT !.state = "half"]
    BY <1>4 DEF WriteDataset
  <2>2. /\ job' \in Job /\ RunsInv' /\ job'.pc = "written" /\ AllWhole'
    BY <1>1, <1>4, <2>1, Stepping DEF IndInv, Storing
  <2>3. TypeOK' /\ dataset'.state = "half"
    BY <1>1, <2>1, <2>2 DEF IndInv, TypeOK
  <2>4. IsSplit'
    BY <1>4, <2>1 DEF IndInv, TypeOK, Storing, IsSplit, SplitOf
  <2>5. Storing' /\ Reporting' /\ ReportedIsStored'
    BY <1>1, <1>4, <2>2, <2>3, <2>4 DEF IndInv, Storing, Reporting, ReportedIsStored
  <2>6. QED
    BY <2>2, <2>3, <2>5 DEF IndInv
<1>5. CASE job.pc = "written"
  <2>1. Goto("save") /\ dataset' = [dataset EXCEPT !.state = "written"]
    BY <1>5 DEF WriteDataset
  <2>2. /\ job' \in Job /\ RunsInv' /\ job'.pc = "save" /\ AllWhole'
    BY <1>1, <1>5, <2>1, Stepping DEF IndInv, Storing
  <2>3. TypeOK' /\ dataset'.state = "written"
    BY <1>1, <2>1, <2>2 DEF IndInv, TypeOK
  <2>4. IsSplit'
    BY <1>5, <2>1 DEF IndInv, TypeOK, Storing, IsSplit, SplitOf
  <2>5. Storing' /\ Reporting' /\ ReportedIsStored'
    BY <1>1, <1>5, <2>2, <2>3, <2>4 DEF IndInv, Storing, Reporting, ReportedIsStored
  <2>6. QED
    BY <2>2, <2>3, <2>5 DEF IndInv
<1>6. QED
  BY <1>3, <1>4, <1>5 DEF WriteDataset

LEMMA SaveBundleInv ==
  ASSUME IndInv, SaveBundle
  PROVE  IndInv'
<1>1. job.pc = "save" /\ UNCHANGED <<dirs, dataset, reports, starts>>
  BY DEF SaveBundle
<1>2. CASE bundle.state = "none"
  <2>1. Goto("checksums") /\ bundle' = [state |-> "part", config |-> job.config]
    BY <1>2 DEF SaveBundle
  <2>2. /\ job' \in Job /\ RunsInv' /\ job'.pc = "checksums" /\ job'.config = job.config
        /\ (AllWhole => AllWhole')
    BY <1>1, <2>1, Stepping
  <2>3. TypeOK'
    BY <1>1, <2>1, <2>2 DEF IndInv, TypeOK, Job
  <2>4. Storing' /\ Reporting' /\ ReportedIsStored'
    BY <1>1, <1>2, <2>1, <2>2 DEF IndInv, Storing, IsSplit, Reporting, ReportedIsStored
  <2>5. QED
    BY <2>2, <2>3, <2>4 DEF IndInv
<1>3. CASE bundle = [state |-> "written", config |-> job.config]
  <2>1. Goto("report") /\ UNCHANGED bundle
    BY <1>3 DEF SaveBundle
  <2>2. /\ job' \in Job /\ RunsInv' /\ job'.pc = "report" /\ job'.config = job.config
        /\ (AllWhole => AllWhole')
    BY <1>1, <2>1, Stepping
  <2>3. TypeOK'
    BY <1>1, <2>1, <2>2 DEF IndInv, TypeOK
  <2>4. Storing' /\ Reporting' /\ ReportedIsStored'
    BY <1>1, <1>3, <2>1, <2>2 DEF IndInv, Storing, IsSplit, Reporting, ReportedIsStored
  <2>5. QED
    BY <2>2, <2>3, <2>4 DEF IndInv
<1>4. CASE bundle.state # "none" /\ bundle # [state |-> "written", config |-> job.config]
  BY <1>1, <1>4, RaiseInv DEF SaveBundle
<1>5. QED
  BY <1>2, <1>3, <1>4

LEMMA WriteChecksumsInv ==
  ASSUME IndInv, WriteChecksums
  PROVE  IndInv'
<1>1. /\ job.pc = "checksums" /\ UNCHANGED <<dirs, dataset, reports, starts>>
      /\ Goto("report") /\ bundle' = [bundle EXCEPT !.state = "written"]
  BY DEF WriteChecksums
<1>2. /\ job' \in Job /\ RunsInv' /\ job'.pc = "report" /\ job'.config = job.config
      /\ (AllWhole => AllWhole')
  BY <1>1, Stepping
<1>3. bundle = [state |-> "part", config |-> job.config] /\ dataset.state = "written"
  BY <1>1 DEF IndInv, Reporting
<1>4. bundle' = [state |-> "written", config |-> job.config]
  BY <1>1, <1>3
<1>5. \A config \in Configs : reports[config] = "none"
  BY <1>3 DEF IndInv, ReportedIsStored
<1>6. TypeOK'
  BY <1>1, <1>2, <1>4 DEF IndInv, TypeOK, Job
<1>7. Storing' /\ Reporting' /\ ReportedIsStored'
  BY <1>1, <1>2, <1>3, <1>4, <1>5 DEF IndInv, Storing, IsSplit, Reporting, ReportedIsStored
<1>8. QED
  BY <1>2, <1>6, <1>7 DEF IndInv

LEMMA SaveReportInv ==
  ASSUME IndInv, SaveReport
  PROVE  IndInv'
<1>1. job.pc = "report" /\ UNCHANGED <<dirs, dataset, bundle, starts>>
  BY DEF SaveReport
<1>2. CASE reports[job.config] = "none"
  <2>1. Goto("metrics") /\ reports' = [reports EXCEPT ![job.config] = "part"]
    BY <1>2 DEF SaveReport
  <2>2. /\ job' \in Job /\ RunsInv' /\ job'.pc = "metrics" /\ job'.config = job.config
        /\ (AllWhole => AllWhole')
    BY <1>1, <2>1, Stepping
  <2>3. TypeOK'
    BY <1>1, <2>1, <2>2 DEF IndInv, TypeOK
  <2>4. \A config \in Configs : reports'[config] = reports[config] \/ config = job.config
    BY <2>1 DEF IndInv, TypeOK
  <2>5. Storing' /\ Reporting' /\ ReportedIsStored'
    BY <1>1, <2>2, <2>4 DEF IndInv, Storing, IsSplit, Reporting, ReportedIsStored
  <2>6. QED
    BY <2>2, <2>3, <2>5 DEF IndInv
<1>3. CASE reports[job.config] # "none"
  BY <1>1, <1>3, RaiseInv DEF SaveReport
<1>4. QED
  BY <1>2, <1>3

LEMMA WriteMetricsInv ==
  ASSUME IndInv, WriteMetrics
  PROVE  IndInv'
<1>1. /\ job.pc = "metrics" /\ Raise /\ UNCHANGED <<dirs, dataset, bundle, starts>>
      /\ reports' = [reports EXCEPT ![job.config] = "written"]
  BY DEF WriteMetrics
<1>2. job' \in Job /\ RunsInv' /\ job'.pc = "off"
  BY <1>1, Leaving DEF Raise, NoJob
<1>3. TypeOK'
  BY <1>1, <1>2 DEF IndInv, TypeOK
<1>4. \A config \in Configs : reports'[config] = reports[config] \/ config = job.config
  BY <1>1 DEF IndInv, TypeOK
<1>5. Storing' /\ Reporting' /\ ReportedIsStored'
  BY <1>1, <1>2, <1>4 DEF IndInv, Storing, AllWhole, IsSplit, Reporting, ReportedIsStored
<1>6. QED
  BY <1>2, <1>3, <1>5 DEF IndInv

LEMMA StutterInv ==
  ASSUME IndInv, UNCHANGED vars
  PROVE  IndInv'
<1>1. TypeOK' /\ RunsInv'
  BY DEF vars, IndInv, TypeOK, RunsInv, AtWork, Unrecorded, Finishing, HalfRecorded,
         SuccessHasCapture, RecordedHasProfile, RetryAfterFailure, ResultsRecorded, Covered,
         Profile, Here
<1>2. Storing' /\ Reporting' /\ ReportedIsStored'
  BY DEF vars, IndInv, Storing, AllWhole, IsSplit, Reporting, ReportedIsStored
<1>3. QED
  BY <1>1, <1>2 DEF IndInv

LEMMA NextInv == IndInv /\ [Next]_vars => IndInv'
<1> SUFFICES ASSUME IndInv, [Next]_vars PROVE IndInv'
  OBVIOUS
<1>1. ASSUME NEW config \in Configs, StartTraining(config) PROVE IndInv'
  BY <1>1, StartTrainingInv
<1>2. ASSUME NEW p \in Others, StartSingle(p) PROVE IndInv'
  BY <1>2, StartSingleInv
<1>3. CASE FindRun
  BY <1>3, FindRunInv
<1>4. CASE Prepare
  BY <1>4, PrepareInv
<1>5. CASE BringUp
  BY <1>5, BringUpInv
<1>6. CASE RunClient
  BY <1>6, RunClientInv
<1>7. CASE FinalizeRun
  BY <1>7, FinalizeRunInv
<1>8. CASE WriteManifest
  BY <1>8, WriteManifestInv
<1>9. CASE Assemble
  BY <1>9, AssembleInv
<1>10. CASE StoreDataset
  BY <1>10, StoreDatasetInv
<1>11. CASE WriteDataset
  BY <1>11, WriteDatasetInv
<1>12. CASE SaveBundle
  BY <1>12, SaveBundleInv
<1>13. CASE WriteChecksums
  BY <1>13, WriteChecksumsInv
<1>14. CASE SaveReport
  BY <1>14, SaveReportInv
<1>15. CASE WriteMetrics
  BY <1>15, WriteMetricsInv
<1>16. CASE Crash
  BY <1>16, RaiseInv DEF Crash, Raise
<1>17. CASE UNCHANGED vars
  BY <1>17, StutterInv
<1>18. QED
  BY <1>1, <1>2, <1>3, <1>4, <1>5, <1>6, <1>7, <1>8, <1>9, <1>10, <1>11, <1>12, <1>13,
     <1>14, <1>15, <1>16, <1>17 DEF Next

(* The inductive invariant holds whatever is started and wherever it dies. *)
THEOREM Invariance == Spec => []IndInv
<1>1. QED
  BY InitInv, NextInv, PTL DEF Spec

(***************************************************************************)
(* What follows.                                                           *)
(***************************************************************************)

(* Type correctness.                                                       *)
THEOREM TypeCorrect == Spec => []TypeOK
<1>1. IndInv => TypeOK
  BY DEF IndInv
<1>2. QED
  BY <1>1, Invariance, PTL

(* A recorded success has the capture that its manifest has the hash of,   *)
(* and that capture has a byte, if not a packet.                           *)
THEOREM SuccessesHaveCaptures == Spec => []SuccessHasCapture
<1>1. IndInv => SuccessHasCapture
  BY DEF IndInv, RunsInv
<1>2. QED
  BY <1>1, Invariance, PTL

(* The monitor shows of every profile that is done what the script goes on *)
(* with.                                                                   *)
THEOREM MonitorShowsConcluded == Spec => []MonitorAgrees
<1>1. ASSUME IndInv PROVE MonitorAgrees
  <2> SUFFICES ASSUME job.kind = "train", NEW r \in job.results
               PROVE  Shown(r.profile) = r.status
    BY DEF MonitorAgrees
  <2>1. r.profile \in Profiles /\ r.root \in Roots /\ r.status \in Statuses
    BY <1>1 DEF IndInv, TypeOK, Job
  <2>2. /\ dirs[<<r.profile, r.root>>].manifest = r.status
        /\ (r.root = "first" => r.status # "failed")
    BY <1>1 DEF IndInv, RunsInv, ResultsRecorded
  <2>3. dirs[<<r.profile, r.root>>].profile = TRUE
    BY <1>1, <2>1, <2>2 DEF IndInv, RunsInv, RecordedHasProfile, Places, Statuses
  <2>4. r.root = "first" => dirs[<<r.profile, "retry">>].profile # TRUE
    BY <1>1, <2>1, <2>2 DEF IndInv, RunsInv, RetryAfterFailure
  <2>5. RunStatus(dirs[<<r.profile, r.root>>]) = r.status
    BY <2>1, <2>2 DEF RunStatus, Statuses
  <2>6. CASE r.root = "first"
    BY <2>3, <2>4, <2>5, <2>6 DEF Shown
  <2>7. CASE r.root = "retry"
    BY <2>3, <2>5, <2>7 DEF Shown
  <2>8. QED
    BY <2>1, <2>6, <2>7 DEF Roots
<1>2. QED
  BY <1>1, Invariance, PTL

(* A dataset that has its manifest is whole and split.                     *)
THEOREM DatasetsAreWhole == Spec => []DatasetIsWhole
<1>1. ASSUME IndInv PROVE DatasetIsWhole
  <2> SUFFICES ASSUME dataset.state = "written"
               PROVE  DatasetIsWhole
    BY DEF DatasetIsWhole
  <2>1. AllWhole /\ IsSplit
    BY <1>1 DEF IndInv, Storing
  <2>2. \A p \in Planned : Environment[p] \in Environments
    BY EveryProfileHasEnvironment DEF Profiles
  <2>3. /\ dataset.train \cup dataset.validation \cup dataset.test = Planned
        /\ dataset.train \cap (dataset.validation \cup dataset.test) = {}
        /\ dataset.validation \cap dataset.test = {}
    BY <2>1, <2>2 DEF IsSplit, SplitOf, Environments
  <2>4. QED
    BY <2>1, <2>3 DEF DatasetIsWhole, AllWhole
<1>2. QED
  BY <1>1, Invariance, PTL

(* An evaluation is of the bundle that is stored.                          *)
THEOREM ReportsAreOfStored == Spec => []ReportedIsStored
<1>1. IndInv => ReportedIsStored
  BY DEF IndInv
<1>2. QED
  BY <1>1, Invariance, PTL

(* What has a manifest is never touched again.                             *)
THEOREM RecordsStay == Spec => RecordedStays
<1>1. IndInv /\ [Next]_vars =>
        [\A d \in Profiles \X Roots :
           dirs[d].manifest \in Statuses => dirs'[d] = dirs[d]]_vars
  <2> SUFFICES ASSUME IndInv, [Next]_vars,
                      NEW d \in Places, dirs[d].manifest \in Statuses
               PROVE  dirs'[d] = dirs[d]
    BY DEF Places
  <2>1. dirs \in [Places -> Run]
    BY DEF IndInv, TypeOK, Places
  <2>2. CASE Prepare
    <3>1. d # Here
      BY <2>2 DEF Prepare, ExistingRun, Statuses
    <3>2. QED
      BY <2>1, <2>2, <3>1 DEF Prepare
  <2>3. CASE BringUp
    <3>1. d # Here
      BY <2>3 DEF BringUp, IndInv, RunsInv, Unrecorded, Running, Statuses
    <3>2. dirs' = dirs \/ dirs' = [dirs EXCEPT ![Here].pcap = "empty"]
      BY <2>3 DEF BringUp
    <3>3. QED
      BY <2>1, <3>1, <3>2
  <2>4. CASE RunClient
    <3>1. d # Here
      BY <2>4 DEF RunClient, IndInv, RunsInv, Unrecorded, Running, Statuses
    <3>2. QED
      BY <2>1, <2>4, <3>1 DEF RunClient
  <2>5. CASE FinalizeRun
    <3>1. d # Here
      BY <2>5 DEF FinalizeRun, IndInv, RunsInv, Unrecorded, Running, Statuses
    <3>2. QED
      BY <2>1, <2>5, <3>1 DEF FinalizeRun
  <2>6. CASE WriteManifest
    <3>1. d # Here
      BY <2>6 DEF WriteManifest, IndInv, RunsInv, HalfRecorded, Statuses
    <3>2. QED
      BY <2>1, <2>6, <3>1 DEF WriteManifest
  <2>7. CASE dirs' = dirs
    BY <2>7
  <2>8. QED
    BY <2>2, <2>3, <2>4, <2>5, <2>6, <2>7
       DEF Next, StartTraining, StartSingle, FindRun, Assemble, StoreDataset, WriteDataset,
           SaveBundle, WriteChecksums, SaveReport, WriteMetrics, Crash, vars
<1>2. QED
  BY <1>1, Invariance, PTL DEF Spec, RecordedStays
=============================================================================
