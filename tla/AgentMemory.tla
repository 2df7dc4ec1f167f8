---------------------------- MODULE AgentMemory ----------------------------
(***************************************************************************)
(* The memory of one agent thread: requests to POST /agent/insights        *)
(* (api/agent/routes.py) about the same analysis, each of which loads the  *)
(* memory, asks the provider, applies the focus policy                     *)
(* (api/agent/policy.py) and replaces the memory if its revision has not   *)
(* moved (api/agent/memory.py).  Threads do not share rows.                *)
(*                                                                         *)
(* A request is one PostgreSQL transaction at READ COMMITTED, opened by    *)
(* get_db and committed after the response has been sent                   *)
(* (api/dependencies.py).  A step is one of its queries, or the call of    *)
(* the provider.                                                           *)
(***************************************************************************)
EXTENDS Naturals, FiniteSets

CONSTANTS
  Requests,   \* insight requests about this analysis, each made once
  Steps,      \* ids of verification steps
  NoStep,     \* the active step of a memory that has none
  MaxSteps,   \* the bound on completed_steps in AgentMemoryState, 12
  Faults      \* what may go wrong, a subset of FaultKinds

FaultKinds ==
  { "query",      \* a query or the flush raises
    "commit",     \* the commit raises and has no effect
    "api_crash" } \* the API process is killed

ASSUME MemoryAssumption ==
  /\ NoStep \notin Steps
  /\ MaxSteps \in Nat
  /\ Faults \subseteq FaultKinds

VARIABLES
  row,   \* the committed agent_memory row; revision 0 if there is none
  lock,  \* the requests that hold its row lock or its unique key: one or none
  req    \* progress of each request, with the memory and revision it holds

vars == <<row, lock, req>>

Memory == [completed : SUBSET Steps, active : Steps \cup {NoStep}]

Blank == [completed |-> {}, active |-> NoStep]

(* told is the revision that a response reported as persisted, else 0.     *)
Request == [pc : {"new", "loaded", "advised", "inserting", "flushed",
                  "refused", "persisted", "unpersisted", "done",
                  "uncommitted", "unreadable", "aborted", "lost"},
            revision : Nat, memory : Memory, told : Nat]

Init ==
  /\ row = [revision |-> 0, memory |-> Blank]
  /\ lock = {}
  /\ req = [r \in Requests |->
              [pc |-> "new", revision |-> 0, memory |-> Blank, told |-> 0]]

Goto(r, from, to) == req[r].pc = from /\ req' = [req EXCEPT ![r].pc = to]

---------------------------------------------------------------------------
(* apply_focus_policy: signal says that the question reports a completion. *)

(* Mutant of Completed: the proposal replaces what was completed.          *)
CompletedReplaced(previous, proposed, signal) ==
  IF signal THEN proposed.completed ELSE previous.completed

Completed(previous, proposed, signal) ==
  IF signal THEN previous.completed \cup proposed.completed
  ELSE previous.completed

StaysOnStep(previous, proposed, signal) ==
  /\ previous.active # NoStep
  /\ \/ ~signal
     \/ previous.active \notin Completed(previous, proposed, signal)
     \/ proposed.active = NoStep

Focus(previous, proposed, signal) ==
  [completed |-> Completed(previous, proposed, signal),
   active |-> IF StaysOnStep(previous, proposed, signal) THEN previous.active
              ELSE proposed.active]

(* AgentMemoryState.model_validate accepts the memory.                     *)
Valid(m) == Cardinality(m.completed) <= MaxSteps

---------------------------------------------------------------------------
(* load_memory; a row that does not validate raises.                       *)
Load(r) ==
  /\ req[r].pc = "new"
  /\ req' = [req EXCEPT ![r] =
       IF Valid(row.memory)
       THEN [@ EXCEPT !.pc = "loaded", !.revision = row.revision,
                      !.memory = row.memory]
       ELSE [@ EXCEPT !.pc = "unreadable"]]
  /\ UNCHANGED <<row, lock>>

(* The question is out of scope, no provider is configured, or it fails:   *)
(* the response leaves the memory alone.                                   *)
Decline(r) == Goto(r, "loaded", "unpersisted") /\ UNCHANGED <<row, lock>>

(* The provider answers with a memory that validates.                      *)
Advise(r) ==
  /\ req[r].pc = "loaded"
  /\ \E proposed \in Memory, signal \in BOOLEAN :
       /\ Valid(proposed)
       /\ req' = [req EXCEPT ![r] =
            [@ EXCEPT !.pc = "advised",
                      !.memory = Focus(req[r].memory, proposed, signal)]]
  /\ UNCHANGED <<row, lock>>

(* save_memory: SELECT ... FOR UPDATE finds no committed row, or waits for *)
(* the row lock and compares revisions.                                    *)
SelectNone(r) ==
  /\ row.revision = 0
  /\ Goto(r, "advised", "inserting")
  /\ UNCHANGED <<row, lock>>

Select(r, to) ==
  /\ row.revision # 0
  /\ lock = {}
  /\ Goto(r, "advised", to)
  /\ lock' = {r}
  /\ UNCHANGED row

(* Mutant of Update: the revision is not compared.                         *)
UpdateUnchecked(r) == Select(r, "flushed")

Update(r) == row.revision = req[r].revision /\ Select(r, "flushed")

Refuse(r) == row.revision # req[r].revision /\ Select(r, "refused")

(* The flush of a new row waits for another uncommitted insert of it.      *)
Insert(r) ==
  /\ row.revision = 0
  /\ lock = {}
  /\ Goto(r, "inserting", "flushed")
  /\ lock' = {r}
  /\ UNCHANGED row

(* IntegrityError, which the handler does not catch.                       *)
InsertConflict(r) ==
  /\ row.revision # 0
  /\ lock = {}
  /\ Goto(r, "inserting", "aborted")
  /\ UNCHANGED <<row, lock>>

(* The response is sent: memory_persisted, with the next revision, or not. *)
Respond(r) ==
  /\ \/ /\ req[r].pc = "flushed"
        /\ req' = [req EXCEPT ![r] = [@ EXCEPT !.pc = "persisted",
                                               !.told = req[r].revision + 1]]
     \/ Goto(r, "refused", "unpersisted")
  /\ UNCHANGED <<row, lock>>

(* get_db commits.                                                         *)
Commit(r) ==
  /\ Goto(r, "persisted", "done")
  /\ row' = [revision |-> req[r].revision + 1, memory |-> req[r].memory]
  /\ lock' = {}

(* Mutant of Release: the lock of a refused write is kept.                 *)
ReleaseNothing(r) ==
  /\ Goto(r, "unpersisted", "done")
  /\ UNCHANGED <<row, lock>>

Release(r) ==
  /\ Goto(r, "unpersisted", "done")
  /\ lock' = lock \ {r}
  /\ UNCHANGED row

CommitFails(r) ==
  /\ "commit" \in Faults
  /\ Goto(r, "persisted", "uncommitted")
  /\ lock' = {}
  /\ UNCHANGED row

QueryFails(r) ==
  /\ "query" \in Faults
  /\ \/ Goto(r, "new", "unreadable")
     \/ Goto(r, "advised", "aborted")
     \/ Goto(r, "inserting", "aborted")
  /\ UNCHANGED <<row, lock>>

InFlight == {"loaded", "advised", "inserting", "flushed", "refused",
             "persisted", "unpersisted"}

ApiCrash ==
  /\ "api_crash" \in Faults
  /\ \E r \in Requests : req[r].pc \in InFlight
  /\ req' = [r \in Requests |-> IF req[r].pc \in InFlight
                                THEN [req[r] EXCEPT !.pc = "lost"] ELSE req[r]]
  /\ lock' = {}
  /\ UNCHANGED row

RequestStep(r) ==
  \/ Load(r) \/ Decline(r) \/ Advise(r) \/ SelectNone(r) \/ Update(r)
  \/ Refuse(r) \/ Insert(r) \/ InsertConflict(r) \/ Respond(r) \/ Commit(r)
  \/ Release(r)

RequestFails(r) == CommitFails(r) \/ QueryFails(r)

Next == ApiCrash \/ \E r \in Requests : RequestStep(r) \/ RequestFails(r)

Spec == Init /\ [][Next]_vars
FairSpec == Spec /\ \A r \in Requests : WF_vars(RequestStep(r))

---------------------------------------------------------------------------
(* Properties.                                                             *)

(* Every variable has its type.                                            *)
TypeOK ==
  /\ row \in [revision : Nat, memory : Memory]
  /\ lock \subseteq Requests
  /\ req \in [Requests -> Request]

(* The committed memory of a thread moves as MemoryThread says, whatever   *)
(* fails: two overlapping requests never lose each other's progress        *)
(* (memory.py:36-60, policy.py:44-70).                                     *)
Thread == INSTANCE MemoryThread WITH
  revision <- row.revision, memory <- row.memory

ThreadSpec == Thread!Spec

(* The revision that a response claimed is there once its commit is done,  *)
(* and no two requests whose commits are done claimed the same one,        *)
(* whatever became of the others (routes.py:149-181, memory.py:36-60).     *)
ClaimsHold ==
  /\ \A r, s \in Requests :
       (/\ req[r].told # 0 /\ req[r].told = req[s].told
        /\ req[r].pc = "done" /\ req[s].pc = "done") => r = s
  /\ \A r \in Requests :
       req[r].pc = "done" => req[r].told <= row.revision

(* The inductive invariant of AgentMemoryProofs.  First, whoever wrote or  *)
(* refused to write holds the lock, alone.                                 *)
LockInv ==
  \A r \in Requests :
    /\ req[r].pc \in {"flushed", "refused", "persisted"} => lock = {r}
    /\ r \in lock => req[r].pc \in {"flushed", "refused", "persisted",
                                    "unpersisted"}
    /\ r \in lock => lock = {r}

(* Second, a request that loaded the present revision holds the present    *)
(* memory, or one that advances it; one that wrote loaded the present      *)
(* revision.                                                               *)
BaseInv ==
  \A r \in Requests :
    /\ req[r].revision <= row.revision
    /\ req[r].revision = row.revision =>
         /\ req[r].pc = "loaded" => req[r].memory = row.memory
         /\ req[r].pc \in {"advised", "inserting", "flushed", "persisted"} =>
              Thread!Advances(row.memory, req[r].memory)
    /\ req[r].pc \in {"flushed", "persisted"} => req[r].revision = row.revision

(* Third, what a response claimed was the next revision or is an old one.  *)
ToldInv ==
  \A r \in Requests :
    /\ req[r].told # 0 =>
         req[r].pc \in {"persisted", "done", "uncommitted", "lost"}
    /\ req[r].pc = "persisted" => req[r].told = row.revision + 1
    /\ ClaimsHold

IndInv == TypeOK /\ LockInv /\ BaseInv /\ ToldInv

(* Every request is answered or dies with the API: waiting for a lock ends.*)
EveryRequestEnds ==
  \A r \in Requests :
    <>(req[r].pc \in {"done", "uncommitted", "unreadable", "aborted", "lost"})

(* Once the provider has answered, a failing memory write does not cost    *)
(* the answer.                                                             *)
AnswerSurvives == \A r \in Requests : req[r].pc # "aborted"
=============================================================================
