------------------------- MODULE AgentMemoryProofs -------------------------
(* Theorems about AgentMemory, for every value of its constants. *)
EXTENDS AgentMemory, TLAPS

Writing == {"flushed", "persisted"}
Advised == {"advised", "inserting"} \cup Writing
Holding == {"flushed", "refused", "persisted"}

(* The focus policy forgets no completed step and leaves the active step   *)
(* only if it is completed.                                                *)
LEMMA FocusAdvances ==
  ASSUME NEW m \in Memory, NEW p \in Memory, NEW signal \in BOOLEAN
  PROVE  /\ Focus(m, p, signal) \in Memory
         /\ Thread!Advances(m, Focus(m, p, signal))
<1>1. /\ m.completed \subseteq Completed(m, p, signal)
      /\ Completed(m, p, signal) \in SUBSET Steps
  BY DEF Completed, Memory
<1>2. CASE StaysOnStep(m, p, signal)
  <2>1. Focus(m, p, signal) =
          [completed |-> Completed(m, p, signal), active |-> m.active]
    BY <1>2 DEF Focus
  <2>2. QED
    BY <1>1, <2>1 DEF Memory, Thread!Advances
<1>3. CASE ~StaysOnStep(m, p, signal)
  <2>1. Focus(m, p, signal) =
          [completed |-> Completed(m, p, signal), active |-> p.active]
    BY <1>3 DEF Focus
  <2>2. m.active \in Completed(m, p, signal) \cup {NoStep}
    BY <1>3 DEF StaysOnStep
  <2>3. QED
    BY <1>1, <2>1, <2>2 DEF Memory, Thread!Advances
<1>4. QED
  BY <1>2, <1>3

LEMMA InitInv == Init => IndInv
<1> SUFFICES ASSUME Init PROVE IndInv
  OBVIOUS
<1>1. TypeOK
  BY MemoryAssumption DEF Init, TypeOK, Blank, Memory, Request
<1>2. QED
  BY <1>1 DEF Init, IndInv, LockInv, BaseInv, ToldInv, ClaimsHold

---------------------------------------------------------------------------
(* A request takes a step that does not touch the row.  What it holds      *)
(* after the step, and what the lock is, keep the invariant.               *)
Quiet(r) ==
  LET p == req[r]
      q == req'[r]
  IN
  /\ row' = row
  /\ req' \in [Requests -> Request]
  /\ \A s \in Requests \ {r} : req'[s] = req[s]
  /\ \/ lock' = lock /\ r \in lock
          /\ q.pc \in Holding \cup {"unpersisted"}
     \/ lock' = lock /\ r \notin lock /\ q.pc \notin Holding
     \/ lock = {} /\ lock' = {r} /\ q.pc \in Holding
     \/ lock' = lock \ {r} /\ q.pc \notin Holding /\ p.pc = "unpersisted"
     \/ lock' = {} /\ q.pc \notin Holding /\ p.pc \in Holding
  /\ q.revision <= row.revision
  /\ q.revision = row.revision =>
       /\ q.pc = "loaded" => q.memory = row.memory
       /\ q.pc \in Advised => Thread!Advances(row.memory, q.memory)
  /\ q.pc \in Writing => q.revision = row.revision
  /\ \/ q.told = 0 /\ p.told = 0 /\ q.pc # "persisted"
     \/ q.told = p.told /\ q.pc = "uncommitted"
     \/ q.told = row.revision + 1 /\ q.pc = "persisted" /\ lock = {r}

LEMMA QuietInv ==
  ASSUME IndInv, NEW r \in Requests, Quiet(r)
  PROVE  IndInv'
<1>t. /\ row \in [revision : Nat, memory : Memory]
      /\ lock \subseteq Requests
      /\ req \in [Requests -> Request]
      /\ LockInv /\ BaseInv /\ ToldInv
  BY DEF IndInv, TypeOK
<1>1. TypeOK'
  BY <1>t DEF Quiet, TypeOK
<1>2. LockInv'
  BY <1>t DEF Quiet, LockInv, Holding
<1>3. BaseInv'
  BY <1>t DEF Quiet, BaseInv, Advised, Writing
<1>4. ToldInv'
  <2>1. ASSUME NEW s \in Requests
        PROVE  /\ req'[s].told # 0 =>
                    req'[s].pc \in {"persisted", "done", "uncommitted", "lost"}
               /\ req'[s].pc = "persisted" => req'[s].told = row'.revision + 1
    BY <1>t, <2>1 DEF Quiet, ToldInv
  <2>2. ClaimsHold'
    <3>1. /\ \A s \in Requests \ {r} : req'[s] = req[s]
          /\ req'[r].pc = "done" => req'[r].told = 0
          /\ row' = row /\ row.revision \in Nat
      BY <1>t DEF Quiet
    <3>2. QED
      BY <1>t, <3>1 DEF ToldInv, ClaimsHold
  <2>3. QED
    BY <2>1, <2>2 DEF ToldInv
<1>5. QED
  BY <1>1, <1>2, <1>3, <1>4 DEF IndInv

QuietStep(r) ==
  \/ Load(r) \/ Decline(r) \/ Advise(r) \/ SelectNone(r) \/ Update(r)
  \/ Refuse(r) \/ Insert(r) \/ InsertConflict(r) \/ Respond(r)
  \/ Release(r) \/ CommitFails(r) \/ QueryFails(r)

LEMMA QuietSteps ==
  ASSUME IndInv, NEW r \in Requests, QuietStep(r)
  PROVE  Quiet(r)
<1>t. /\ row \in [revision : Nat, memory : Memory]
      /\ lock \subseteq Requests
      /\ req \in [Requests -> Request]
      /\ LockInv /\ BaseInv /\ ToldInv
  BY DEF IndInv, TypeOK
<1>r. /\ req[r] \in Request /\ row.revision \in Nat /\ row.memory \in Memory
      /\ req[r].memory \in Memory /\ req[r].revision \in Nat
      /\ req[r].told \in Nat
  BY <1>t DEF Request
<1> USE DEF Quiet, Holding, Writing, Advised
<1>1. CASE Load(r)
  <2>0. req[r].pc = "new" /\ req[r].told = 0 /\ r \notin lock
    BY <1>t, <1>1 DEF Load, ToldInv, LockInv
  <2>1. CASE Valid(row.memory)
    <3>1. req' = [req EXCEPT ![r] =
             [req[r] EXCEPT !.pc = "loaded", !.revision = row.revision,
                            !.memory = row.memory]]
      BY <1>1, <2>1 DEF Load
    <3>2. /\ req'[r].pc = "loaded" /\ req'[r].told = 0
          /\ req'[r].revision = row.revision /\ req'[r].memory = row.memory
          /\ req'[r] \in Request
      BY <1>t, <1>r, <2>0, <3>1 DEF Request
    <3>3. /\ req' \in [Requests -> Request]
          /\ \A s \in Requests \ {r} : req'[s] = req[s]
      BY <1>t, <3>1, <3>2
    <3>4. UNCHANGED <<row, lock>>
      BY <1>1 DEF Load
    <3>5. QED
      BY <1>r, <2>0, <3>2, <3>3, <3>4
  <2>2. CASE ~Valid(row.memory)
    <3>1. req' = [req EXCEPT ![r] = [req[r] EXCEPT !.pc = "unreadable"]]
      BY <1>1, <2>2 DEF Load
    <3>2. QED
      BY <1>t, <1>r, <1>1, <2>0, <3>1 DEF Load, Request, BaseInv
  <2>3. QED
    BY <2>1, <2>2
<1>2. CASE Decline(r)
  BY <1>t, <1>r, <1>2 DEF Decline, Goto, Request, BaseInv, LockInv, ToldInv
<1>3. CASE Advise(r)
  <2>1. PICK p \in Memory, signal \in BOOLEAN :
          req' = [req EXCEPT ![r] =
            [req[r] EXCEPT !.pc = "advised",
                           !.memory = Focus(req[r].memory, p, signal)]]
    BY <1>3 DEF Advise
  <2>2. /\ Focus(req[r].memory, p, signal) \in Memory
        /\ Thread!Advances(req[r].memory, Focus(req[r].memory, p, signal))
    BY <1>r, FocusAdvances
  <2>3. /\ req[r].pc = "loaded" /\ req[r].told = 0 /\ r \notin lock
        /\ UNCHANGED <<row, lock>>
        /\ req[r].revision <= row.revision
        /\ req[r].revision = row.revision => req[r].memory = row.memory
    BY <1>t, <1>3 DEF Advise, ToldInv, LockInv, BaseInv
  <2>4. QED
    BY <1>t, <1>r, <2>1, <2>2, <2>3 DEF Request
<1>4. CASE SelectNone(r)
  BY <1>t, <1>r, <1>4 DEF SelectNone, Goto, Request, BaseInv, LockInv, ToldInv
<1>5. CASE Update(r)
  BY <1>t, <1>r, <1>5 DEF Update, Select, Goto, Request, BaseInv, LockInv, ToldInv
<1>6. CASE Refuse(r)
  BY <1>t, <1>r, <1>6 DEF Refuse, Select, Goto, Request, BaseInv, LockInv, ToldInv
<1>7. CASE Insert(r)
  BY <1>t, <1>r, <1>7 DEF Insert, Goto, Request, BaseInv, LockInv, ToldInv
<1>8. CASE InsertConflict(r)
  BY <1>t, <1>r, <1>8 DEF InsertConflict, Goto, Request, BaseInv, LockInv, ToldInv
<1>9. CASE Respond(r)
  <2>1. CASE req[r].pc = "flushed"
    <3>1. req' = [req EXCEPT ![r] = [req[r] EXCEPT !.pc = "persisted",
                                        !.told = req[r].revision + 1]]
      BY <1>9, <2>1 DEF Respond, Goto
    <3>2. req[r].told = 0 /\ lock = {r} /\ req[r].revision = row.revision
      BY <1>t, <2>1 DEF LockInv, BaseInv, ToldInv
    <3>3. /\ req'[r].pc = "persisted" /\ req'[r].told = row.revision + 1
          /\ req'[r].revision = row.revision
          /\ req'[r].memory = req[r].memory
          /\ req'[r] \in Request
      <4>1. req[r].revision + 1 \in Nat
        BY <1>r
      <4>2. req'[r] = [req[r] EXCEPT !.pc = "persisted",
                                     !.told = req[r].revision + 1]
        BY <1>t, <3>1
      <4>3. req'[r] = [pc |-> "persisted", revision |-> req[r].revision,
                       memory |-> req[r].memory, told |-> req[r].revision + 1]
        BY <1>r, <4>2 DEF Request
      <4>4. QED
        BY <1>r, <3>2, <4>1, <4>3 DEF Request
    <3>4. /\ req' \in [Requests -> Request]
          /\ \A s \in Requests \ {r} : req'[s] = req[s]
      BY <1>t, <3>1, <3>3
    <3>5. UNCHANGED <<row, lock>> /\ Thread!Advances(row.memory, req[r].memory)
      BY <1>t, <1>9, <2>1, <3>2 DEF Respond, BaseInv
    <3>6. QED
      BY <1>r, <3>2, <3>3, <3>4, <3>5
  <2>2. CASE Goto(r, "refused", "unpersisted")
    BY <1>t, <1>r, <1>9, <2>2 DEF Respond, Goto, Request, BaseInv, LockInv, ToldInv
  <2>3. QED
    BY <1>9, <2>1, <2>2 DEF Respond
<1>10. CASE Release(r)
  BY <1>t, <1>r, <1>10 DEF Release, Goto, Request, BaseInv, LockInv, ToldInv
<1>11. CASE CommitFails(r)
  BY <1>t, <1>r, <1>11 DEF CommitFails, Goto, Request, BaseInv, LockInv, ToldInv
<1>12. CASE QueryFails(r)
  BY <1>t, <1>r, <1>12 DEF QueryFails, Goto, Request, BaseInv, LockInv, ToldInv
<1>13. QED
  BY <1>1, <1>2, <1>3, <1>4, <1>5, <1>6, <1>7, <1>8, <1>9, <1>10, <1>11, <1>12
  DEF QuietStep

LEMMA CommitInv ==
  ASSUME IndInv, NEW r \in Requests, Commit(r)
  PROVE  IndInv' /\ Thread!Write
<1>t. /\ row \in [revision : Nat, memory : Memory]
      /\ req \in [Requests -> Request]
      /\ LockInv /\ BaseInv /\ ToldInv
  BY DEF IndInv, TypeOK
<1>r. /\ req[r].pc = "persisted" /\ lock = {r}
      /\ req[r].revision = row.revision /\ row.revision \in Nat
      /\ req[r].memory \in Memory
      /\ Thread!Advances(row.memory, req[r].memory)
      /\ req[r].told = row.revision + 1
  BY <1>t DEF Commit, Goto, LockInv, BaseInv, ToldInv, Request
<1>c. /\ row' = [revision |-> row.revision + 1, memory |-> req[r].memory]
      /\ lock' = {}
      /\ req' = [req EXCEPT ![r].pc = "done"]
  BY <1>r DEF Commit, Goto
<1>s. /\ req'[r].pc = "done" /\ req'[r].told = row.revision + 1
      /\ req'[r].revision = row.revision
      /\ \A s \in Requests \ {r} : req'[s] = req[s]
  BY <1>t, <1>c, <1>r DEF Request
<1>o. \A s \in Requests \ {r} :
        req[s].pc \notin {"flushed", "refused", "persisted"}
  BY <1>t, <1>r DEF LockInv
<1>1. Thread!Write
  BY <1>r, <1>c DEF Thread!Write, Thread!Memory, Memory
<1>2. TypeOK'
  BY <1>t, <1>c, <1>r DEF TypeOK, Request
<1>3. LockInv'
  BY <1>t, <1>c, <1>s, <1>o DEF LockInv
<1>4. BaseInv'
  <2>1. \A s \in Requests : req[s].revision \in Nat
    BY <1>t DEF Request
  <2>2. QED
    BY <1>t, <1>c, <1>r, <1>s, <1>o, <2>1 DEF BaseInv
<1>5. ToldInv'
  <2>1. \A s \in Requests : req[s].told \in Nat
    BY <1>t DEF Request
  <2>2. /\ \A s, u \in Requests :
             (/\ req[s].told # 0 /\ req[s].told = req[u].told
              /\ req[s].pc = "done" /\ req[u].pc = "done") => s = u
        /\ \A s \in Requests :
             req[s].pc = "done" => req[s].told <= row.revision
    BY <1>t DEF ToldInv, ClaimsHold
  <2>3. \A s \in Requests : req'[s].told = req[s].told
    BY <1>r, <1>s
  <2>4. ClaimsHold'
    BY <1>r, <1>c, <1>s, <2>1, <2>2, <2>3 DEF ClaimsHold
  <2>5. QED
    BY <1>t, <1>s, <1>o, <2>4 DEF ToldInv
<1>6. QED
  BY <1>1, <1>2, <1>3, <1>4, <1>5 DEF IndInv

LEMMA CrashInv ==
  ASSUME IndInv, ApiCrash
  PROVE  IndInv'
<1>t. /\ row \in [revision : Nat, memory : Memory] /\ row' = row
      /\ req \in [Requests -> Request]
      /\ LockInv /\ BaseInv /\ ToldInv
      /\ lock' = {} /\ "api_crash" \in Faults
  BY DEF IndInv, TypeOK, ApiCrash
<1>s. \A s \in Requests :
        \/ req'[s] = req[s] /\ req[s].pc \notin InFlight
        \/ req'[s] = [req[s] EXCEPT !.pc = "lost"]
  BY DEF ApiCrash
<1>q. \A s \in Requests :
        /\ req'[s].revision = req[s].revision
        /\ req'[s].memory = req[s].memory
        /\ req'[s].told = req[s].told
        /\ \/ req'[s].pc = "lost"
           \/ req'[s].pc = req[s].pc /\ req[s].pc \notin InFlight
  <2>1. ASSUME NEW s \in Requests, NEW q \in Request,
               q = req[s], req'[s] = [q EXCEPT !.pc = "lost"]
        PROVE  /\ req'[s].revision = q.revision /\ req'[s].memory = q.memory
               /\ req'[s].told = q.told /\ req'[s].pc = "lost"
    BY <2>1 DEF Request
  <2>2. \A s \in Requests : req[s] \in Request
    BY <1>t
  <2>3. QED
    BY <1>s, <2>1, <2>2
<1>1. TypeOK'
  BY <1>t DEF TypeOK, ApiCrash, Request
<1>2. LockInv'
  BY <1>t, <1>q DEF LockInv, InFlight
<1>3. BaseInv'
  BY <1>t, <1>q DEF BaseInv, InFlight
<1>4. ToldInv'
  BY <1>t, <1>q DEF ToldInv, ClaimsHold, InFlight
<1>5. QED
  BY <1>1, <1>2, <1>3, <1>4 DEF IndInv

LEMMA StepInv ==
  IndInv /\ [Next]_vars =>
    IndInv' /\ [Thread!Write]_<<row.revision, row.memory>>
<1> SUFFICES ASSUME IndInv, [Next]_vars
             PROVE  IndInv' /\ [Thread!Write]_<<row.revision, row.memory>>
  OBVIOUS
<1>1. CASE UNCHANGED vars
  BY <1>1 DEF vars, IndInv, TypeOK, LockInv, BaseInv, ToldInv, ClaimsHold
<1>2. CASE ApiCrash
  <2>1. row' = row
    BY <1>2 DEF ApiCrash
  <2>2. QED
    BY <1>2, <2>1, CrashInv
<1>3. ASSUME NEW r \in Requests, RequestStep(r) \/ RequestFails(r)
      PROVE  IndInv' /\ [Thread!Write]_<<row.revision, row.memory>>
  <2>1. CASE Commit(r)
    BY <2>1, CommitInv
  <2>2. CASE QuietStep(r)
    <3>1. Quiet(r)
      BY <2>2, QuietSteps
    <3>2. row' = row
      BY <3>1 DEF Quiet
    <3>3. QED
      BY <3>1, <3>2, QuietInv
  <2>3. QED
    BY <1>3, <2>1, <2>2 DEF RequestStep, RequestFails, QuietStep
<1>4. QED
  BY <1>1, <1>2, <1>3 DEF Next

(* The invariant on which the theorems rest.                               *)
THEOREM MemoryInductive == Spec => []IndInv
<1>1. IndInv /\ [Next]_vars => IndInv'
  BY StepInv
<1>2. QED
  BY InitInv, <1>1, PTL DEF Spec

(* Whatever fails, the committed memory of a thread moves one revision at  *)
(* a time, each built on the one before: no request overwrites progress it *)
(* has not seen (memory.py:36-60, policy.py:44-70).                        *)
THEOREM NoLostUpdate == Spec => ThreadSpec
<1>1. Init => Thread!Init
  BY DEF Init, Thread!Init, Blank, Thread!Blank
<1>2. IndInv /\ [Next]_vars => [Thread!Write]_<<row.revision, row.memory>>
  BY StepInv
<1>3. QED
  BY MemoryInductive, <1>1, <1>2, PTL DEF Spec, ThreadSpec, Thread!Spec

(* A revision that was reported as persisted is there once its commit is   *)
(* done, and was reported by no other request whose commit is done         *)
(* (routes.py:149-181, dependencies.py:150-158).                           *)
THEOREM ClaimsAreTrue == Spec => []ClaimsHold
<1>1. IndInv => (Requests = {} \/ ClaimsHold)
  BY DEF IndInv, ToldInv
<1>2. Requests = {} => ClaimsHold
  BY DEF ClaimsHold
<1>3. QED
  BY MemoryInductive, <1>1, <1>2, PTL
=============================================================================
