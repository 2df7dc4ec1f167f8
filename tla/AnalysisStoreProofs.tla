------------------------ MODULE AnalysisStoreProofs ------------------------
(* Theorems about AnalysisStore, for every set of requests and of sessions *)
(* and any number of times the worker stores them.                         *)
EXTENDS AnalysisStore, FiniteSetTheorems, TLAPS

(* A request has the fields of Idle.                                       *)
Shaped(x) ==
  x \in [op : {x.op}, pc : {x.pc}, row : {x.row}, target : {x.target}, doomed : {x.doomed},
         synthetic : {x.synthetic}, counts : {x.counts}, skip : {x.skip}, seen : {x.seen},
         since : {x.since}, lost : {x.lost}, first : {x.first}]

(***************************************************************************)
(* The inductive invariant.  A request keeps the one row that it is to     *)
(* store, which has its name; the row is in the table, or was in it, only  *)
(* after its commit.                                                       *)
(***************************************************************************)
RowNamed(r) ==
  /\ \A row \in req[r].row :
       /\ row.id = r
       /\ (req[r].op = "analyze" => ~row.synthetic)
       /\ (req[r].pc = "answered" => row \in rows \/ row.id \in removed)
  /\ \A x, y \in req[r].row : x = y

RequestTyped(r) ==
  /\ req[r].row \subseteq Rows /\ req[r].doomed \subseteq Rows
  /\ req[r].target \in 0..stored
  /\ req[r].pc \in {"new", "commit", "delete", "bulk", "stats", "list",
                    "answered", "done", "error", "failed"}
  /\ (req[r].row # {} => req[r].pc \in {"commit", "answered", "error", "failed"})

Committed(r) == req[r].pc \notin {"new", "commit"}
StoredCommitted ==
  /\ \A row \in rows : Committed(row.id)
  /\ \A id \in removed : Committed(id)

RowOnce == \A x, y \in rows : x.id = y.id => x = y

LinkCommitted == \A s \in Sessions : \A id \in link[s] : Committed(id)

IndInv ==
  /\ TypeOK /\ req = [r \in Requests |-> req[r]]
  /\ \A r \in Requests : Shaped(req[r]) /\ RowNamed(r) /\ RequestTyped(r)
  /\ StoredCommitted /\ RowOnce /\ LinkCommitted /\ LinkNamesStored

LEMMA InitInv == Init => IndInv
<1> SUFFICES ASSUME Init PROVE IndInv
  OBVIOUS
<1>1. \A r \in Requests : req[r] = Idle
  BY DEF Init
<1>2. TypeOK
  BY <1>1, StoresAreCounted DEF Init, TypeOK, Idle
<1>3. req = [r \in Requests |-> req[r]]
  BY DEF Init
<1>4. \A r \in Requests : Shaped(req[r]) /\ RowNamed(r) /\ RequestTyped(r)
  <2>1. Shaped(Idle)
    BY DEF Idle, Shaped
  <2>2. stored = 0
    BY DEF Init
  <2>3. QED
    BY <1>1, <2>1, <2>2 DEF RowNamed, RequestTyped, Idle
<1>5. StoredCommitted /\ RowOnce /\ LinkCommitted /\ LinkNamesStored
  BY DEF Init, StoredCommitted, RowOnce, LinkCommitted, LinkNamesStored
<1>6. QED
  BY <1>2, <1>3, <1>4, <1>5 DEF IndInv

(* A step of a request that changes nothing but itself.                    *)
LEMMA RequestMoves ==
  ASSUME IndInv, NEW r \in Requests, NEW new, Shaped(new), req' = [req EXCEPT ![r] = new],
         UNCHANGED Database, RowNamed(r)', RequestTyped(r)',
         (new.pc \in {"new", "commit"}) => (req[r].pc \in {"new", "commit"}),
         (req[r].pc = "new") \/ (new.row = req[r].row)
  PROVE  IndInv'
<1>1. req'[r] = new /\ \A q \in Requests : q # r => req'[q] = req[q]
  BY DEF IndInv
<1>2. req' = [q \in Requests |-> req'[q]]
  BY DEF IndInv
<1>3. UNCHANGED <<rows, link, stored, checks, removed, changes, losses>>
  BY DEF Database
<1>4. ASSUME NEW q \in Requests PROVE Shaped(req'[q]) /\ RowNamed(q)' /\ RequestTyped(q)'
  <2>1. CASE q = r
    BY <1>1, <2>1
  <2>2. CASE q # r
    BY <1>1, <1>3, <2>2 DEF IndInv, RowNamed, RequestTyped
  <2>3. QED
    BY <2>1, <2>2
<1>5. \A id \in Requests : Committed(id) => Committed(id)'
  BY <1>1 DEF Committed
<1>6. removed \subseteq Requests /\ \A row \in rows : row.id \in Requests
  BY DEF IndInv, TypeOK, Rows
<1>7. \A s \in Sessions : link[s] \subseteq Requests
  BY DEF IndInv, TypeOK
<1>8. StoredCommitted' /\ LinkCommitted'
  BY <1>3, <1>5, <1>6, <1>7 DEF IndInv, StoredCommitted, LinkCommitted
<1>9. LinkNamesStored'
  <2> SUFFICES ASSUME NEW s \in Sessions, NEW id \in link[s]
               PROVE  /\ id \in Ids(rows) \cup removed
                      /\ \A row \in req'[id].row : row.session = s /\ ~row.synthetic
    BY <1>3 DEF LinkNamesStored, Ids
  <2>1. id \in Requests /\ Committed(id)
    BY <1>7 DEF IndInv, LinkCommitted
  <2>2. req'[id].row = req[id].row
    BY <1>1, <2>1 DEF Committed
  <2>3. QED
    BY <2>2 DEF IndInv, LinkNamesStored
<1>10. TypeOK'
  BY <1>3, <1>4 DEF IndInv, TypeOK, RequestTyped, Ids
<1>11. RowOnce'
  BY <1>3 DEF IndInv, RowOnce
<1>12. QED
  BY <1>2, <1>4, <1>8, <1>9, <1>10, <1>11 DEF IndInv

LEMMA NowCounts == Now \in 0..Cardinality(Requests)
<1>1. {q \in Requests : req[q].row # {}} \subseteq Requests
  OBVIOUS
<1>2. QED
  BY <1>1, RequestsAreFinite, FS_Subset, FS_CardinalityType DEF Now

(* A request begins to do something.                                       *)
LEMMA BeginInv ==
  ASSUME IndInv, NEW r \in Requests, req[r].pc = "new", NEW new, Shaped(new),
         req' = [req EXCEPT ![r] = new], UNCHANGED Database,
         new.row \subseteq Rows, new.doomed \subseteq Rows, new.target \in 0..stored,
         new.pc \in {"commit", "delete", "bulk", "stats", "list"},
         (new.row # {}) => (new.pc = "commit"),
         \A x, y \in new.row : x = y,
         \A row \in new.row : row.id = r /\ (new.op = "analyze" => ~row.synthetic)
  PROVE  IndInv'
<1>1. req'[r] = new
  BY DEF IndInv
<1>2. RowNamed(r)'
  BY <1>1 DEF RowNamed
<1>3. RequestTyped(r)'
  BY <1>1 DEF RequestTyped, Database
<1>4. QED
  BY <1>2, <1>3, RequestMoves

LEMMA AnalyzeInv ==
  ASSUME IndInv, NEW r \in Requests, NEW s \in Sessions, NEW flagged \in BOOLEAN,
         Analyze(r, s, flagged) \/ InsertSynthetic(r, s, flagged)
  PROVE  IndInv'
<1>1. req[r].pc = "new" /\ UNCHANGED Database /\ stored \in Nat
  BY StoresAreCounted DEF Analyze, InsertSynthetic, IndInv, TypeOK
<1>2. CASE Analyze(r, s, flagged)
  <2> DEFINE row == [id |-> r, session |-> s, synthetic |-> FALSE, flagged |-> flagged,
                     time |-> Now]
             new == [Idle EXCEPT !.op = "analyze", !.pc = "commit", !.target = stored,
                                 !.row = {row}]
  <2>1. row \in Rows /\ row.id = r /\ ~row.synthetic
    BY NowCounts DEF Rows
  <2>2. req' = [req EXCEPT ![r] = new]
    BY <1>2 DEF Analyze, Begin
  <2> HIDE DEF row
  <2>3. /\ Shaped(new) /\ new.row = {row} /\ new.op = "analyze" /\ new.pc = "commit"
        /\ new.target = stored /\ new.doomed = {}
    BY DEF Idle, Shaped
  <2> HIDE DEF new
  <2>4. stored \in 0..stored
    BY <1>1
  <2>5. QED
    BY <1>1, <2>1, <2>2, <2>3, <2>4, BeginInv
<1>3. CASE InsertSynthetic(r, s, flagged)
  <2> DEFINE row == [id |-> r, session |-> s, synthetic |-> TRUE, flagged |-> flagged,
                     time |-> Now]
             new == [Idle EXCEPT !.op = "synthetic", !.pc = "commit", !.row = {row}]
  <2>1. row \in Rows /\ row.id = r
    BY NowCounts DEF Rows
  <2>2. req' = [req EXCEPT ![r] = new]
    BY <1>3 DEF InsertSynthetic, Begin
  <2> HIDE DEF row
  <2>3. /\ Shaped(new) /\ new.row = {row} /\ new.op = "synthetic" /\ new.pc = "commit"
        /\ new.target = 0 /\ new.doomed = {}
    BY DEF Idle, Shaped
  <2> HIDE DEF new
  <2>4. 0 \in 0..stored
    BY <1>1
  <2>5. QED
    BY <1>1, <2>1, <2>2, <2>3, <2>4, BeginInv
<1>4. QED
  BY <1>2, <1>3

LEMMA DeleteInv ==
  ASSUME IndInv, NEW r \in Requests,
         \/ \E row \in rows : Delete(r, row)
         \/ \E synthetic \in BOOLEAN : BulkDelete(r, synthetic)
         \/ \E op \in {"stats", "list"} : Starts(r, op)
  PROVE  IndInv'
<1>1. req[r].pc = "new" /\ UNCHANGED Database /\ stored \in Nat /\ rows \subseteq Rows
  <2>1. req[r].pc = "new" /\ UNCHANGED Database
    BY DEF Delete, BulkDelete, Starts
  <2>2. stored \in Nat /\ rows \subseteq Rows
    BY StoresAreCounted DEF IndInv, TypeOK
  <2>3. QED
    BY <2>1, <2>2
<1>2. 0 \in 0..stored
  BY <1>1
<1>3. ASSUME NEW row \in rows, Delete(r, row) PROVE IndInv'
  <2> DEFINE new == [Idle EXCEPT !.op = "delete", !.pc = "delete", !.doomed = {row}]
  <2>1. req' = [req EXCEPT ![r] = new]
    BY <1>3 DEF Delete, Begin
  <2>2. /\ Shaped(new) /\ new.row = {} /\ new.pc = "delete"
        /\ new.target = 0 /\ new.doomed = {row}
    BY DEF Idle, Shaped
  <2> HIDE DEF new
  <2>3. new.doomed \subseteq Rows
    BY <1>1, <2>2
  <2>4. QED
    BY <1>1, <1>2, <2>1, <2>2, <2>3, BeginInv
<1>4. ASSUME NEW synthetic \in BOOLEAN, BulkDelete(r, synthetic) PROVE IndInv'
  <2> DEFINE doomed == {row \in rows : synthetic => row.synthetic}
             new == [Idle EXCEPT !.op = "bulk", !.pc = "bulk", !.synthetic = synthetic,
                                 !.doomed = doomed]
  <2>1. req' = [req EXCEPT ![r] = new]
    BY <1>4 DEF BulkDelete, Begin
  <2>2. doomed \subseteq Rows
    BY <1>1
  <2> HIDE DEF doomed
  <2>3. /\ Shaped(new) /\ new.row = {} /\ new.pc = "bulk"
        /\ new.target = 0 /\ new.doomed = doomed
    BY DEF Idle, Shaped
  <2> HIDE DEF new
  <2>4. QED
    BY <1>1, <1>2, <2>1, <2>2, <2>3, BeginInv
<1>5. ASSUME NEW op \in {"stats", "list"}, Starts(r, op) PROVE IndInv'
  <2> DEFINE new == [Idle EXCEPT !.op = op, !.pc = op, !.since = changes, !.lost = losses,
                                 !.first = rows]
  <2>1. req' = [req EXCEPT ![r] = new]
    BY <1>5 DEF Starts, Begin
  <2>2. /\ Shaped(new) /\ new.row = {} /\ new.pc = op /\ new.target = 0 /\ new.doomed = {}
    BY DEF Idle, Shaped
  <2> HIDE DEF new
  <2>3. QED
    BY <1>1, <1>2, <2>1, <2>2, BeginInv
<1>6. QED
  BY <1>3, <1>4, <1>5

(* A step of a request that stores nothing and neither begins nor commits. *)
LEMMA ReadOn ==
  ASSUME IndInv, NEW r \in Requests, NEW new, Shaped(new), UNCHANGED Database,
         NEW pc \in {"stats", "list", "answered", "failed"},
         req' = [req EXCEPT ![r] = new], new.pc = pc,
         new.op = req[r].op, new.row = req[r].row,
         new.doomed = req[r].doomed, new.target = req[r].target,
         (pc # "failed") => (req[r].pc \in {"stats", "list"})
  PROVE  IndInv'
<1>1. Shaped(req[r]) /\ RowNamed(r) /\ RequestTyped(r)
  BY DEF IndInv
<1>2. req'[r] = new
  BY DEF IndInv
<1>3. (pc # "failed") => (req[r].row = {})
  BY <1>1 DEF RequestTyped
<1>4. RowNamed(r)'
  BY <1>1, <1>2, <1>3 DEF RowNamed
<1>5. RequestTyped(r)'
  BY <1>1, <1>2, <1>3 DEF RequestTyped, Database
<1>6. QED
  BY <1>1, <1>4, <1>5, RequestMoves

LEMMA QueryInv ==
  ASSUME IndInv, NEW r \in Requests, Query(r)
  PROVE  IndInv'
<1> DEFINE n == Cardinality(DOMAIN req[r].counts) + 1
           counts == Counts(req[r].counts, Queries[n])
           pc == IF n = 7 THEN "answered" ELSE "stats"
           new == [req[r] EXCEPT !.counts = counts, !.pc = pc]
<1>1. req[r].pc = "stats" /\ req' = [req EXCEPT ![r] = new] /\ UNCHANGED Database
  BY DEF Query
<1>2. pc \in {"stats", "answered"} /\ Shaped(req[r])
  BY DEF IndInv
<1> HIDE DEF counts, pc
<1>3. /\ Shaped(new) /\ new.pc = pc /\ new.op = req[r].op /\ new.row = req[r].row
      /\ new.doomed = req[r].doomed /\ new.target = req[r].target
  BY <1>2 DEF Shaped
<1> HIDE DEF new
<1>4. QED
  BY <1>1, <1>2, <1>3, ReadOn

LEMMA ListInv ==
  ASSUME IndInv, NEW r \in Requests, List(r)
  PROVE  IndInv'
<1> DEFINE seen == req[r].seen \cup Page(req[r].skip)
           skip == req[r].skip + Limit
           pc == IF Cardinality(Page(req[r].skip)) < Limit THEN "answered" ELSE "list"
           new == [req[r] EXCEPT !.seen = seen, !.skip = skip, !.pc = pc]
<1>1. req[r].pc = "list" /\ req' = [req EXCEPT ![r] = new] /\ UNCHANGED Database
  BY DEF List
<1>2. pc \in {"list", "answered"} /\ Shaped(req[r])
  BY DEF IndInv
<1> HIDE DEF seen, skip, pc
<1>3. /\ Shaped(new) /\ new.pc = pc /\ new.op = req[r].op /\ new.row = req[r].row
      /\ new.doomed = req[r].doomed /\ new.target = req[r].target
  BY <1>2 DEF Shaped
<1> HIDE DEF new
<1>4. QED
  BY <1>1, <1>2, <1>3, ReadOn

LEMMA FailInv ==
  ASSUME IndInv, NEW r \in Requests, Fail(r)
  PROVE  IndInv'
<1> DEFINE new == [req[r] EXCEPT !.pc = "failed"]
<1>1. req' = [req EXCEPT ![r] = new] /\ UNCHANGED Database
  BY DEF Fail, Goto
<1>2. Shaped(req[r])
  BY DEF IndInv
<1>3. /\ Shaped(new) /\ new.pc = "failed" /\ new.op = req[r].op /\ new.row = req[r].row
      /\ new.doomed = req[r].doomed /\ new.target = req[r].target
  BY <1>2 DEF Shaped
<1> HIDE DEF new
<1>4. QED
  BY <1>1, <1>3, ReadOn

LEMMA StoreSessionsInv ==
  ASSUME IndInv, StoreSessions
  PROVE  IndInv'
<1>1. /\ stored' = stored + 1 /\ stored \in 0..(MaxStored - 1)
      /\ link' = [s \in Sessions |-> {}]
      /\ UNCHANGED <<rows, checks, removed, changes, losses, req>>
  BY StoresAreCounted DEF StoreSessions, IndInv, TypeOK
<1>2. ASSUME NEW q \in Requests PROVE RowNamed(q)' /\ RequestTyped(q)'
  <2>1. RowNamed(q) /\ RequestTyped(q)
    BY DEF IndInv
  <2>2. req[q].target \in 0..stored'
    BY <1>1, <2>1, StoresAreCounted DEF RequestTyped
  <2>3. QED
    BY <1>1, <2>1, <2>2 DEF RowNamed, RequestTyped
<1>3. TypeOK'
  <2>1. stored' \in 0..MaxStored
    BY <1>1, StoresAreCounted
  <2>2. QED
    BY <1>1, <1>2, <2>1 DEF IndInv, TypeOK, Ids, RequestTyped
<1>4. StoredCommitted' /\ RowOnce' /\ LinkCommitted' /\ LinkNamesStored'
  BY <1>1 DEF IndInv, StoredCommitted, Committed, RowOnce, LinkCommitted, LinkNamesStored
<1>5. QED
  BY <1>1, <1>2, <1>3, <1>4 DEF IndInv

(* The steps that change rows or checks: what is left to show of each.     *)
LEMMA DatabaseChanges ==
  ASSUME IndInv, NEW r \in Requests, NEW new, Shaped(new), req' = [req EXCEPT ![r] = new],
         UNCHANGED stored, new.pc \notin {"new", "commit"}, RequestTyped(r)',
         (req[r].pc = "new") \/ (new.row = req[r].row),
         rows' \subseteq Rows, checks' \subseteq [id : Requests, valid : BOOLEAN],
         removed' \subseteq Requests \ Ids(rows'),
         link' \in [Sessions -> {{}} \cup {{q} : q \in Requests}],
         Ids(rows) \cup removed \subseteq Ids(rows') \cup removed',
         \A row \in rows : row \in rows' \/ row.id \in removed',
         removed \subseteq removed', RowNamed(r)', RowOnce',
         \A id \in Ids(rows') \cup removed' : id = r \/ id \in Ids(rows) \cup removed,
         \A s \in Sessions :
           \/ link'[s] = link[s]
           \/ /\ link'[s] = {r} /\ r \in Ids(rows')
              /\ \A row \in new.row : row.session = s /\ ~row.synthetic
  PROVE  IndInv'
<1>1. req'[r] = new /\ \A q \in Requests : q # r => req'[q] = req[q]
  BY DEF IndInv
<1>2. req' = [q \in Requests |-> req'[q]]
  BY DEF IndInv
<1>3. ASSUME NEW q \in Requests PROVE Shaped(req'[q]) /\ RowNamed(q)' /\ RequestTyped(q)'
  <2>1. CASE q = r
    BY <1>1, <2>1
  <2>2. CASE q # r
    BY <1>1, <2>2 DEF IndInv, RowNamed, RequestTyped
  <2>3. QED
    BY <2>1, <2>2
<1>4. \A id \in Requests : Committed(id) => Committed(id)'
  BY <1>1 DEF Committed
<1>5. Committed(r)'
  BY <1>1 DEF Committed
<1>6. \A id \in Ids(rows) \cup removed : id \in Requests /\ Committed(id)
  BY DEF IndInv, TypeOK, Rows, StoredCommitted, Ids
<1>7. \A id \in Ids(rows') \cup removed' : Committed(id)'
  BY <1>4, <1>5, <1>6
<1>8. StoredCommitted'
  BY <1>7 DEF StoredCommitted, Ids
<1>9. \A s \in Sessions : link[s] \subseteq Requests
  BY DEF IndInv, TypeOK
<1>10. LinkCommitted'
  BY <1>4, <1>5, <1>9 DEF IndInv, LinkCommitted
<1>11. LinkNamesStored'
  <2> SUFFICES ASSUME NEW s \in Sessions, NEW id \in link'[s]
               PROVE  /\ id \in Ids(rows') \cup removed'
                      /\ \A row \in req'[id].row : row.session = s /\ ~row.synthetic
    BY DEF LinkNamesStored, Ids
  <2>1. CASE link'[s] = link[s]
    <3>1. /\ id \in Requests /\ Committed(id) /\ id \in Ids(rows) \cup removed
          /\ \A row \in req[id].row : row.session = s /\ ~row.synthetic
      BY <1>9, <2>1 DEF IndInv, LinkCommitted, LinkNamesStored
    <3>2. req'[id].row = req[id].row
      BY <1>1, <3>1 DEF Committed
    <3>3. QED
      BY <3>1, <3>2
  <2>2. CASE link'[s] # link[s]
    BY <1>1, <2>2
  <2>3. QED
    BY <2>1, <2>2
<1>12. TypeOK'
  <2>1. stored' \in 0..MaxStored
    BY DEF IndInv, TypeOK
  <2>2. removed' \subseteq Requests \ Ids(rows)'
    BY DEF Ids
  <2>3. QED
    BY <1>3, <2>1, <2>2 DEF TypeOK, RequestTyped
<1>13. QED
  BY <1>2, <1>3, <1>8, <1>10, <1>11, <1>12 DEF IndInv

LEMMA ValidateInv ==
  ASSUME IndInv, NEW r \in Requests, NEW valid \in BOOLEAN, Validate(r, valid)
  PROVE  IndInv'
<1> DEFINE new == [Idle EXCEPT !.op = "validate", !.pc = "answered"]
<1>1. /\ req[r].pc = "new" /\ req' = [req EXCEPT ![r] = new]
      /\ checks' = checks \cup {[id |-> r, valid |-> valid]}
      /\ UNCHANGED <<rows, link, stored, removed, losses>>
  BY DEF Validate, Begin
<1>2. /\ Shaped(new) /\ new.row = {} /\ new.pc = "answered" /\ new.target = 0
      /\ new.doomed = {}
  BY DEF Idle, Shaped
<1> HIDE DEF new
<1>3. req'[r] = new
  BY <1>1 DEF IndInv
<1>4. 0 \in 0..stored'
  BY <1>1, StoresAreCounted DEF IndInv, TypeOK
<1>5. RowNamed(r)' /\ RequestTyped(r)'
  BY <1>2, <1>3, <1>4 DEF RowNamed, RequestTyped
<1>6. RowOnce'
  BY <1>1 DEF IndInv, RowOnce
<1>7. /\ rows' \subseteq Rows /\ checks' \subseteq [id : Requests, valid : BOOLEAN]
      /\ removed' \subseteq Requests \ Ids(rows')
      /\ link' \in [Sessions -> {{}} \cup {{q} : q \in Requests}]
  BY <1>1 DEF IndInv, TypeOK
<1>8. QED
  BY <1>1, <1>2, <1>5, <1>6, <1>7, DatabaseChanges

LEMMA CommitAnalysisInv ==
  ASSUME IndInv, NEW r \in Requests, CommitAnalysis(r)
  PROVE  IndInv'
<1>1. /\ req[r].pc = "commit" /\ Shaped(req[r]) /\ RowNamed(r) /\ RequestTyped(r)
  BY DEF CommitAnalysis, IndInv
<1>2. ASSUME NEW pc \in {"answered", "error"}
      PROVE  LET new == [req[r] EXCEPT !.pc = pc]
             IN /\ Shaped(new) /\ new.pc = pc /\ new.op = req[r].op /\ new.row = req[r].row
                /\ new.doomed = req[r].doomed /\ new.target = req[r].target
  BY <1>1 DEF Shaped
<1>3. CASE Goto(r, "error") /\ UNCHANGED Database
  <2> DEFINE new == [req[r] EXCEPT !.pc = "error"]
  <2>1. req' = [req EXCEPT ![r] = new]
    BY <1>3 DEF Goto
  <2>2. /\ Shaped(new) /\ new.pc = "error" /\ new.op = req[r].op /\ new.row = req[r].row
        /\ new.doomed = req[r].doomed /\ new.target = req[r].target
    BY <1>2
  <2> HIDE DEF new
  <2>3. req'[r] = new
    BY <2>1 DEF IndInv
  <2>4. RowNamed(r)' /\ RequestTyped(r)'
    BY <1>1, <1>3, <2>2, <2>3 DEF RowNamed, RequestTyped, Database
  <2>5. QED
    BY <1>3, <2>1, <2>2, <2>4, RequestMoves
<1>4. ASSUME NEW pc \in {"answered", "error"}, Stores(r), Goto(r, pc)
      PROVE  IndInv'
  <2> DEFINE new == [req[r] EXCEPT !.pc = pc]
  <2>1. /\ req' = [req EXCEPT ![r] = new] /\ rows' = rows \cup req[r].row
        /\ UNCHANGED <<stored, checks, removed, losses>>
    BY <1>4 DEF Goto, Stores
  <2>2. /\ Shaped(new) /\ new.pc = pc /\ new.op = req[r].op /\ new.row = req[r].row
        /\ new.doomed = req[r].doomed /\ new.target = req[r].target
    BY <1>2
  <2> HIDE DEF new
  <2>3. req'[r] = new
    BY <2>1 DEF IndInv
  <2>4. RowNamed(r)'
    BY <1>1, <2>1, <2>2, <2>3 DEF RowNamed
  <2>5. RequestTyped(r)'
    BY <1>1, <2>1, <2>2, <2>3 DEF RequestTyped
  <2>6. /\ \A row \in req[r].row : row.id = r /\ row \in Rows
        /\ r \notin removed /\ \A row \in rows : row.id # r
    BY <1>1 DEF RowNamed, RequestTyped, IndInv, StoredCommitted, Committed
  <2>7. RowOnce'
    BY <1>1, <2>1, <2>6 DEF IndInv, RowOnce, RowNamed
  <2>8. /\ rows' \subseteq Rows /\ checks' \subseteq [id : Requests, valid : BOOLEAN]
        /\ removed' \subseteq Requests \ Ids(rows')
    BY <2>1, <2>6 DEF IndInv, TypeOK, Ids
  <2>9. ASSUME NEW s \in Sessions
        PROVE  \/ link'[s] = link[s]
               \/ /\ link'[s] = {r} /\ r \in Ids(rows')
                  /\ \A row \in new.row : row.session = s /\ ~row.synthetic
    <3>1. CASE req[r].op = "analyze" /\ \E row \in req[r].row : row.session = s
      <4>1. link'[s] = {r} \/ link'[s] = link[s]
        BY <1>4 DEF Stores
      <4>2. r \in Ids(rows')
        BY <2>1, <2>6, <3>1 DEF Ids
      <4>3. \A row \in new.row : row.session = s /\ ~row.synthetic
        BY <1>1, <2>2, <3>1 DEF RowNamed
      <4>4. QED
        BY <4>1, <4>2, <4>3
    <3>2. CASE ~(req[r].op = "analyze" /\ \E row \in req[r].row : row.session = s)
      BY <1>4, <3>2 DEF Stores
    <3>3. QED
      BY <3>1, <3>2
  <2>10. link' \in [Sessions -> {{}} \cup {{q} : q \in Requests}]
    BY <1>4 DEF Stores, IndInv, TypeOK
  <2>11. /\ Ids(rows) \cup removed \subseteq Ids(rows') \cup removed'
         /\ \A row \in rows : row \in rows' \/ row.id \in removed'
         /\ removed \subseteq removed'
         /\ \A id \in Ids(rows') \cup removed' : id = r \/ id \in Ids(rows) \cup removed
    BY <2>1, <2>6 DEF Ids
  <2>12. QED
    BY <2>1, <2>2, <2>4, <2>5, <2>7, <2>8, <2>9, <2>10, <2>11, DatabaseChanges
<1>5. QED
  BY <1>3, <1>4 DEF CommitAnalysis

LEMMA CommitDeleteInv ==
  ASSUME IndInv, NEW r \in Requests, CommitDelete(r)
  PROVE  IndInv'
<1> DEFINE gone == rows \cap req[r].doomed
           new == [req[r] EXCEPT !.pc = "done"]
<1>1. /\ req[r].pc \in {"delete", "bulk"} /\ req' = [req EXCEPT ![r] = new]
      /\ rows' = rows \ gone /\ removed' = removed \cup Ids(gone)
      /\ UNCHANGED <<link, stored, checks>>
  BY DEF CommitDelete, Goto
<1>2. Shaped(req[r]) /\ RowNamed(r) /\ RequestTyped(r)
  BY DEF IndInv
<1>3. /\ Shaped(new) /\ new.pc = "done" /\ new.op = req[r].op /\ new.row = req[r].row
      /\ new.doomed = req[r].doomed /\ new.target = req[r].target
  BY <1>2 DEF Shaped
<1> HIDE DEF new
<1>4. req'[r] = new
  BY <1>1 DEF IndInv
<1>5. req[r].row = {}
  BY <1>1, <1>2 DEF RequestTyped
<1>6. RowNamed(r)' /\ RequestTyped(r)'
  BY <1>1, <1>2, <1>3, <1>4, <1>5 DEF RowNamed, RequestTyped
<1>7. gone \subseteq rows
  OBVIOUS
<1> HIDE DEF gone
<1>8. RowOnce'
  BY <1>1 DEF IndInv, RowOnce
<1>9. \A id \in Ids(gone) : id \in Requests /\ id \notin Ids(rows \ gone)
  BY <1>7 DEF IndInv, TypeOK, RowOnce, Ids, Rows
<1>10. /\ rows' \subseteq Rows /\ checks' \subseteq [id : Requests, valid : BOOLEAN]
       /\ removed' \subseteq Requests \ Ids(rows')
       /\ link' \in [Sessions -> {{}} \cup {{q} : q \in Requests}]
  BY <1>1, <1>9 DEF IndInv, TypeOK, Ids
<1>11. /\ Ids(rows) \cup removed \subseteq Ids(rows') \cup removed'
       /\ \A row \in rows : row \in rows' \/ row.id \in removed'
       /\ removed \subseteq removed'
       /\ \A id \in Ids(rows') \cup removed' : id = r \/ id \in Ids(rows) \cup removed
  BY <1>1, <1>7 DEF Ids
<1>12. QED
  BY <1>1, <1>3, <1>6, <1>8, <1>10, <1>11, DatabaseChanges

LEMMA NextInv == IndInv /\ [Next]_vars => IndInv'
<1> SUFFICES ASSUME IndInv, [Next]_vars PROVE IndInv'
  OBVIOUS
<1>1. CASE StoreSessions
  BY <1>1, StoreSessionsInv
<1>2. ASSUME NEW r \in Requests, NEW s \in Sessions, NEW flagged \in BOOLEAN,
             Analyze(r, s, flagged) \/ InsertSynthetic(r, s, flagged)
      PROVE  IndInv'
  BY <1>2, AnalyzeInv
<1>3. ASSUME NEW r \in Requests, NEW valid \in BOOLEAN, Validate(r, valid) PROVE IndInv'
  BY <1>3, ValidateInv
<1>4. ASSUME NEW r \in Requests,
             \/ \E row \in rows : Delete(r, row)
             \/ \E synthetic \in BOOLEAN : BulkDelete(r, synthetic)
             \/ \E op \in {"stats", "list"} : Starts(r, op)
      PROVE  IndInv'
  BY <1>4, DeleteInv
<1>5. ASSUME NEW r \in Requests, CommitAnalysis(r) PROVE IndInv'
  BY <1>5, CommitAnalysisInv
<1>6. ASSUME NEW r \in Requests, CommitDelete(r) PROVE IndInv'
  BY <1>6, CommitDeleteInv
<1>7. ASSUME NEW r \in Requests, Query(r) PROVE IndInv'
  BY <1>7, QueryInv
<1>8. ASSUME NEW r \in Requests, List(r) PROVE IndInv'
  BY <1>8, ListInv
<1>9. ASSUME NEW r \in Requests, Fail(r) PROVE IndInv'
  BY <1>9, FailInv
<1>10. CASE UNCHANGED vars
  <2>1. TypeOK' /\ req' = [r \in Requests |-> req'[r]]
    BY <1>10 DEF vars, IndInv, TypeOK, Ids
  <2>2. \A r \in Requests : Shaped(req'[r]) /\ RowNamed(r)' /\ RequestTyped(r)'
    BY <1>10 DEF vars, IndInv, RowNamed, RequestTyped
  <2>3. StoredCommitted' /\ RowOnce' /\ LinkCommitted' /\ LinkNamesStored'
    BY <1>10 DEF vars, IndInv, StoredCommitted, Committed, RowOnce, LinkCommitted,
                 LinkNamesStored, Ids
  <2>4. QED
    BY <2>1, <2>2, <2>3 DEF IndInv
<1>11. QED
  BY <1>1, <1>2, <1>3, <1>4, <1>5, <1>6, <1>7, <1>8, <1>9, <1>10 DEF Next

(* The inductive invariant holds however requests and worker interleave.   *)
THEOREM Invariance == Spec => []IndInv
<1>1. QED
  BY InitInv, NextInv, PTL DEF Spec

(* Type correctness; an analysis that was deleted is not in the table.     *)
THEOREM TypeCorrect == Spec => []TypeOK
<1>1. IndInv => TypeOK
  BY DEF IndInv
<1>2. QED
  BY <1>1, Invariance, PTL

(* A result that was answered is stored until somebody deletes it.         *)
THEOREM AnsweredIsStored == Spec => []AnsweredStored
<1>1. IndInv => AnsweredStored
  BY DEF IndInv, RowNamed, AnsweredStored
<1>2. QED
  BY <1>1, Invariance, PTL

(* A capture session is linked to a stored analysis of that session.       *)
THEOREM LinksNameStored == Spec => []LinkNamesStored
<1>1. IndInv => LinkNamesStored
  BY DEF IndInv
<1>2. QED
  BY <1>1, Invariance, PTL

(***************************************************************************)
(* What a request reads.  The rows are as many as they have times, a       *)
(* request that reads has an operation to show for it, and what changed    *)
(* since it began is seen in the two counters.                             *)
(***************************************************************************)
TimesApart ==
  /\ \A q \in Requests : \A row \in req[q].row : row.time < Now
  /\ \A p, q \in Requests : \A x \in req[p].row, y \in req[q].row :
       x.time = y.time => p = q

RowsKept == \A row \in rows : row \in req[row.id].row

OpFits(r) ==
  /\ (req[r].pc \in {"stats", "list"} => req[r].op = req[r].pc)
  /\ (req[r].op \in {"stats", "list"} => req[r].pc \in {req[r].op, "answered"})

(* The first n queries have been asked.  Each answer is the one the tables *)
(* give now, if nothing was committed since; no answer asked before the    *)
(* verdicts were counted is above the rows of now, or the verdicts once    *)
(* they are counted, if nothing was deleted since.                         *)
Asked(n) == {Queries[i] : i \in 1..n}
Early == {"total", "synthetic", "flagged"}
Counted(r, n) ==
  LET counts == req[r].counts
  IN /\ DOMAIN counts = Asked(n)
     /\ \A query \in Asked(n) : counts[query] \in Nat
     /\ (changes = req[r].since => \A query \in Asked(n) : counts[query] = Answer(query))
     /\ (losses = req[r].lost =>
           \A query \in Asked(n) \cap Early :
             IF n < 4 THEN counts[query] <= Cardinality(rows)
                      ELSE counts[query] <= counts["verdicts"])
StatsSound(r) ==
  req[r].op = "stats" =>
    \E n \in 0..7 : (n = 7 <=> req[r].pc = "answered") /\ Counted(r, n)

(* While nothing is deleted, a row of the beginning has been seen or is    *)
(* still ahead: it only moves away from the start of the list.             *)
Ahead(r) ==
  \A row \in req[r].first :
    row \in rows /\ (row \in req[r].seen \/ Rank(row) >= req[r].skip)
ListSound(r) ==
  req[r].op = "list" =>
    /\ req[r].skip \in Nat
    /\ (losses = req[r].lost =>
          IF req[r].pc = "answered" THEN req[r].first \subseteq req[r].seen ELSE Ahead(r))

Since(r) == req[r].since \in 0..changes /\ req[r].lost \in 0..losses

ReadInv ==
  /\ IsFiniteSet(rows) /\ IsFiniteSet(checks)
  /\ changes \in Nat /\ losses \in Nat
  /\ TimesApart /\ RowsKept
  /\ \A r \in Requests : Since(r) /\ OpFits(r) /\ StatsSound(r) /\ ListSound(r)

(***************************************************************************)
(* Lemmas about ranks and pages.                                           *)
(***************************************************************************)
Newer(row) == {other \in rows : other.time > row.time}
TimesTell ==
  /\ IsFiniteSet(rows)
  /\ \A row \in rows : row.time \in Nat
  /\ \A x, y \in rows : x.time = y.time => x = y

(* Ranks count from nought to the number of rows, and tell rows apart.     *)
LEMMA Ranks ==
  ASSUME TimesTell
  PROVE  /\ \A row \in rows : Rank(row) \in 0..(Cardinality(rows) - 1)
         /\ \A x, y \in rows : Rank(x) = Rank(y) => x = y
<1>1. \A row \in rows : Newer(row) \subseteq rows /\ row \notin Newer(row)
  BY DEF Newer, TimesTell
<1>2. ASSUME NEW row \in rows
      PROVE  Rank(row) \in Nat /\ Rank(row) < Cardinality(rows) /\ IsFiniteSet(Newer(row))
  <2>1. /\ IsFiniteSet(Newer(row)) /\ Cardinality(Newer(row)) <= Cardinality(rows)
        /\ (Cardinality(rows) = Cardinality(Newer(row)) => rows = Newer(row))
    BY <1>1, FS_Subset DEF TimesTell
  <2>2. Cardinality(Newer(row)) \in Nat /\ Cardinality(rows) \in Nat
    BY <2>1, FS_CardinalityType DEF TimesTell
  <2>3. Rank(row) = Cardinality(Newer(row))
    BY DEF Rank, Newer
  <2>4. QED
    BY <1>1, <2>1, <2>2, <2>3
<1>3. ASSUME NEW x \in rows, NEW y \in rows, x.time > y.time
      PROVE  Rank(x) < Rank(y)
  <2>1. Newer(x) \subseteq Newer(y) /\ x \in Newer(y) /\ x \notin Newer(x)
    BY <1>3 DEF Newer, TimesTell
  <2>2. IsFiniteSet(Newer(y))
    BY <1>2
  <2>3. /\ Cardinality(Newer(x)) <= Cardinality(Newer(y))
        /\ Cardinality(Newer(y)) # Cardinality(Newer(x))
    BY <2>1, <2>2, FS_Subset
  <2>4. Rank(x) = Cardinality(Newer(x)) /\ Rank(y) = Cardinality(Newer(y))
    BY DEF Rank, Newer
  <2>5. QED
    BY <1>2, <2>3, <2>4
<1>4. ASSUME NEW x \in rows, NEW y \in rows, Rank(x) = Rank(y) PROVE x = y
  <2>1. x.time \in Nat /\ y.time \in Nat
    BY DEF TimesTell
  <2>2. x.time = y.time
    BY <1>2, <1>3, <1>4, <2>1
  <2>3. QED
    BY <2>2 DEF TimesTell
<1>5. Cardinality(rows) \in Nat
  BY FS_CardinalityType DEF TimesTell
<1>6. QED
  BY <1>2, <1>4, <1>5

(* A page that is not full is the last: no row is beyond it.               *)
LEMMA FullPage ==
  ASSUME TimesTell, NEW skip \in Nat, NEW row \in rows, Rank(row) >= skip + Limit
  PROVE  Cardinality(Page(skip)) >= Limit
<1> DEFINE rank == [x \in rows |-> Rank(x)]
           n == Cardinality(rows)
<1>1. n \in Nat /\ Limit \in Nat /\ Limit > 0
  BY FS_CardinalityType, LimitIsPositive DEF TimesTell
<1>2. n > skip + Limit
  BY <1>1, Ranks
<1>3. rank \in Injection(rows, 0..(n - 1))
  BY Ranks DEF Injection, IsInjective
<1>4. IsFiniteSet(0..(n - 1)) /\ Cardinality(0..(n - 1)) = n
  <2>1. 0 \in Int /\ n - 1 \in Int /\ ~(0 > n - 1) /\ (n - 1) - 0 + 1 = n
    BY <1>1, <1>2
  <2> HIDE DEF n
  <2>2. QED
    BY <2>1, FS_Interval
<1>5. rank \in Surjection(rows, 0..(n - 1))
  BY <1>3, <1>4, FS_Injection
<1>6. \A i \in 0..(n - 1) : \E x \in rows : Rank(x) = i
  BY <1>5 DEF Surjection
<1> DEFINE places == skip..(skip + Limit - 1)
           place == [x \in Page(skip) |-> Rank(x)]
<1>7. \A x \in Page(skip) : Rank(x) \in places
  BY <1>1, Ranks DEF Page
<1>8. \A i \in places : \E x \in Page(skip) : Rank(x) = i
  BY <1>1, <1>2, <1>6 DEF Page
<1>9. place \in Surjection(Page(skip), places)
  BY <1>7, <1>8 DEF Surjection
<1>10. IsFiniteSet(Page(skip))
  BY FS_Subset DEF Page, TimesTell
<1>11. Cardinality(places) <= Cardinality(Page(skip))
  BY <1>9, <1>10, FS_Surjection
<1>12. Cardinality(places) = Limit
  BY <1>1, FS_Interval
<1>13. Cardinality(Page(skip)) \in Nat
  BY <1>10, FS_CardinalityType
<1>14. QED
  BY <1>1, <1>11, <1>12, <1>13

(* More rows: a row that was there is no nearer to the start of the list.  *)
LEMMA RanksGrow ==
  ASSUME IsFiniteSet(rows'), rows \subseteq rows', NEW row \in rows
  PROVE  Rank(row)' >= Rank(row)
<1> DEFINE after == {other \in rows' : other.time > row.time}
<1>1. Newer(row) \subseteq after /\ after \subseteq rows'
  BY DEF Newer
<1>2. IsFiniteSet(after)
  BY <1>1, FS_Subset
<1>3. Cardinality(Newer(row)) <= Cardinality(after) /\ IsFiniteSet(Newer(row))
  BY <1>1, <1>2, FS_Subset
<1>4. Rank(row)' = Cardinality(after) /\ Rank(row) = Cardinality(Newer(row))
  BY DEF Rank, Newer
<1>5. Cardinality(after) \in Nat /\ Cardinality(Newer(row)) \in Nat
  BY <1>2, <1>3, FS_CardinalityType
<1>6. QED
  BY <1>3, <1>4, <1>5

(***************************************************************************)
(* Lemmas about the queries.                                               *)
(***************************************************************************)
LEMMA QueriesDiffer ==
  /\ \A i, j \in 1..7 : Queries[i] = Queries[j] => i = j
  /\ Asked(7) = {"total", "synthetic", "flagged", "verdicts", "postures", "validations", "passed"}
  /\ \A n \in 0..7 : "verdicts" \in Asked(n) <=> n >= 4
  /\ \A n \in 4..7 : Early \subseteq Asked(n)
<1>1. /\ Queries[1] = "total" /\ Queries[2] = "synthetic" /\ Queries[3] = "flagged"
      /\ Queries[4] = "verdicts" /\ Queries[5] = "postures" /\ Queries[6] = "validations"
      /\ Queries[7] = "passed"
  BY DEF Queries
<1>2. \A i \in 1..7 : i = 1 \/ i = 2 \/ i = 3 \/ i = 4 \/ i = 5 \/ i = 6 \/ i = 7
  OBVIOUS
<1>3. \A i, j \in 1..7 : Queries[i] = Queries[j] => i = j
  BY <1>1, <1>2
<1>4. Asked(7) = {"total", "synthetic", "flagged", "verdicts", "postures", "validations", "passed"}
  <2>1. \A q \in Asked(7) :
          q \in {"total", "synthetic", "flagged", "verdicts", "postures", "validations", "passed"}
    BY <1>1, <1>2 DEF Asked
  <2>2. /\ 1 \in 1..7 /\ 2 \in 1..7 /\ 3 \in 1..7 /\ 4 \in 1..7 /\ 5 \in 1..7 /\ 6 \in 1..7
        /\ 7 \in 1..7
    OBVIOUS
  <2>3. \A q \in {"total", "synthetic", "flagged", "verdicts", "postures", "validations", "passed"} :
          \E i \in 1..7 : q = Queries[i]
    BY <1>1, <2>2
  <2>4. QED
    BY <2>1, <2>3 DEF Asked
<1>5. ASSUME NEW n \in 0..7 PROVE "verdicts" \in Asked(n) <=> n >= 4
  <2>1. ASSUME n >= 4 PROVE "verdicts" \in Asked(n)
    BY <1>1, <2>1 DEF Asked
  <2>2. ASSUME NEW i \in 1..n, Queries[i] = "verdicts" PROVE n >= 4
    <3>1. i \in 1..7 /\ 4 \in 1..7
      OBVIOUS
    <3>2. i = 4
      BY <1>1, <1>3, <2>2, <3>1
    <3>3. QED
      BY <3>2
  <2>3. QED
    BY <2>1, <2>2 DEF Asked
<1>6. \A n \in 4..7 : Early \subseteq Asked(n)
  <2> SUFFICES ASSUME NEW n \in 4..7 PROVE Early \subseteq Asked(n)
    OBVIOUS
  <2>1. 1 \in 1..n /\ 2 \in 1..n /\ 3 \in 1..n
    OBVIOUS
  <2>2. Queries[1] \in Asked(n) /\ Queries[2] \in Asked(n) /\ Queries[3] \in Asked(n)
    BY <2>1 DEF Asked
  <2>3. QED
    BY <1>1, <2>2 DEF Early
<1>7. QED
  BY <1>3, <1>4, <1>5, <1>6

LEMMA AskedCount ==
  ASSUME NEW n \in 0..7
  PROVE  Cardinality(Asked(n)) = n
<1> DEFINE f == [i \in 1..n |-> Queries[i]]
<1>1. \A i, j \in 1..n : Queries[i] = Queries[j] => i = j
  BY QueriesDiffer
<1>2. f \in Bijection(1..n, Asked(n))
  <2>1. f \in [1..n -> Asked(n)] /\ \A query \in Asked(n) : \E i \in 1..n : f[i] = query
    BY DEF Asked
  <2>2. \A i, j \in 1..n : f[i] = f[j] => i = j
    BY <1>1
  <2>3. QED
    BY <2>1, <2>2 DEF Bijection, Injection, Surjection, IsInjective
<1>3. ExistsBijection(1..n, Asked(n))
  BY <1>2 DEF ExistsBijection
<1>4. IsFiniteSet(1..n) /\ Cardinality(1..n) = n
  <2>1. 1 \in Int /\ n \in Int /\ (1 > n => n = 0) /\ n - 1 + 1 = n
    OBVIOUS
  <2>2. QED
    BY <2>1, FS_Interval
<1>5. QED
  BY <1>3, <1>4, FS_Bijection

(* The answers, as the tables are.                                         *)
LEMMA Answers ==
  /\ Answer("total") = Cardinality(rows) /\ Answer("verdicts") = Cardinality(rows)
  /\ Answer("synthetic") = Cardinality({row \in rows : row.synthetic})
  /\ Answer("flagged") = Cardinality({row \in rows : row.flagged})
  /\ Answer("postures") = Cardinality({row \in rows : ~row.synthetic})
  /\ Answer("validations") = Cardinality(checks)
  /\ Answer("passed") = Cardinality({c \in checks : c.valid})
BY DEF Answer

LEMMA AnswersCount ==
  ASSUME IsFiniteSet(rows), IsFiniteSet(checks)
  PROVE  /\ \A query \in Asked(7) : Answer(query) \in Nat
         /\ \A query \in Early : Answer(query) <= Cardinality(rows)
         /\ Answer("passed") <= Answer("validations")
         /\ Answer("synthetic") + Answer("postures") = Answer("total")
<1> DEFINE s == {row \in rows : row.synthetic}
           f == {row \in rows : row.flagged}
           p == {row \in rows : ~row.synthetic}
           v == {c \in checks : c.valid}
<1>1. /\ IsFiniteSet(s) /\ IsFiniteSet(f) /\ IsFiniteSet(p) /\ IsFiniteSet(v)
      /\ Cardinality(s) <= Cardinality(rows) /\ Cardinality(f) <= Cardinality(rows)
      /\ Cardinality(v) <= Cardinality(checks)
  <2>1. s \in SUBSET rows /\ f \in SUBSET rows /\ p \in SUBSET rows /\ v \in SUBSET checks
    OBVIOUS
  <2> HIDE DEF s, f, p, v
  <2>2. QED
    BY <2>1, FS_Subset
<1>2. /\ Cardinality(s) \in Nat /\ Cardinality(f) \in Nat /\ Cardinality(p) \in Nat
      /\ Cardinality(v) \in Nat /\ Cardinality(rows) \in Nat /\ Cardinality(checks) \in Nat
  BY <1>1, FS_CardinalityType
<1>3. Cardinality(s) + Cardinality(p) = Cardinality(rows)
  <2>1. p = rows \ s /\ s = rows \cap s
    OBVIOUS
  <2> HIDE DEF s, f, p, v
  <2>2. Cardinality(p) = Cardinality(rows) - Cardinality(s)
    BY <2>1, FS_Difference
  <2>3. QED
    BY <1>2, <2>2
<1>4. /\ Answer("total") = Cardinality(rows) /\ Answer("verdicts") = Cardinality(rows)
      /\ Answer("synthetic") = Cardinality(s) /\ Answer("flagged") = Cardinality(f)
      /\ Answer("postures") = Cardinality(p) /\ Answer("validations") = Cardinality(checks)
      /\ Answer("passed") = Cardinality(v)
  BY Answers
<1> HIDE DEF s, f, p, v
<1>5. QED
  BY <1>1, <1>2, <1>3, <1>4, QueriesDiffer DEF Early

(***************************************************************************)
(* What is read is kept by every step.                                     *)
(***************************************************************************)
DatabaseMoves ==
  /\ IsFiniteSet(rows') /\ IsFiniteSet(checks')
  /\ \/ UNCHANGED <<rows, checks, changes, losses>>
     \/ changes' = changes + 1 /\ losses' = losses /\ rows \subseteq rows'
     \/ changes' = changes + 1 /\ losses' = losses + 1

LEMMA RowsTell == IndInv /\ TimesApart /\ RowsKept /\ IsFiniteSet(rows) => TimesTell
<1> SUFFICES ASSUME IndInv, TimesApart, RowsKept, IsFiniteSet(rows) PROVE TimesTell
  OBVIOUS
<1>1. \A row \in rows : row.time \in Nat /\ row.id \in Requests
  BY RequestsAreFinite, FS_CardinalityType DEF IndInv, TypeOK, Rows
<1>2. ASSUME NEW x \in rows, NEW y \in rows, x.time = y.time PROVE x = y
  <2>1. x \in req[x.id].row /\ y \in req[y.id].row /\ x.id \in Requests /\ y.id \in Requests
    BY <1>1 DEF RowsKept
  <2>2. x.id = y.id
    BY <1>2, <2>1 DEF TimesApart
  <2>3. QED
    BY <2>1, <2>2 DEF IndInv, RowNamed
<1>3. QED
  BY <1>1, <1>2 DEF TimesTell

(* A request that does not take the step.                                  *)
LEMMA Aside ==
  ASSUME ReadInv, DatabaseMoves, NEW q \in Requests, req'[q] = req[q]
  PROVE  Since(q)' /\ OpFits(q)' /\ StatsSound(q)' /\ ListSound(q)'
<1>1. /\ IsFiniteSet(rows) /\ IsFiniteSet(rows') /\ changes \in Nat /\ losses \in Nat
      /\ Since(q) /\ OpFits(q) /\ StatsSound(q) /\ ListSound(q)
  BY DEF ReadInv, DatabaseMoves
<1>2. Since(q)' /\ OpFits(q)'
  BY <1>1 DEF DatabaseMoves, Since, OpFits
<1>3. /\ (changes' = req[q].since => changes = req[q].since /\ rows' = rows /\ checks' = checks)
      /\ (losses' = req[q].lost => losses = req[q].lost /\ rows \subseteq rows')
  BY <1>1 DEF DatabaseMoves, Since
<1>4. rows \subseteq rows' => Cardinality(rows) <= Cardinality(rows')
  BY <1>1, FS_Subset
<1>5. Cardinality(rows) \in Nat /\ Cardinality(rows') \in Nat
  BY <1>1, FS_CardinalityType
<1>6. StatsSound(q)'
  <2> SUFFICES ASSUME req[q].op = "stats"
               PROVE  \E n \in 0..7 : (n = 7 <=> req[q].pc = "answered") /\ Counted(q, n)'
    BY DEF StatsSound
  <2>1. PICK n \in 0..7 : (n = 7 <=> req[q].pc = "answered") /\ Counted(q, n)
    BY <1>1 DEF StatsSound
  <2> DEFINE counts == req[q].counts
  <2>2. /\ DOMAIN counts = Asked(n) /\ \A query \in Asked(n) : counts[query] \in Nat
        /\ (changes = req[q].since => \A query \in Asked(n) : counts[query] = Answer(query))
        /\ (losses = req[q].lost =>
              \A query \in Asked(n) \cap Early :
                IF n < 4 THEN counts[query] <= Cardinality(rows)
                         ELSE counts[query] <= counts["verdicts"])
    BY <2>1 DEF Counted
  <2>3. ASSUME changes' = req[q].since, NEW query \in Asked(n)
        PROVE  counts[query] = Answer(query)'
    BY <1>3, <2>2, <2>3 DEF Answer
  <2>4. ASSUME losses' = req[q].lost, NEW query \in Asked(n) \cap Early
        PROVE  IF n < 4 THEN counts[query] <= Cardinality(rows')
                        ELSE counts[query] <= counts["verdicts"]
    <3>1. /\ IF n < 4 THEN counts[query] <= Cardinality(rows)
                      ELSE counts[query] <= counts["verdicts"]
          /\ counts[query] \in Nat
      BY <1>3, <2>2, <2>4
    <3>2. QED
      BY <1>3, <1>4, <1>5, <2>4, <3>1
  <2>5. Counted(q, n)'
    BY <2>2, <2>3, <2>4 DEF Counted, Asked, Early, Queries
  <2>6. QED
    BY <2>1, <2>5
<1>7. ListSound(q)'
  <2> SUFFICES ASSUME req[q].op = "list", losses' = req[q].lost
               PROVE  IF req[q].pc = "answered" THEN req[q].first \subseteq req[q].seen
                      ELSE Ahead(q)'
    BY <1>1 DEF ListSound
  <2>1. IF req[q].pc = "answered" THEN req[q].first \subseteq req[q].seen ELSE Ahead(q)
    BY <1>1, <1>3 DEF ListSound
  <2>2. req[q].skip \in Nat
    BY <1>1 DEF ListSound
  <2>3. ASSUME Ahead(q), NEW row \in req[q].first
        PROVE  row \in rows' /\ (row \in req[q].seen \/ Rank(row)' >= req[q].skip)
    <3>1. row \in rows /\ row \in rows' /\ (row \in req[q].seen \/ Rank(row) >= req[q].skip)
      BY <1>3, <2>3 DEF Ahead
    <3>2. Rank(row)' >= Rank(row)
      BY <1>1, <1>3, <3>1, RanksGrow
    <3>3. Rank(row) \in Nat /\ Rank(row)' \in Nat
      <4>1. /\ IsFiniteSet({other \in rows : other.time > row.time})
            /\ IsFiniteSet({other \in rows' : other.time > row.time})
        BY <1>1, FS_Subset
      <4>2. QED
        BY <4>1, FS_CardinalityType DEF Rank
    <3>4. QED
      BY <2>2, <3>1, <3>2, <3>3
  <2>4. Ahead(q) => Ahead(q)'
    BY <2>3 DEF Ahead
  <2>5. QED
    BY <2>1, <2>4
<1>8. QED
  BY <1>2, <1>6, <1>7

LEMMA TimesStay ==
  ASSUME TimesApart, \A q \in Requests : req'[q].row = req[q].row
  PROVE  TimesApart'
<1>1. Now' = Now
  <2>1. {q \in Requests : req'[q].row # {}} = {q \in Requests : req[q].row # {}}
    OBVIOUS
  <2>2. QED
    BY <2>1 DEF Now
<1>2. QED
  BY <1>1 DEF TimesApart

LEMMA StepReads ==
  ASSUME IndInv, ReadInv, NEW r \in Requests, NEW new, req' = [req EXCEPT ![r] = new],
         DatabaseMoves, TimesApart', RowsKept',
         Since(r)', OpFits(r)', StatsSound(r)', ListSound(r)'
  PROVE  ReadInv'
<1>1. ASSUME NEW q \in Requests
      PROVE  Since(q)' /\ OpFits(q)' /\ StatsSound(q)' /\ ListSound(q)'
  <2>1. CASE q = r
    BY <2>1
  <2>2. CASE q # r
    <3>1. req'[q] = req[q]
      BY <2>2 DEF IndInv
    <3>2. QED
      BY <3>1, Aside
  <2>3. QED
    BY <2>1, <2>2
<1>2. changes' \in Nat /\ losses' \in Nat
  BY DEF DatabaseMoves, ReadInv
<1>3. QED
  BY <1>1, <1>2 DEF ReadInv, DatabaseMoves

(* A step of a request that reads neither statistics nor a list.           *)
LEMMA PlainReads ==
  ASSUME IndInv, ReadInv, NEW r \in Requests, NEW new, req' = [req EXCEPT ![r] = new],
         DatabaseMoves, new.row = req[r].row, RowsKept',
         new.op \notin {"stats", "list"}, new.pc \notin {"stats", "list"},
         new.since = req[r].since \/ new.since = 0, new.lost = req[r].lost \/ new.lost = 0
  PROVE  ReadInv'
<1>1. req'[r] = new /\ \A q \in Requests : q # r => req'[q] = req[q]
  BY DEF IndInv
<1>2. TimesApart'
  BY <1>1, TimesStay DEF ReadInv
<1>3. Since(r)'
  <2>1. /\ changes \in Nat /\ losses \in Nat /\ changes' \in Nat /\ losses' \in Nat
        /\ changes <= changes' /\ losses <= losses'
    BY DEF ReadInv, DatabaseMoves
  <2>2. Since(r)
    BY DEF ReadInv
  <2>3. new.since \in 0..changes' /\ new.lost \in 0..losses'
    BY <2>1, <2>2 DEF Since
  <2>4. QED
    BY <1>1, <2>3 DEF Since
<1>4. OpFits(r)' /\ StatsSound(r)' /\ ListSound(r)'
  BY <1>1 DEF OpFits, StatsSound, ListSound
<1>5. QED
  BY <1>2, <1>3, <1>4, StepReads

LEMMA StillRows ==
  ASSUME ReadInv, UNCHANGED Database
  PROVE  DatabaseMoves
BY DEF ReadInv, DatabaseMoves, Database

LEMMA StillKept ==
  ASSUME IndInv, RowsKept, rows' \subseteq rows, \A q \in Requests : req[q].row \subseteq req'[q].row
  PROVE  RowsKept'
BY DEF IndInv, TypeOK, Rows, RowsKept

(* The row of a new analysis is later than all the rows there are.         *)
LEMMA NewestRow ==
  ASSUME IndInv, ReadInv, NEW r \in Requests, req[r].pc = "new", NEW new, NEW row,
         req' = [req EXCEPT ![r] = new], new.row = {row}, row.time = Now
  PROVE  TimesApart'
<1>1. req'[r] = new /\ \A q \in Requests : q # r => req'[q] = req[q]
  BY DEF IndInv
<1>2. req[r].row = {}
  BY DEF IndInv, RequestTyped
<1> DEFINE old == {q \in Requests : req[q].row # {}}
           now == {q \in Requests : req'[q].row # {}}
<1>3. now = old \cup {r} /\ r \notin old
  BY <1>1, <1>2
<1>4. IsFiniteSet(old)
  BY RequestsAreFinite, FS_Subset
<1>5. Now = Cardinality(old) /\ Now' = Cardinality(now)
  BY DEF Now
<1> HIDE DEF old, now
<1>6. Now' = Now + 1 /\ Now \in Nat
  BY <1>3, <1>4, <1>5, FS_AddElement, FS_CardinalityType
<1>7. ASSUME NEW q \in Requests, NEW x \in req[q].row PROVE x.time \in Nat /\ x.time < Now
  <2>1. x.time \in 0..Cardinality(Requests)
    BY DEF IndInv, TypeOK, Rows
  <2>2. Cardinality(Requests) \in Nat
    BY RequestsAreFinite, FS_CardinalityType
  <2>3. QED
    BY <2>1, <2>2 DEF ReadInv, TimesApart
<1>8. ASSUME NEW q \in Requests, NEW x \in req'[q].row PROVE x.time < Now'
  <2>1. CASE q = r
    BY <1>1, <1>6, <2>1
  <2>2. CASE q # r
    BY <1>1, <1>6, <1>7, <2>2
  <2>3. QED
    BY <2>1, <2>2
<1>9. ASSUME NEW p \in Requests, NEW q \in Requests, NEW x \in req'[p].row, NEW y \in req'[q].row,
             x.time = y.time
      PROVE  p = q
  <2>1. CASE p # r /\ q # r
    BY <1>1, <1>9, <2>1 DEF ReadInv, TimesApart
  <2>2. CASE p # r /\ q = r
    BY <1>1, <1>6, <1>7, <1>9, <2>2
  <2>3. CASE p = r /\ q # r
    BY <1>1, <1>6, <1>7, <1>9, <2>3
  <2>4. QED
    BY <2>1, <2>2, <2>3
<1>10. QED
  BY <1>8, <1>9 DEF TimesApart

LEMMA AnalyzeReads ==
  ASSUME IndInv, ReadInv, NEW r \in Requests, NEW s \in Sessions, NEW flagged \in BOOLEAN,
         Analyze(r, s, flagged) \/ InsertSynthetic(r, s, flagged)
  PROVE  ReadInv'
<1>1. req[r].pc = "new" /\ UNCHANGED Database
  BY DEF Analyze, InsertSynthetic
<1>2. ASSUME NEW op \in {"analyze", "synthetic"}, NEW row, NEW new, row.time = Now,
             req' = [req EXCEPT ![r] = new], new.row = {row}, new.op = op, new.pc = "commit",
             new.since = 0, new.lost = 0
      PROVE  ReadInv'
  <2>1. req'[r] = new
    BY <1>2 DEF IndInv
  <2>2. TimesApart'
    BY <1>1, <1>2, NewestRow
  <2>3. RowsKept'
    <3>1. \A q \in Requests : req[q].row \subseteq req'[q].row
      <4>1. req[r].row = {} /\ \A q \in Requests : q # r => req'[q] = req[q]
        BY <1>1, <1>2 DEF IndInv, RequestTyped
      <4>2. QED
        BY <4>1
    <3>2. QED
      BY <1>1, <3>1, StillKept DEF ReadInv, Database
  <2>4. Since(r)'
    BY <1>1, <1>2, <2>1 DEF Since, ReadInv, Database
  <2>5. OpFits(r)' /\ StatsSound(r)' /\ ListSound(r)'
    BY <1>2, <2>1 DEF OpFits, StatsSound, ListSound
  <2>6. QED
    BY <1>1, <1>2, <2>2, <2>3, <2>4, <2>5, StillRows, StepReads
<1>3. CASE Analyze(r, s, flagged)
  <2> DEFINE row == [id |-> r, session |-> s, synthetic |-> FALSE, flagged |-> flagged,
                     time |-> Now]
             new == [Idle EXCEPT !.op = "analyze", !.pc = "commit", !.target = stored,
                                 !.row = {row}]
  <2>1. req' = [req EXCEPT ![r] = new] /\ row.time = Now
    BY <1>3 DEF Analyze, Begin
  <2> HIDE DEF row
  <2>2. /\ new.row = {row} /\ new.op = "analyze" /\ new.pc = "commit"
        /\ new.since = 0 /\ new.lost = 0
    BY DEF Idle
  <2> HIDE DEF new
  <2>3. QED
    BY <1>2, <2>1, <2>2
<1>4. CASE InsertSynthetic(r, s, flagged)
  <2> DEFINE row == [id |-> r, session |-> s, synthetic |-> TRUE, flagged |-> flagged,
                     time |-> Now]
             new == [Idle EXCEPT !.op = "synthetic", !.pc = "commit", !.row = {row}]
  <2>1. req' = [req EXCEPT ![r] = new] /\ row.time = Now
    BY <1>4 DEF InsertSynthetic, Begin
  <2> HIDE DEF row
  <2>2. /\ new.row = {row} /\ new.op = "synthetic" /\ new.pc = "commit"
        /\ new.since = 0 /\ new.lost = 0
    BY DEF Idle
  <2> HIDE DEF new
  <2>3. QED
    BY <1>2, <2>1, <2>2
<1>5. QED
  BY <1>3, <1>4

LEMMA DeleteReads ==
  ASSUME IndInv, ReadInv, NEW r \in Requests,
         \/ \E row \in rows : Delete(r, row)
         \/ \E synthetic \in BOOLEAN : BulkDelete(r, synthetic)
  PROVE  ReadInv'
<1>1. req[r].pc = "new" /\ UNCHANGED Database
  BY DEF Delete, BulkDelete
<1>2. req[r].row = {}
  BY <1>1 DEF IndInv, RequestTyped
<1>3. ASSUME NEW new, req' = [req EXCEPT ![r] = new], new.row = {}, new.since = 0, new.lost = 0,
             new.op \in {"delete", "bulk"}, new.pc \in {"delete", "bulk"}
      PROVE  ReadInv'
  <2>1. \A q \in Requests : req[q].row \subseteq req'[q].row
    BY <1>2, <1>3 DEF IndInv
  <2>2. RowsKept'
    BY <1>1, <2>1, StillKept DEF ReadInv, Database
  <2>3. QED
    BY <1>1, <1>2, <1>3, <2>2, StillRows, PlainReads
<1>4. ASSUME NEW row \in rows, Delete(r, row) PROVE ReadInv'
  <2> DEFINE new == [Idle EXCEPT !.op = "delete", !.pc = "delete", !.doomed = {row}]
  <2>1. req' = [req EXCEPT ![r] = new]
    BY <1>4 DEF Delete, Begin
  <2>2. /\ new.row = {} /\ new.op = "delete" /\ new.pc = "delete"
        /\ new.since = 0 /\ new.lost = 0
    BY DEF Idle
  <2> HIDE DEF new
  <2>3. QED
    BY <1>3, <2>1, <2>2
<1>5. ASSUME NEW synthetic \in BOOLEAN, BulkDelete(r, synthetic) PROVE ReadInv'
  <2> DEFINE doomed == {row \in rows : synthetic => row.synthetic}
             new == [Idle EXCEPT !.op = "bulk", !.pc = "bulk", !.synthetic = synthetic,
                                 !.doomed = doomed]
  <2>1. req' = [req EXCEPT ![r] = new]
    BY <1>5 DEF BulkDelete, Begin
  <2> HIDE DEF doomed
  <2>2. /\ new.row = {} /\ new.op = "bulk" /\ new.pc = "bulk"
        /\ new.since = 0 /\ new.lost = 0
    BY DEF Idle
  <2> HIDE DEF new
  <2>3. QED
    BY <1>3, <2>1, <2>2
<1>6. QED
  BY <1>4, <1>5

LEMMA StartsReads ==
  ASSUME IndInv, ReadInv, NEW r \in Requests, NEW op \in {"stats", "list"}, Starts(r, op)
  PROVE  ReadInv'
<1> DEFINE new == [Idle EXCEPT !.op = op, !.pc = op, !.since = changes, !.lost = losses,
                               !.first = rows]
<1>1. req[r].pc = "new" /\ UNCHANGED Database /\ req' = [req EXCEPT ![r] = new]
  BY DEF Starts, Begin
<1>2. /\ new.row = {} /\ new.op = op /\ new.pc = op /\ new.since = changes /\ new.lost = losses
      /\ new.first = rows /\ new.counts = << >> /\ new.skip = 0 /\ new.seen = {}
  BY DEF Idle
<1> HIDE DEF new
<1>3. req'[r] = new /\ \A q \in Requests : q # r => req'[q] = req[q]
  BY <1>1 DEF IndInv
<1>4. req[r].row = {}
  BY <1>1 DEF IndInv, RequestTyped
<1>5. \A q \in Requests : req'[q].row = req[q].row
  BY <1>2, <1>3, <1>4
<1>6. TimesApart' /\ RowsKept'
  BY <1>1, <1>5, TimesStay, StillKept DEF ReadInv, Database
<1>7. Since(r)' /\ OpFits(r)'
  BY <1>1, <1>2, <1>3 DEF Since, OpFits, ReadInv, Database
<1>8. StatsSound(r)'
  <2> SUFFICES ASSUME op = "stats"
               PROVE  (0 = 7 <=> req'[r].pc = "answered") /\ Counted(r, 0)'
    BY <1>2, <1>3 DEF StatsSound
  <2>1. Asked(0) = {} /\ DOMAIN << >> = {}
    BY DEF Asked
  <2>2. QED
    BY <1>2, <1>3, <2>1 DEF Counted, Asked
<1>9. ListSound(r)'
  <2> SUFFICES ASSUME op = "list"
               PROVE  0 \in Nat /\ \A row \in rows : row \in rows' /\ Rank(row)' >= 0
    BY <1>2, <1>3 DEF ListSound, Ahead
  <2>1. rows' = rows /\ IsFiniteSet(rows)
    BY <1>1 DEF Database, ReadInv
  <2>2. \A row \in rows : Rank(row)' \in Nat
    BY <2>1, FS_Subset, FS_CardinalityType DEF Rank
  <2>3. QED
    BY <2>1, <2>2
<1>10. QED
  BY <1>1, <1>6, <1>7, <1>8, <1>9, StillRows, StepReads

LEMMA AskedNext ==
  ASSUME NEW m \in 0..6
  PROVE  /\ Asked(m + 1) = Asked(m) \cup {Queries[m + 1]} /\ Queries[m + 1] \notin Asked(m)
         /\ Asked(m + 1) \subseteq Asked(7)
         /\ (Queries[m + 1] = "verdicts" <=> m = 3)
         /\ (m >= 4 => Queries[m + 1] \notin Early)
<1>1. m + 1 \in 1..7 /\ 4 \in 1..7
  OBVIOUS
<1>2. Queries[m + 1] \notin Asked(m)
  <2> SUFFICES ASSUME NEW i \in 1..m, Queries[i] = Queries[m + 1] PROVE FALSE
    BY DEF Asked
  <2>1. i \in 1..7 /\ i # m + 1
    OBVIOUS
  <2>2. QED
    BY <1>1, <2>1, QueriesDiffer
<1>3. Asked(m + 1) = Asked(m) \cup {Queries[m + 1]}
  <2>1. \A i : i \in 1..(m + 1) <=> i \in 1..m \/ i = m + 1
    OBVIOUS
  <2>2. QED
    BY <2>1 DEF Asked
<1>4. Asked(m + 1) \subseteq Asked(7)
  BY DEF Asked
<1>5. Queries[4] = "verdicts"
  BY DEF Queries
<1>6. Queries[m + 1] = "verdicts" <=> m = 3
  BY <1>1, <1>5, QueriesDiffer
<1>7. m >= 4 => Queries[m + 1] \notin Early
  <2> SUFFICES ASSUME m >= 4 PROVE Queries[m + 1] \notin Early
    OBVIOUS
  <2>1. m \in 4..7
    OBVIOUS
  <2>2. Early \subseteq Asked(m)
    BY <2>1, QueriesDiffer
  <2>3. QED
    BY <1>2, <2>2
<1>8. QED
  BY <1>2, <1>3, <1>4, <1>6, <1>7

LEMMA QueryReads ==
  ASSUME IndInv, ReadInv, NEW r \in Requests, Query(r)
  PROVE  ReadInv'
<1> DEFINE old == req[r].counts
           n == Cardinality(DOMAIN old) + 1
           query == Queries[n]
           counts == Counts(old, query)
           pc == IF n = 7 THEN "answered" ELSE "stats"
           new == [req[r] EXCEPT !.counts = counts, !.pc = pc]
<1>1. req[r].pc = "stats" /\ req' = [req EXCEPT ![r] = new] /\ UNCHANGED Database
  BY DEF Query
<1>2. Shaped(req[r]) /\ OpFits(r) /\ StatsSound(r) /\ Since(r)
  BY DEF IndInv, ReadInv
<1>3. req[r].op = "stats"
  BY <1>1, <1>2 DEF OpFits
<1>4. PICK m \in 0..6 : Counted(r, m)
  <2>1. PICK m \in 0..7 : (m = 7 <=> req[r].pc = "answered") /\ Counted(r, m)
    BY <1>2, <1>3 DEF StatsSound
  <2>2. m \in 0..6
    BY <1>1, <2>1
  <2>3. QED
    BY <2>1, <2>2
<1>5. DOMAIN old = Asked(m) /\ n = m + 1
  <2>1. DOMAIN old = Asked(m)
    BY <1>4 DEF Counted
  <2>2. QED
    BY <2>1, AskedCount
<1>6. /\ DOMAIN counts = Asked(m) \cup {query} /\ query \notin Asked(m)
      /\ \A q \in Asked(m) : counts[q] = old[q]
      /\ counts[query] = Answer(query)
  <2>1. query \notin Asked(m)
    BY <1>5, AskedNext
  <2>2. QED
    BY <1>5, <2>1 DEF Counts
<1> HIDE DEF counts
<1>7. pc = IF m + 1 = 7 THEN "answered" ELSE "stats"
  BY <1>5
<1>8. query = Queries[m + 1]
  BY <1>5
<1> HIDE DEF pc, n, query
<1>9. /\ new.op = "stats" /\ new.pc = pc /\ new.row = req[r].row /\ new.counts = counts
      /\ new.since = req[r].since /\ new.lost = req[r].lost
  BY <1>2, <1>3 DEF Shaped
<1> HIDE DEF new
<1>10. req'[r] = new /\ \A q \in Requests : q # r => req'[q] = req[q]
  BY <1>1 DEF IndInv
<1>11. \A q \in Requests : req'[q].row = req[q].row
  BY <1>9, <1>10
<1>12. TimesApart' /\ RowsKept'
  BY <1>1, <1>11, TimesStay, StillKept DEF ReadInv, Database
<1>13. Since(r)' /\ OpFits(r)' /\ ListSound(r)'
  BY <1>1, <1>2, <1>7, <1>9, <1>10 DEF Since, OpFits, ListSound, Database
<1>14. /\ IsFiniteSet(rows) /\ IsFiniteSet(checks) /\ Cardinality(rows) \in Nat
       /\ rows' = rows /\ checks' = checks /\ changes' = changes /\ losses' = losses
  BY <1>1, FS_CardinalityType DEF ReadInv, Database
<1>15. /\ DOMAIN counts = Asked(m + 1)
       /\ \A q \in Asked(m + 1) : counts[q] \in Nat
       /\ (changes = req[r].since => \A q \in Asked(m + 1) : counts[q] = Answer(q))
  <2>1. DOMAIN counts = Asked(m + 1) /\ Asked(m + 1) = Asked(m) \cup {query}
    BY <1>6, <1>8, AskedNext
  <2>2. Answer(query) \in Nat
    BY <1>8, <1>14, <2>1, AnswersCount, AskedNext
  <2>3. \A q \in Asked(m) : old[q] \in Nat
    BY <1>4 DEF Counted
  <2>4. changes = req[r].since => \A q \in Asked(m) : old[q] = Answer(q)
    BY <1>4 DEF Counted
  <2>5. QED
    BY <1>6, <2>1, <2>2, <2>3, <2>4
<1>16. ASSUME losses = req[r].lost, NEW q \in Asked(m + 1) \cap Early
       PROVE  IF m + 1 < 4 THEN counts[q] <= Cardinality(rows)
                           ELSE counts[q] <= counts["verdicts"]
  <2>1. \A x \in Asked(m) \cap Early :
          IF m < 4 THEN old[x] <= Cardinality(rows) ELSE old[x] <= old["verdicts"]
    BY <1>4, <1>16 DEF Counted
  <2>2. q \in Asked(m) \/ q = query
    BY <1>8, AskedNext
  <2>3. CASE m < 3
    <3>1. q = query => counts[q] <= Cardinality(rows)
      BY <1>6, <1>14, AnswersCount
    <3>2. q \in Asked(m) => counts[q] <= Cardinality(rows)
      BY <1>6, <2>1, <2>3
    <3>3. QED
      BY <2>2, <2>3, <3>1, <3>2
  <2>4. CASE m = 3
    <3>1. query = "verdicts" /\ "verdicts" \notin Early
      BY <1>8, <2>4, AskedNext DEF Early
    <3>2. counts["verdicts"] = Cardinality(rows)
      BY <1>6, <3>1, Answers
    <3>3. q \in Asked(m) /\ counts[q] = old[q]
      BY <1>6, <2>2, <3>1
    <3>4. QED
      BY <2>1, <2>4, <3>2, <3>3
  <2>5. CASE m > 3
    <3>1. q \in Asked(m) /\ "verdicts" \in Asked(m)
      BY <1>8, <2>2, <2>5, AskedNext, QueriesDiffer
    <3>2. counts[q] = old[q] /\ counts["verdicts"] = old["verdicts"]
      BY <1>6, <3>1
    <3>3. QED
      BY <2>1, <2>5, <3>1, <3>2
  <2>6. QED
    BY <2>3, <2>4, <2>5
<1>17. Counted(r, m + 1)'
  <2>1. \A x \in Asked(m + 1) : Answer(x)' = Answer(x)
    BY <1>14 DEF Answer
  <2>2. QED
    BY <1>9, <1>10, <1>14, <1>15, <1>16, <2>1 DEF Counted, Asked, Early, Queries
<1>18. StatsSound(r)'
  <2>1. m + 1 \in 0..7 /\ (m + 1 = 7 <=> req'[r].pc = "answered")
    BY <1>7, <1>9, <1>10
  <2>2. QED
    BY <1>17, <2>1 DEF StatsSound
<1>19. QED
  BY <1>1, <1>12, <1>13, <1>18, StillRows, StepReads

LEMMA ListReads ==
  ASSUME IndInv, ReadInv, NEW r \in Requests, List(r)
  PROVE  ReadInv'
<1> DEFINE seen == req[r].seen \cup Page(req[r].skip)
           skip == req[r].skip + Limit
           pc == IF Cardinality(Page(req[r].skip)) < Limit THEN "answered" ELSE "list"
           new == [req[r] EXCEPT !.seen = seen, !.skip = skip, !.pc = pc]
<1>1. req[r].pc = "list" /\ req' = [req EXCEPT ![r] = new] /\ UNCHANGED Database
  BY DEF List
<1>2. Shaped(req[r]) /\ OpFits(r) /\ ListSound(r) /\ Since(r)
  BY DEF IndInv, ReadInv
<1>3. req[r].op = "list" /\ req[r].skip \in Nat
  BY <1>1, <1>2 DEF OpFits, ListSound
<1>4. TimesTell
  BY RowsTell DEF ReadInv
<1>5. /\ rows' = rows /\ losses' = losses
      /\ \A row \in rows : Rank(row) \in Nat /\ Rank(row)' = Rank(row)
  <2>1. rows' = rows /\ losses' = losses
    BY <1>1 DEF Database
  <2>2. \A row \in rows : Rank(row) \in Nat
    BY <1>4, Ranks
  <2>3. QED
    BY <2>1, <2>2 DEF Rank
<1>6. ASSUME losses = req[r].lost
      PROVE  \A row \in req[r].first : row \in rows /\ (row \in seen \/ Rank(row) >= skip)
  <2>1. \A row \in req[r].first :
          row \in rows /\ (row \in req[r].seen \/ Rank(row) >= req[r].skip)
    BY <1>1, <1>2, <1>3, <1>6 DEF ListSound, Ahead
  <2>2. Limit \in Nat
    BY LimitIsPositive
  <2>3. QED
    BY <1>3, <1>5, <2>1, <2>2 DEF Page
<1>7. ASSUME losses = req[r].lost, pc = "answered" PROVE req[r].first \subseteq seen
  <2> SUFFICES ASSUME NEW row \in req[r].first, row \notin seen PROVE FALSE
    OBVIOUS
  <2>1. row \in rows /\ Rank(row) >= req[r].skip + Limit
    BY <1>6, <1>7
  <2>2. Cardinality(Page(req[r].skip)) >= Limit
    BY <1>3, <1>4, <2>1, FullPage
  <2>3. Cardinality(Page(req[r].skip)) \in Nat /\ Limit \in Nat
    <3>1. IsFiniteSet(Page(req[r].skip))
      BY <1>4, FS_Subset DEF Page, TimesTell
    <3>2. QED
      BY <3>1, FS_CardinalityType, LimitIsPositive
  <2>4. QED
    BY <1>7, <2>2, <2>3
<1>8. pc \in {"list", "answered"} /\ skip \in Nat
  BY <1>3, LimitIsPositive
<1> HIDE DEF seen, skip, pc
<1>9. /\ new.op = "list" /\ new.pc = pc /\ new.row = req[r].row /\ new.seen = seen
      /\ new.skip = skip /\ new.first = req[r].first
      /\ new.since = req[r].since /\ new.lost = req[r].lost
  BY <1>2, <1>3 DEF Shaped
<1> HIDE DEF new
<1>10. req'[r] = new /\ \A q \in Requests : q # r => req'[q] = req[q]
  BY <1>1 DEF IndInv
<1>11. \A q \in Requests : req'[q].row = req[q].row
  BY <1>9, <1>10
<1>12. TimesApart' /\ RowsKept'
  BY <1>1, <1>11, TimesStay, StillKept DEF ReadInv, Database
<1>13. Since(r)' /\ OpFits(r)' /\ StatsSound(r)'
  BY <1>1, <1>2, <1>8, <1>9, <1>10 DEF Since, OpFits, StatsSound, Database
<1>14. ListSound(r)'
  <2> SUFFICES ASSUME losses = req[r].lost
               PROVE  IF pc = "answered" THEN req[r].first \subseteq seen
                      ELSE \A row \in req[r].first :
                             row \in rows' /\ (row \in seen \/ Rank(row)' >= skip)
    BY <1>5, <1>8, <1>9, <1>10 DEF ListSound, Ahead
  <2>1. QED
    BY <1>5, <1>6, <1>7
<1>15. QED
  BY <1>1, <1>12, <1>13, <1>14, StillRows, StepReads

LEMMA ValidateReads ==
  ASSUME IndInv, ReadInv, NEW r \in Requests, NEW valid \in BOOLEAN, Validate(r, valid)
  PROVE  ReadInv'
<1> DEFINE new == [Idle EXCEPT !.op = "validate", !.pc = "answered"]
<1>1. /\ req[r].pc = "new" /\ req' = [req EXCEPT ![r] = new]
      /\ checks' = checks \cup {[id |-> r, valid |-> valid]} /\ changes' = changes + 1
      /\ UNCHANGED <<rows, link, stored, removed, losses>>
  BY DEF Validate, Begin
<1>2. /\ new.row = {} /\ new.op = "validate" /\ new.pc = "answered"
      /\ new.since = 0 /\ new.lost = 0
  BY DEF Idle
<1> HIDE DEF new
<1>3. req[r].row = {}
  BY <1>1 DEF IndInv, RequestTyped
<1>4. \A q \in Requests : req[q].row \subseteq req'[q].row
  BY <1>1, <1>3 DEF IndInv
<1>5. RowsKept'
  BY <1>1, <1>4, StillKept DEF ReadInv
<1>6. DatabaseMoves
  BY <1>1, FS_AddElement DEF ReadInv, DatabaseMoves
<1>7. QED
  BY <1>1, <1>2, <1>3, <1>5, <1>6, PlainReads

LEMMA CommitAnalysisReads ==
  ASSUME IndInv, ReadInv, NEW r \in Requests, CommitAnalysis(r)
  PROVE  ReadInv'
<1>1. req[r].pc = "commit" /\ Shaped(req[r]) /\ OpFits(r)
  BY DEF CommitAnalysis, IndInv, ReadInv
<1>2. req[r].op \notin {"stats", "list"}
  BY <1>1 DEF OpFits
<1>3. ASSUME NEW pc \in {"answered", "error"}, Goto(r, pc), DatabaseMoves,
             rows' = rows \/ rows' = rows \cup req[r].row
      PROVE  ReadInv'
  <2> DEFINE new == [req[r] EXCEPT !.pc = pc]
  <2>1. req' = [req EXCEPT ![r] = new]
    BY <1>3 DEF Goto
  <2>2. /\ new.row = req[r].row /\ new.op = req[r].op /\ new.pc = pc
        /\ new.since = req[r].since /\ new.lost = req[r].lost
    BY <1>1 DEF Shaped
  <2> HIDE DEF new
  <2>3. \A q \in Requests : req'[q].row = req[q].row
    BY <2>1, <2>2 DEF IndInv
  <2>4. \A row \in req[r].row : row.id = r
    BY DEF IndInv, RowNamed
  <2>5. \A row \in rows : row.id \in Requests /\ row \in req[row.id].row
    BY DEF IndInv, TypeOK, Rows, ReadInv, RowsKept
  <2>6. RowsKept'
    BY <1>3, <2>3, <2>4, <2>5 DEF RowsKept
  <2>7. QED
    BY <1>2, <1>3, <2>1, <2>2, <2>6, PlainReads
<1>4. CASE Stores(r) /\ \E pc \in {"answered", "error"} : Goto(r, pc)
  <2>1. /\ rows' = rows \cup req[r].row /\ changes' = changes + 1
        /\ UNCHANGED <<checks, losses>>
    BY <1>4 DEF Stores
  <2>2. IsFiniteSet(rows')
    <3>1. CASE req[r].row = {}
      BY <2>1, <3>1 DEF ReadInv
    <3>2. CASE req[r].row # {}
      <4>1. PICK row \in req[r].row : req[r].row = {row}
        BY <3>2 DEF IndInv, RowNamed
      <4>2. QED
        BY <2>1, <4>1, FS_AddElement DEF ReadInv
    <3>3. QED
      BY <3>1, <3>2
  <2>3. DatabaseMoves
    BY <2>1, <2>2 DEF ReadInv, DatabaseMoves
  <2>4. QED
    BY <1>3, <1>4, <2>1, <2>3
<1>5. CASE Goto(r, "error") /\ UNCHANGED Database
  <2>1. rows' = rows
    BY <1>5 DEF Database
  <2>2. QED
    BY <1>3, <1>5, <2>1, StillRows
<1>6. QED
  BY <1>4, <1>5 DEF CommitAnalysis

LEMMA CommitDeleteReads ==
  ASSUME IndInv, ReadInv, NEW r \in Requests, CommitDelete(r)
  PROVE  ReadInv'
<1> DEFINE gone == rows \cap req[r].doomed
           n == IF gone = {} THEN 0 ELSE 1
           new == [req[r] EXCEPT !.pc = "done"]
<1>1. /\ req[r].pc \in {"delete", "bulk"} /\ req' = [req EXCEPT ![r] = new]
      /\ rows' = rows \ gone /\ changes' = changes + n /\ losses' = losses + n
      /\ UNCHANGED <<link, stored, checks>>
  BY DEF CommitDelete, Goto
<1>2. Shaped(req[r]) /\ OpFits(r)
  BY DEF IndInv, ReadInv
<1>3. /\ new.row = req[r].row /\ new.op = req[r].op /\ new.pc = "done"
      /\ new.since = req[r].since /\ new.lost = req[r].lost
  BY <1>2 DEF Shaped
<1> HIDE DEF new
<1>4. req[r].op \notin {"stats", "list"}
  BY <1>1, <1>2 DEF OpFits
<1>5. \A q \in Requests : req[q].row \subseteq req'[q].row
  BY <1>1, <1>3 DEF IndInv
<1>6. RowsKept'
  BY <1>1, <1>5, StillKept DEF ReadInv
<1>7. DatabaseMoves
  <2>1. /\ IsFiniteSet(rows') /\ IsFiniteSet(checks') /\ checks' = checks
        /\ changes \in Nat /\ losses \in Nat
    BY <1>1, FS_Difference DEF ReadInv
  <2>2. CASE gone = {}
    BY <1>1, <2>1, <2>2 DEF DatabaseMoves
  <2>3. CASE gone # {}
    BY <1>1, <2>1, <2>3 DEF DatabaseMoves
  <2>4. QED
    BY <2>2, <2>3
<1>8. QED
  BY <1>1, <1>3, <1>4, <1>6, <1>7, PlainReads

LEMMA FailReads ==
  ASSUME IndInv, ReadInv, NEW r \in Requests, Fail(r)
  PROVE  ReadInv'
<1> DEFINE new == [req[r] EXCEPT !.pc = "failed"]
<1>1. /\ req[r].pc \in {"commit", "delete", "bulk"} /\ req' = [req EXCEPT ![r] = new]
      /\ UNCHANGED Database
  BY DEF Fail, Goto
<1>2. Shaped(req[r]) /\ OpFits(r)
  BY DEF IndInv, ReadInv
<1>3. /\ new.row = req[r].row /\ new.op = req[r].op /\ new.pc = "failed"
      /\ new.since = req[r].since /\ new.lost = req[r].lost
  BY <1>2 DEF Shaped
<1> HIDE DEF new
<1>4. req[r].op \notin {"stats", "list"}
  BY <1>1, <1>2 DEF OpFits
<1>5. \A q \in Requests : req[q].row \subseteq req'[q].row
  BY <1>1, <1>3 DEF IndInv
<1>6. RowsKept'
  BY <1>1, <1>5, StillKept DEF ReadInv, Database
<1>7. QED
  BY <1>1, <1>3, <1>4, <1>6, StillRows, PlainReads

(* A step that leaves requests, rows and counters alone.                   *)
LEMMA OthersRead ==
  ASSUME ReadInv, UNCHANGED <<rows, checks, changes, losses, req>>
  PROVE  ReadInv'
<1>1. DatabaseMoves
  BY DEF ReadInv, DatabaseMoves
<1>2. TimesApart'
  BY TimesStay DEF ReadInv
<1>3. RowsKept'
  BY DEF ReadInv, RowsKept
<1>4. \A r \in Requests : Since(r)' /\ OpFits(r)' /\ StatsSound(r)' /\ ListSound(r)'
  BY <1>1, Aside
<1>5. QED
  BY <1>2, <1>3, <1>4 DEF ReadInv

LEMMA ReadStart == Init => ReadInv
<1> SUFFICES ASSUME Init PROVE ReadInv
  OBVIOUS
<1>1. \A r \in Requests : req[r] = Idle
  BY DEF Init
<1>2. /\ Idle.row = {} /\ Idle.op = "none" /\ Idle.pc = "new" /\ Idle.since = 0
      /\ Idle.lost = 0
  BY DEF Idle
<1>3. /\ IsFiniteSet(rows) /\ IsFiniteSet(checks) /\ changes \in Nat /\ losses \in Nat
      /\ changes = 0 /\ losses = 0
  BY FS_EmptySet DEF Init
<1>4. TimesApart /\ RowsKept
  BY <1>1, <1>2 DEF TimesApart, RowsKept, Init
<1>5. \A r \in Requests : Since(r) /\ OpFits(r) /\ StatsSound(r) /\ ListSound(r)
  BY <1>1, <1>2, <1>3 DEF Since, OpFits, StatsSound, ListSound
<1>6. QED
  BY <1>3, <1>4, <1>5 DEF ReadInv

LEMMA ReadStep == IndInv /\ ReadInv /\ [Next]_vars => ReadInv'
<1> SUFFICES ASSUME IndInv, ReadInv, [Next]_vars PROVE ReadInv'
  OBVIOUS
<1>1. CASE StoreSessions
  BY <1>1, OthersRead DEF StoreSessions
<1>2. ASSUME NEW r \in Requests, NEW s \in Sessions, NEW flagged \in BOOLEAN,
             Analyze(r, s, flagged) \/ InsertSynthetic(r, s, flagged)
      PROVE  ReadInv'
  BY <1>2, AnalyzeReads
<1>3. ASSUME NEW r \in Requests, NEW valid \in BOOLEAN, Validate(r, valid) PROVE ReadInv'
  BY <1>3, ValidateReads
<1>4. ASSUME NEW r \in Requests,
             \/ \E row \in rows : Delete(r, row)
             \/ \E synthetic \in BOOLEAN : BulkDelete(r, synthetic)
      PROVE  ReadInv'
  BY <1>4, DeleteReads
<1>5. ASSUME NEW r \in Requests, NEW op \in {"stats", "list"}, Starts(r, op) PROVE ReadInv'
  BY <1>5, StartsReads
<1>6. ASSUME NEW r \in Requests, CommitAnalysis(r) PROVE ReadInv'
  BY <1>6, CommitAnalysisReads
<1>7. ASSUME NEW r \in Requests, CommitDelete(r) PROVE ReadInv'
  BY <1>7, CommitDeleteReads
<1>8. ASSUME NEW r \in Requests, Query(r) PROVE ReadInv'
  BY <1>8, QueryReads
<1>9. ASSUME NEW r \in Requests, List(r) PROVE ReadInv'
  BY <1>9, ListReads
<1>10. ASSUME NEW r \in Requests, Fail(r) PROVE ReadInv'
  BY <1>10, FailReads
<1>11. CASE UNCHANGED vars
  BY <1>11, OthersRead DEF vars
<1>12. QED
  BY <1>1, <1>2, <1>3, <1>4, <1>5, <1>6, <1>7, <1>8, <1>9, <1>10, <1>11 DEF Next

LEMMA ReadInvariance == Spec => []ReadInv
<1>1. QED
  BY Invariance, ReadStart, ReadStep, PTL DEF Spec

(* The numbers of one statistics answer fit each other if nothing was      *)
(* committed between its queries, and those of the verdicts are not below  *)
(* the earlier ones if nothing was deleted.                                *)
THEOREM StatisticsAgree == Spec => []StatsAgree
<1>1. IndInv /\ ReadInv => StatsAgree
  <2> SUFFICES ASSUME ReadInv, NEW r \in Requests, req[r].op = "stats", req[r].pc = "answered"
               PROVE  LET n == req[r].counts
                      IN /\ losses = req[r].lost =>
                              n["total"] <= n["verdicts"] /\ n["synthetic"] <= n["verdicts"]
                                /\ n["flagged"] <= n["verdicts"]
                         /\ changes = req[r].since =>
                              /\ n["total"] = n["verdicts"]
                              /\ n["passed"] <= n["validations"]
                              /\ n["synthetic"] + n["postures"] = n["total"]
    BY DEF StatsAgree
  <2> DEFINE counts == req[r].counts
  <2>1. Counted(r, 7)
    BY DEF ReadInv, StatsSound
  <2>2. losses = req[r].lost =>
          \A query \in Asked(7) \cap Early : counts[query] <= counts["verdicts"]
    BY <2>1 DEF Counted
  <2>3. changes = req[r].since => \A query \in Asked(7) : counts[query] = Answer(query)
    BY <2>1 DEF Counted
  <2>4. {"total", "synthetic", "flagged"} \subseteq Asked(7) \cap Early
    BY QueriesDiffer DEF Early
  <2>5. /\ Answer("passed") <= Answer("validations") /\ Answer("total") = Answer("verdicts")
        /\ Answer("synthetic") + Answer("postures") = Answer("total")
    BY AnswersCount, Answers DEF ReadInv
  <2>6. QED
    BY <2>2, <2>3, <2>4, <2>5, QueriesDiffer
<1>2. QED
  BY <1>1, Invariance, ReadInvariance, PTL

(* A client that reads page after page misses no row that was there when   *)
(* it began, unless rows were deleted meanwhile.                           *)
THEOREM ListIsComplete == Spec => []ListComplete
<1>1. ReadInv => ListComplete
  BY DEF ReadInv, ListSound, ListComplete
<1>2. QED
  BY <1>1, ReadInvariance, PTL
=============================================================================
