--------------------------- MODULE AnalysisStore ---------------------------
(***************************************************************************)
(* The stored analyses and who reads, links and deletes them               *)
(* (api/routes.py, api/data_routes.py), beside the worker that replaces    *)
(* the capture sessions they are linked to (api/worker.py).                *)
(*                                                                         *)
(* Every query sees what is committed when it runs (READ COMMITTED): the   *)
(* several queries of a statistics or list request are separate steps.     *)
(* An analysis is named by the request that stores it: its request_id is a *)
(* fresh UUID.  Whether it is flagged is a choice of the request.          *)
(***************************************************************************)
EXTENDS Naturals, FiniteSets, TLC

CONSTANTS
  Requests,   \* requests, and the analyses they may store
  Sessions,   \* the sessions of one capture
  MaxStored,  \* how often the worker may store the capture's sessions
  Limit       \* rows a page of the list holds

ASSUME RequestsAreFinite == IsFiniteSet(Requests)
ASSUME StoresAreCounted == MaxStored \in Nat
ASSUME LimitIsPositive == Limit \in Nat \ {0}

VARIABLES
  rows,      \* analysis_records: [id, session, synthetic, flagged, time]
  link,      \* capture_sessions: the analysis_request_id of each
  stored,    \* how often the worker has stored them: tells their rows apart
  checks,    \* validation_records: [id, valid]
  removed,   \* analyses that were stored and deleted
  changes,   \* commits so far that changed rows or checks
  losses,    \* those of them that deleted
  req        \* the requests
vars == <<rows, link, stored, checks, removed, changes, losses, req>>

(* row: what the request is to store; target: the capture session's row it *)
(* read; doomed: the rows it deletes; counts: what its queries returned;   *)
(* skip, seen: how far its list got; since, lost: changes and losses at    *)
(* its start; first: the rows of that moment.                              *)
Idle ==
  [op |-> "none", pc |-> "new", row |-> {}, target |-> 0, doomed |-> {},
   synthetic |-> FALSE, counts |-> << >>, skip |-> 0, seen |-> {},
   since |-> 0, lost |-> 0, first |-> {}]

Init ==
  /\ rows = {} /\ checks = {} /\ removed = {}
  /\ link = [s \in Sessions |-> {}] /\ stored = 0
  /\ changes = 0 /\ losses = 0
  /\ req = [r \in Requests |-> Idle]

Ids(set) == {row.id : row \in set}
Begin(r, request) == req' = [req EXCEPT ![r] = request]
Goto(r, pc) == req' = [req EXCEPT ![r].pc = pc]
Database == <<rows, link, stored, checks, removed, changes, losses>>

(* extract_authorized_capture done: old rows out, new rows in, no link.    *)
StoreSessions ==
  /\ stored < MaxStored
  /\ stored' = stored + 1
  /\ link' = [s \in Sessions |-> {}]
  /\ UNCHANGED <<rows, checks, removed, changes, losses, req>>

(* analyze_session: the row is flushed, and the capture session read.      *)
Now == Cardinality({q \in Requests : req[q].row # {}})
Analyze(r, s, flagged) ==
  /\ req[r].pc = "new"
  /\ Begin(r, [Idle EXCEPT !.op = "analyze", !.pc = "commit", !.target = stored,
                 !.row = {[id |-> r, session |-> s, synthetic |-> FALSE,
                           flagged |-> flagged, time |-> Now]}])
  /\ UNCHANGED Database

(* A mutant of the next: a synthetic analysis is linked as well.           *)
StoresAndLinks(r) ==
  /\ rows' = rows \cup req[r].row
  /\ changes' = changes + 1
  /\ link' = [s \in Sessions |->
       IF \E row \in req[r].row : row.session = s THEN {r} ELSE link[s]]
  /\ UNCHANGED <<stored, checks, removed, losses>>

(* What a commit of r makes visible: its row, and the link of its session  *)
(* if the capture session was there.                                       *)
Stores(r) ==
  /\ rows' = rows \cup req[r].row
  /\ changes' = changes + 1
  /\ link' = [s \in Sessions |->
       IF req[r].op = "analyze" /\ req[r].target > 0 /\ \E row \in req[r].row : row.session = s
       THEN {r} ELSE link[s]]
  /\ UNCHANGED <<stored, checks, removed, losses>>

(* A mutant of the next: the stale update is swallowed, the result sent.   *)
CommitAnalysisAnyway(r) ==
  /\ req[r].pc = "commit"
  /\ \/ req[r].target \in {0, stored} /\ Stores(r)
     \/ req[r].target \notin {0, stored} /\ UNCHANGED Database
  /\ Goto(r, "answered")

(* The commit updates the row it read: if the worker has replaced it, the  *)
(* update matches nothing and all is rolled back (500).  The commit may    *)
(* also succeed and the answer to it be lost: the client is told to retry. *)
CommitAnalysis(r) ==
  /\ req[r].pc = "commit"
  /\ \/ /\ req[r].target \in {0, stored}
        /\ Stores(r)
        /\ \E pc \in {"answered", "error"} : Goto(r, pc)
     \/ /\ req[r].target \notin {0, stored}
        /\ Goto(r, "error")
        /\ UNCHANGED Database

(* create_synthetic_analysis: no capture session is looked at.             *)
InsertSynthetic(r, s, flagged) ==
  /\ req[r].pc = "new"
  /\ Begin(r, [Idle EXCEPT !.op = "synthetic", !.pc = "commit",
                 !.row = {[id |-> r, session |-> s, synthetic |-> TRUE,
                           flagged |-> flagged, time |-> Now]}])
  /\ UNCHANGED Database

(* validate_session_payload: the outcome is stored before it is answered.  *)
Validate(r, valid) ==
  /\ req[r].pc = "new"
  /\ checks' = checks \cup {[id |-> r, valid |-> valid]}
  /\ changes' = changes + 1
  /\ Begin(r, [Idle EXCEPT !.op = "validate", !.pc = "answered"])
  /\ UNCHANGED <<rows, link, stored, removed, losses>>

(* The rows that another request has deleted and not yet committed.        *)
Locked(r) ==
  UNION {req[q].doomed : q \in {q \in Requests \ {r} : req[q].pc = "bulk"}}

(* delete_analysis: the row is looked up (404), the deletion answered; the *)
(* session ends with it.                                                   *)
Delete(r, row) ==
  /\ req[r].pc = "new" /\ row \in rows
  /\ Begin(r, [Idle EXCEPT !.op = "delete", !.pc = "delete", !.doomed = {row}])
  /\ UNCHANGED Database

(* bulk_delete_analyses: the deletion waits for rows another deletes.      *)
BulkDelete(r, synthetic) ==
  LET doomed == {row \in rows : synthetic => row.synthetic}
  IN /\ req[r].pc = "new" /\ doomed \cap Locked(r) = {}
     /\ Begin(r, [Idle EXCEPT !.op = "bulk", !.pc = "bulk",
                              !.synthetic = synthetic, !.doomed = doomed])
     /\ UNCHANGED Database

(* A mutant of the next: the row stays.                                    *)
CommitDeleteKept(r) ==
  /\ req[r].pc \in {"delete", "bulk"}
  /\ removed' = removed \cup Ids(rows \cap req[r].doomed)
  /\ Goto(r, "done")
  /\ UNCHANGED <<rows, link, stored, checks, changes, losses>>

(* get_db commits the deletion, after the response.                        *)
CommitDelete(r) ==
  /\ req[r].pc \in {"delete", "bulk"}
  /\ req[r].pc = "delete" => req[r].doomed \cap Locked(r) = {}
  /\ LET gone == rows \cap req[r].doomed
         n == IF gone = {} THEN 0 ELSE 1
     IN /\ rows' = rows \ gone
        /\ removed' = removed \cup Ids(gone)
        /\ changes' = changes + n /\ losses' = losses + n
  /\ Goto(r, "done")
  /\ UNCHANGED <<link, stored, checks>>

(* The queries of analyses_stats, in order; the verdicts and the postures  *)
(* are counted by group, and only analyses that ran have a posture.        *)
Queries == <<"total", "synthetic", "flagged", "verdicts", "postures",
             "validations", "passed">>
Answer(query) ==
  CASE query \in {"total", "verdicts"} -> Cardinality(rows)
    [] query = "synthetic" -> Cardinality({row \in rows : row.synthetic})
    [] query = "flagged" -> Cardinality({row \in rows : row.flagged})
    [] query = "postures" -> Cardinality({row \in rows : ~row.synthetic})
    [] query = "validations" -> Cardinality(checks)
    [] query = "passed" -> Cardinality({c \in checks : c.valid})

(* The numbers counted so far, and the answer to one more query.           *)
Counts(counts, query) ==
  [q \in DOMAIN counts \cup {query} |-> IF q = query THEN Answer(query) ELSE counts[q]]

Starts(r, op) ==
  /\ req[r].pc = "new"
  /\ Begin(r, [Idle EXCEPT !.op = op, !.pc = op, !.since = changes,
                           !.lost = losses, !.first = rows])
  /\ UNCHANGED Database

(* A mutant of the next: the verdicts are counted first.                   *)
QueryVerdictsFirst(r) ==
  LET n == Cardinality(DOMAIN req[r].counts) + 1
      query == [Queries EXCEPT ![1] = "verdicts", ![4] = "total"][n]
  IN /\ req[r].pc = "stats"
     /\ req' = [req EXCEPT ![r].counts = Counts(@, query),
                           ![r].pc = IF n = 7 THEN "answered" ELSE "stats"]
     /\ UNCHANGED Database

Query(r) ==
  LET n == Cardinality(DOMAIN req[r].counts) + 1
      query == Queries[n]
  IN /\ req[r].pc = "stats"
     /\ req' = [req EXCEPT ![r].counts = Counts(@, query),
                           ![r].pc = IF n = 7 THEN "answered" ELSE "stats"]
     /\ UNCHANGED Database

(* list_analyses: the newest first, from an offset.                        *)
Rank(row) == Cardinality({other \in rows : other.time > row.time})
Page(skip) == {row \in rows : skip <= Rank(row) /\ Rank(row) < skip + Limit}

(* A mutant of the next: the next page begins one row too late.            *)
ListBeyond(r) ==
  /\ req[r].pc = "list"
  /\ req' = [req EXCEPT
       ![r].seen = @ \cup Page(req[r].skip),
       ![r].skip = @ + Limit + 1,
       ![r].pc = IF Cardinality(Page(req[r].skip)) < Limit THEN "answered" ELSE "list"]
  /\ UNCHANGED Database

(* A client reads page after page, until one is not full.                  *)
List(r) ==
  /\ req[r].pc = "list"
  /\ req' = [req EXCEPT
       ![r].seen = @ \cup Page(req[r].skip),
       ![r].skip = @ + Limit,
       ![r].pc = IF Cardinality(Page(req[r].skip)) < Limit THEN "answered" ELSE "list"]
  /\ UNCHANGED Database

(* The database or the process fails before the commit.                    *)
Fail(r) ==
  /\ req[r].pc \in {"commit", "delete", "bulk"}
  /\ Goto(r, "failed")
  /\ UNCHANGED Database

Next ==
  \/ StoreSessions
  \/ \E r \in Requests :
       \/ \E s \in Sessions, flagged \in BOOLEAN :
            Analyze(r, s, flagged) \/ InsertSynthetic(r, s, flagged)
       \/ \E valid \in BOOLEAN : Validate(r, valid)
       \/ \E row \in rows : Delete(r, row)
       \/ \E synthetic \in BOOLEAN : BulkDelete(r, synthetic)
       \/ \E op \in {"stats", "list"} : Starts(r, op)
       \/ CommitAnalysis(r) \/ CommitDelete(r) \/ Query(r) \/ List(r) \/ Fail(r)
Spec == Init /\ [][Next]_vars

(***************************************************************************)
(* Properties.                                                             *)
(***************************************************************************)
Rows ==
  [id : Requests, session : Sessions, synthetic : BOOLEAN, flagged : BOOLEAN,
   time : 0..Cardinality(Requests)]

TypeOK ==
  /\ rows \subseteq Rows
  /\ link \in [Sessions -> {{}} \cup {{r} : r \in Requests}]
  /\ stored \in 0..MaxStored
  /\ checks \subseteq [id : Requests, valid : BOOLEAN]
  /\ removed \subseteq Requests \ Ids(rows)
  /\ \A r \in Requests :
       /\ req[r].row \subseteq Rows /\ req[r].doomed \subseteq Rows
       /\ req[r].target \in 0..stored
       /\ req[r].pc \in {"new", "commit", "delete", "bulk", "stats", "list",
                         "answered", "done", "error", "failed"}

(* A result that was answered is stored until somebody deletes it: unlike  *)
(* the agent's memory, analyses commit before they answer                  *)
(* (routes.py:369-416).                                                    *)
AnsweredStored ==
  \A r \in Requests : \A row \in req[r].row :
    req[r].pc = "answered" => row \in rows \/ row.id \in removed

(* A capture session is linked to an analysis of that very session that    *)
(* has been stored, though it may have been deleted since: deleting leaves *)
(* the link (routes.py:392-399, data_routes.py:339-350).                   *)
LinkNamesStored ==
  \A s \in Sessions : \A id \in link[s] :
    /\ id \in Ids(rows) \cup removed
    /\ \A row \in req[id].row : row.session = s /\ ~row.synthetic

(* The numbers of one statistics answer come from different moments.  They *)
(* fit each other if nothing was committed in between; and if nothing was  *)
(* deleted, a number counted later is never short of an earlier one        *)
(* (data_routes.py:200-303).                                               *)
StatsAgree ==
  \A r \in Requests : req[r].op = "stats" /\ req[r].pc = "answered" =>
    LET n == req[r].counts
    IN /\ losses = req[r].lost =>
            n["total"] <= n["verdicts"] /\ n["synthetic"] <= n["verdicts"]
              /\ n["flagged"] <= n["verdicts"]
       /\ changes = req[r].since =>
            /\ n["total"] = n["verdicts"] /\ n["passed"] <= n["validations"]
            /\ n["synthetic"] + n["postures"] = n["total"]

(* A client that reads page after page misses no row that was there when   *)
(* it began, unless rows were deleted meanwhile: new rows come first and   *)
(* only push the others on (data_routes.py:144-182).                       *)
ListComplete ==
  \A r \in Requests :
    req[r].op = "list" /\ req[r].pc = "answered" /\ losses = req[r].lost =>
      req[r].first \subseteq req[r].seen
=============================================================================
