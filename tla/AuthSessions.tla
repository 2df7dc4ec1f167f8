---------------------------- MODULE AuthSessions ----------------------------
(***************************************************************************)
(* Accounts and their tokens (api/auth.py, api/auth_routes.py).            *)
(*                                                                         *)
(* Requests run concurrently, each in a transaction of its own that reads  *)
(* what is committed (READ COMMITTED) and that get_db commits after the    *)
(* response has been sent (api/dependencies.py); only a registration       *)
(* commits its user before.  A token is named by the request that issued   *)
(* it: its jti is a fresh UUID.  Passwords, signatures and e-mail domains  *)
(* are choices of the request: it presents good credentials or bad ones.   *)
(***************************************************************************)
EXTENDS Naturals, FiniteSets

CONSTANTS
  Requests,  \* requests, and the tokens they may issue
  Emails     \* normalised e-mail addresses

VARIABLES
  users,     \* committed rows of users: [id, email]
  name,      \* the display name of each user: the request that chose it
  sessions,  \* committed rows of auth_sessions: [jti, user, revoked]
  expired,   \* the tokens whose lifetime is over
  issued,    \* the tokens that a response has handed out: [jti, email]
  req        \* the requests
vars == <<users, name, sessions, expired, issued, req>>

(* seen: what the request read, the row of the session and the account's.  *)
(* dead: at its start, its token's session was stored and revoked, or its  *)
(* lifetime was over; live: its session was stored and not revoked.        *)
Idle ==
  [op |-> "none", pc |-> "new", email |-> "none", token |-> "none",
   session |-> {}, user |-> {}, dead |-> FALSE, live |-> FALSE]

Init ==
  /\ users = {} /\ name = [r \in Requests |-> "none"]
  /\ sessions = {} /\ expired = {} /\ issued = {}
  /\ req = [r \in Requests |-> Idle]

SessionOf(jti) == {s \in sessions : s.jti = jti}
UserOf(email) == {u \in users : u.email = email}

Goto(r, pc) == req' = [req EXCEPT ![r].pc = pc]

(* A request arrives.  A token was handed out by an earlier response.      *)
StartAccount(r, op, email) ==
  /\ req[r].pc = "new"
  /\ op \in {"register", "login"}
  /\ req' = [req EXCEPT ![r] = [Idle EXCEPT !.op = op, !.email = email, !.pc = "account"]]
  /\ UNCHANGED <<users, name, sessions, expired, issued>>

StartToken(r, op, token) ==
  /\ req[r].pc = "new"
  /\ op \in {"logout", "profile", "patch"}
  /\ req' = [req EXCEPT ![r] =
       [Idle EXCEPT !.op = op, !.token = token.jti, !.email = token.email,
                    !.pc = "session",
                    !.dead = \/ \E s \in SessionOf(token.jti) : s.revoked
                             \/ token.jti \in expired,
                    !.live = \E s \in SessionOf(token.jti) : ~s.revoked]]
  /\ UNCHANGED <<users, name, sessions, expired, issued>>

(* register: the e-mail is looked up (409), then the user is inserted.     *)
RegisterCheck(r) ==
  /\ req[r].op = "register" /\ req[r].pc = "account"
  /\ Goto(r, IF UserOf(req[r].email) # {} THEN "refused" ELSE "insert")
  /\ UNCHANGED <<users, name, sessions, expired, issued>>

(* A mutant of the next: no unique index on the e-mail.                    *)
RegisterInsertAnyway(r) ==
  /\ req[r].op = "register" /\ req[r].pc = "insert"
  /\ users' = users \cup {[id |-> r, email |-> req[r].email]}
  /\ req' = [req EXCEPT ![r].pc = "issue",
                        ![r].user = {[id |-> r, email |-> req[r].email]}]
  /\ UNCHANGED <<name, sessions, expired, issued>>

(* A mutant of the next: the token is issued before the user is stored.    *)
RegisterInsertLater(r) ==
  /\ req[r].op = "register" /\ req[r].pc = "insert"
  /\ req' = [req EXCEPT ![r].pc = "issue",
                        ![r].user = {[id |-> r, email |-> req[r].email]}]
  /\ UNCHANGED <<users, name, sessions, expired, issued>>

(* The unique index on the e-mail refuses the second insert (500).         *)
RegisterInsert(r) ==
  /\ req[r].op = "register" /\ req[r].pc = "insert"
  /\ \/ /\ UserOf(req[r].email) = {}
        /\ users' = users \cup {[id |-> r, email |-> req[r].email]}
        /\ req' = [req EXCEPT ![r].pc = "issue",
                              ![r].user = {[id |-> r, email |-> req[r].email]}]
     \/ /\ UserOf(req[r].email) # {}
        /\ Goto(r, "error")
        /\ UNCHANGED users
  /\ UNCHANGED <<name, sessions, expired, issued>>

(* login: an unknown e-mail and a wrong password are answered alike (401). *)
Login(r, password) ==
  /\ req[r].op = "login" /\ req[r].pc = "account"
  /\ LET account == UserOf(req[r].email)
     IN req' = IF account = {} \/ password = "wrong"
               THEN [req EXCEPT ![r].pc = "refused"]
               ELSE [req EXCEPT ![r].pc = "issue", ![r].user = account]
  /\ UNCHANGED <<users, name, sessions, expired, issued>>

(* issue_access_token: the session is added, the token is answered.        *)
Issue(r) ==
  /\ req[r].pc = "issue"
  /\ issued' = issued \cup {[jti |-> r, email |-> req[r].email]}
  /\ Goto(r, "answered")
  /\ UNCHANGED <<users, name, sessions, expired>>

(* get_current_user, revoke_access_token: the session is read.             *)
ReadSession(r) ==
  /\ req[r].pc = "session"
  /\ req' = [req EXCEPT ![r].session = SessionOf(req[r].token),
       ![r].pc = IF req[r].op = "logout" THEN "answered" ELSE "user"]
  /\ UNCHANGED <<users, name, sessions, expired, issued>>

ReadUser(r) ==
  /\ req[r].pc = "user"
  /\ req' = [req EXCEPT ![r].user = UserOf(req[r].email), ![r].pc = "decide"]
  /\ UNCHANGED <<users, name, sessions, expired, issued>>

(* A mutant of the next: revoked_at is not looked at.                      *)
GrantsRevoked(r) ==
  /\ req[r].token \notin expired
  /\ \E s \in req[r].session, u \in req[r].user : s.user = u.id

(* The rows read, and the clock, let the request through.                  *)
Grants(r) ==
  /\ req[r].token \notin expired
  /\ \E s \in req[r].session, u \in req[r].user : ~s.revoked /\ s.user = u.id

(* The profile is answered, or 401.                                        *)
Decide(r) ==
  /\ req[r].pc = "decide"
  /\ Goto(r, IF Grants(r) THEN "answered" ELSE "refused")
  /\ UNCHANGED <<users, name, sessions, expired, issued>>

(* What the transaction of r wrote.                                        *)
Sessions(r) ==
  IF req[r].op \in {"register", "login"}
  THEN sessions \cup {[jti |-> r, user |-> u.id, revoked |-> FALSE] : u \in req[r].user}
  ELSE IF req[r].op = "logout"
  THEN (sessions \ req[r].session)
         \cup {[s EXCEPT !.revoked = TRUE] : s \in req[r].session}
  ELSE sessions

(* A mutant of the next: a logout is not committed.                        *)
CommitIssued(r) ==
  /\ req[r].pc = "answered"
  /\ sessions' = IF req[r].op = "logout" THEN sessions ELSE Sessions(r)
  /\ UNCHANGED name
  /\ Goto(r, "done")
  /\ UNCHANGED <<users, expired, issued>>

(* get_db, once the response is sent.                                      *)
Commit(r) ==
  /\ req[r].pc = "answered"
  /\ sessions' = Sessions(r)
  /\ name' = IF req[r].op = "patch"
             THEN [u \in Requests |-> IF \E v \in req[r].user : v.id = u
                                      THEN r ELSE name[u]]
             ELSE name
  /\ Goto(r, "done")
  /\ UNCHANGED <<users, expired, issued>>

(* The database or the process fails: nothing of the transaction is kept.  *)
InFlight == {"account", "insert", "issue", "session", "user", "decide", "answered"}
Fail(r) ==
  /\ req[r].pc \in InFlight
  /\ Goto(r, IF req[r].pc = "answered" THEN "lost" ELSE "error")
  /\ UNCHANGED <<users, name, sessions, expired, issued>>

Expire(token) ==
  /\ expired' = expired \cup {token.jti}
  /\ UNCHANGED <<users, name, sessions, issued, req>>

RequestStep(r) ==
  \/ RegisterCheck(r) \/ RegisterInsert(r)
  \/ \E password \in {"right", "wrong"} : Login(r, password)
  \/ Issue(r) \/ ReadSession(r) \/ ReadUser(r) \/ Decide(r) \/ Commit(r)

Next ==
  \/ \E r \in Requests :
       \/ \E op \in {"register", "login"}, email \in Emails : StartAccount(r, op, email)
       \/ \E op \in {"logout", "profile", "patch"}, token \in issued :
            StartToken(r, op, token)
       \/ RequestStep(r) \/ Fail(r)
  \/ \E token \in issued : Expire(token)
Spec == Init /\ [][Next]_vars

(***************************************************************************)
(* Properties.                                                             *)
(***************************************************************************)
Pcs == InFlight \cup {"new", "refused", "error", "done", "lost"}

UserRows == [id : Requests, email : Emails]
SessionRows == [jti : Requests, user : Requests, revoked : BOOLEAN]
Request ==
  [op : {"none", "register", "login", "logout", "profile", "patch"}, pc : Pcs,
   email : Emails \cup {"none"}, token : Requests \cup {"none"},
   session : SUBSET SessionRows, user : SUBSET UserRows,
   dead : BOOLEAN, live : BOOLEAN]

TypeOK ==
  /\ users \subseteq UserRows
  /\ name \in [Requests -> Requests \cup {"none"}]
  /\ sessions \subseteq SessionRows
  /\ expired \subseteq Requests
  /\ issued \subseteq [jti : Requests, email : Emails]
  /\ req \in [Requests -> Request]
  /\ \A r \in Requests : req[r].user \subseteq users

Answered(r) == req[r].pc \in {"answered", "done", "lost"}

(* However registrations race, one account is made of an e-mail: at most   *)
(* one registration of it is answered with a token (auth_routes.py:26-38). *)
RegisteredOnce ==
  \A q, r \in Requests :
    (/\ req[q].op = "register" /\ Answered(q)
     /\ req[r].op = "register" /\ Answered(r)
     /\ req[q].email = req[r].email) => q = r

(* A token opens its own account, to be read or renamed, and only to a    *)
(* request at whose start it was neither revoked nor over: the two reads   *)
(* and the checks after them do not let a dead token through, whatever     *)
(* commits between them (auth.py:81-97, auth_routes.py:62-73).             *)
AcceptedWasLive ==
  /\ \A r \in Requests :
       req[r].op \in {"profile", "patch"} /\ Answered(r) => ~req[r].dead
  /\ \A u \in Requests : name[u] # "none" =>
       /\ req[name[u]].op = "patch" /\ Answered(name[u])
       /\ \E s \in req[name[u]].session : s.user = u

(* A logout that has committed revoked the session it found: the token is  *)
(* dead for every later request, and stays so (auth.py:100-109).  A logout *)
(* that overtakes the commit of its own login finds no session, is         *)
(* answered all the same, and leaves a token that lives.                   *)
LogoutRevokes ==
  \A r \in Requests :
    (req[r].op = "logout" /\ req[r].pc = "done" /\ req[r].live) =>
      /\ SessionOf(req[r].token) # {}
      /\ \A s \in SessionOf(req[r].token) : s.revoked
=============================================================================
