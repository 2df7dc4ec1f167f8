------------------------- MODULE AuthSessionsProofs -------------------------
(* Theorems about AuthSessions, for every set of requests and e-mails.     *)
EXTENDS AuthSessions, TLAPS

(***************************************************************************)
(* The inductive invariant: what holds of the tables, and of each request. *)
(***************************************************************************)
EmailOnce == \A u, v \in users : u.email = v.email => u = v

SessionOnce == \A s, t \in sessions : s.jti = t.jti => s = t

SessionCommitted ==
  \A s \in sessions :
    req[s.jti].pc = "done" /\ req[s.jti].op \in {"register", "login"}

NameChosen ==
  \A u \in Requests : name[u] # "none" =>
    /\ req[name[u]].op = "patch" /\ req[name[u]].pc = "done"
    /\ \E s \in req[name[u]].session : s.user = u

(* Each step belongs to its operations.                                    *)
InStep(r) ==
  /\ (req[r].pc \in {"account", "insert", "issue"} => req[r].op \in {"register", "login"})
  /\ (req[r].pc = "insert" => req[r].op = "register")
  /\ (req[r].pc = "session" => req[r].op \in {"logout", "profile", "patch"})
  /\ (req[r].pc \in {"user", "decide"} => req[r].op \in {"profile", "patch"})
  /\ (req[r].op \in {"register", "login"} => req[r].email \in Emails)

(* The account of a registration is stored before its token is issued.     *)
AccountStored(r) ==
  req[r].op = "register" /\ (req[r].pc = "issue" \/ Answered(r)) =>
    [id |-> r, email |-> req[r].email] \in users

AccountRead(r) ==
  \A u \in req[r].user : u \in users /\ u.email = req[r].email

(* A session that was read is still stored, and not less revoked.          *)
SessionSeen(r) ==
  \A s \in req[r].session :
    /\ s.jti = req[r].token
    /\ \E t \in sessions : t.jti = s.jti /\ t.user = s.user /\ (s.revoked => t.revoked)

(* What was dead at the start is seen to be dead.                          *)
DeadSeen(r) ==
  req[r].dead =>
    /\ (req[r].pc = "session" =>
          req[r].token \in expired \/ \E s \in sessions : s.jti = req[r].token /\ s.revoked)
    /\ (req[r].pc \in {"user", "decide"} =>
          req[r].token \in expired \/ \A s \in req[r].session : s.revoked)
    /\ (req[r].op \in {"profile", "patch"} => ~Answered(r))

Entitled(r) ==
  req[r].op \in {"profile", "patch"} /\ Answered(r) =>
    \E s \in req[r].session, u \in req[r].user : s.user = u.id

(* What was live at the start is still stored, and revoked by a logout.    *)
LiveStored(r) ==
  req[r].live =>
    /\ \E s \in sessions : s.jti = req[r].token
    /\ (req[r].op = "logout" /\ req[r].pc = "answered" => req[r].session # {})
    /\ (req[r].op = "logout" /\ req[r].pc = "done" =>
          \A s \in sessions : s.jti = req[r].token => s.revoked)

RequestInv(r) ==
  /\ InStep(r) /\ AccountStored(r) /\ AccountRead(r) /\ SessionSeen(r)
  /\ DeadSeen(r) /\ Entitled(r) /\ LiveStored(r)

IndInv ==
  /\ TypeOK
  /\ EmailOnce /\ SessionOnce /\ SessionCommitted /\ NameChosen
  /\ \A r \in Requests : RequestInv(r)

LEMMA InitInv == Init => IndInv
<1> SUFFICES ASSUME Init PROVE IndInv
  OBVIOUS
<1>1. TypeOK
  BY DEF Init, TypeOK, Idle, Request, Pcs
<1>2. EmailOnce /\ SessionOnce /\ SessionCommitted /\ NameChosen
  BY DEF Init, EmailOnce, SessionOnce, SessionCommitted, NameChosen
<1>3. ASSUME NEW r \in Requests PROVE RequestInv(r)
  <2>1. req[r] = Idle
    BY DEF Init
  <2>2. QED
    BY <2>1 DEF RequestInv, InStep, AccountStored, AccountRead, SessionSeen, DeadSeen,
                Entitled, LiveStored, Answered, Idle
<1>4. QED
  BY <1>1, <1>2, <1>3 DEF IndInv

(* The tables only grow: accounts stay, tokens expire for good, a stored   *)
(* session stays and is never less revoked, and a new one has a new name.  *)
Grown ==
  /\ users \subseteq users' /\ expired \subseteq expired'
  /\ \A s \in sessions : \E t \in sessions' :
       t.jti = s.jti /\ t.user = s.user /\ (s.revoked => t.revoked)
  /\ \A t \in sessions' :
       \/ \A s \in sessions : s.jti # t.jti
       \/ \E s \in sessions : s.jti = t.jti /\ (s.revoked => t.revoked)

(* So a step leaves the other requests as they are.                        *)
LEMMA OthersKeep ==
  ASSUME Grown, NEW r \in Requests, RequestInv(r), req'[r] = req[r]
  PROVE  RequestInv(r)'
<1>1. InStep(r)' /\ AccountStored(r)' /\ AccountRead(r)' /\ Entitled(r)'
  BY DEF Grown, RequestInv, InStep, AccountStored, AccountRead, Entitled, Answered
<1>2. SessionSeen(r)'
  BY DEF Grown, RequestInv, SessionSeen
<1>3. DeadSeen(r)'
  BY DEF Grown, RequestInv, DeadSeen, Answered
<1>4. LiveStored(r)'
  <2> SUFFICES ASSUME req[r].live PROVE LiveStored(r)'
    BY DEF LiveStored
  <2>1. PICK s \in sessions : s.jti = req[r].token
    BY DEF RequestInv, LiveStored
  <2>2. \E t \in sessions' : t.jti = req[r].token
    BY <2>1 DEF Grown
  <2>3. ASSUME req[r].op = "logout", req[r].pc = "done",
               NEW t \in sessions', t.jti = req[r].token
        PROVE  t.revoked
    BY <2>1, <2>3 DEF Grown, RequestInv, LiveStored
  <2>4. QED
    BY <2>2, <2>3 DEF RequestInv, LiveStored
<1>5. QED
  BY <1>1, <1>2, <1>3, <1>4 DEF RequestInv

(* A step of a request that is not done yet, and that stores no session.   *)
LEMMA RequestMoves ==
  ASSUME IndInv, NEW r \in Requests, req[r].pc # "done", NEW new \in Request,
         req' = [req EXCEPT ![r] = new], new.user \subseteq users',
         UNCHANGED <<name, sessions, expired>>,
         issued' \subseteq [jti : Requests, email : Emails],
         users \subseteq users', users' \subseteq UserRows, EmailOnce', RequestInv(r)'
  PROVE  IndInv'
<1>1. req'[r] = new /\ \A q \in Requests : q # r => req'[q] = req[q]
  BY DEF IndInv, TypeOK
<1>2. Grown
  BY DEF Grown
<1>3. \A q \in Requests : RequestInv(q)'
  <2>1. ASSUME NEW q \in Requests, q # r PROVE RequestInv(q)'
    BY <1>1, <1>2, <2>1, OthersKeep DEF IndInv
  <2>2. QED
    BY <2>1
<1>4. TypeOK'
  <2>1. req' \in [Requests -> Request]
    BY DEF IndInv, TypeOK
  <2>2. \A q \in Requests : req'[q].user \subseteq users'
    BY <1>1 DEF IndInv, TypeOK
  <2>3. QED
    BY <2>1, <2>2 DEF IndInv, TypeOK
<1>5. SessionOnce'
  BY DEF IndInv, SessionOnce
<1>6. SessionCommitted'
  BY <1>1 DEF IndInv, SessionCommitted, TypeOK, SessionRows
<1>7. NameChosen'
  BY <1>1 DEF IndInv, NameChosen, TypeOK
<1>8. QED
  BY <1>3, <1>4, <1>5, <1>6, <1>7 DEF IndInv

LEMMA StartAccountInv ==
  ASSUME IndInv, NEW r \in Requests, NEW op \in {"register", "login"}, NEW email \in Emails,
         StartAccount(r, op, email)
  PROVE  IndInv'
<1> DEFINE new == [Idle EXCEPT !.op = op, !.email = email, !.pc = "account"]
<1>1. /\ req[r].pc = "new" /\ req' = [req EXCEPT ![r] = new]
      /\ UNCHANGED <<users, name, sessions, expired, issued>>
  BY DEF StartAccount
<1>2. /\ new \in Request /\ new.op = op /\ new.pc = "account" /\ new.user = {}
      /\ new.session = {} /\ new.dead = FALSE /\ new.live = FALSE /\ new.email = email
  BY DEF Idle, Request, Pcs, InFlight
<1> HIDE DEF new
<1>3. req'[r] = new
  BY <1>1 DEF IndInv, TypeOK
<1>4. RequestInv(r)'
  BY <1>2, <1>3 DEF RequestInv, InStep, AccountStored, AccountRead, SessionSeen, DeadSeen,
                    Entitled, LiveStored, Answered
<1>5. QED
  BY <1>1, <1>2, <1>4, RequestMoves DEF IndInv, TypeOK, EmailOnce

LEMMA StartTokenInv ==
  ASSUME IndInv, NEW r \in Requests, NEW op \in {"logout", "profile", "patch"},
         NEW token \in issued, StartToken(r, op, token)
  PROVE  IndInv'
<1> DEFINE dead == (\E s \in SessionOf(token.jti) : s.revoked) \/ token.jti \in expired
           live == \E s \in SessionOf(token.jti) : ~s.revoked
           new == [Idle EXCEPT !.op = op, !.token = token.jti, !.email = token.email,
                               !.pc = "session", !.dead = dead, !.live = live]
<1>1. /\ req[r].pc = "new" /\ req' = [req EXCEPT ![r] = new]
      /\ UNCHANGED <<users, name, sessions, expired, issued>>
  BY DEF StartToken
<1>2. token.jti \in Requests /\ token.email \in Emails
  BY DEF IndInv, TypeOK
<1>3. /\ dead => token.jti \in expired \/ \E s \in sessions : s.jti = token.jti /\ s.revoked
      /\ live => \E s \in sessions : s.jti = token.jti
      /\ dead \in BOOLEAN /\ live \in BOOLEAN
  BY DEF SessionOf
<1> HIDE DEF dead, live
<1>4. /\ new \in Request /\ new.op = op /\ new.pc = "session" /\ new.user = {}
      /\ new.token = token.jti /\ new.session = {} /\ new.dead = dead /\ new.live = live
  BY <1>2, <1>3 DEF Idle, Request, Pcs, InFlight
<1> HIDE DEF new
<1>5. req'[r] = new
  BY <1>1 DEF IndInv, TypeOK
<1>6. RequestInv(r)'
  BY <1>1, <1>3, <1>4, <1>5
     DEF RequestInv, InStep, AccountStored, AccountRead, SessionSeen, DeadSeen,
         Entitled, LiveStored, Answered
<1>7. QED
  BY <1>1, <1>4, <1>6, RequestMoves DEF IndInv, TypeOK, EmailOnce

(* A step that only moves a request on.                                    *)
LEMMA GotoInv ==
  ASSUME IndInv, NEW r \in Requests, NEW pc \in Pcs \ {"new", "done"}, Goto(r, pc),
         req[r].pc \notin {"new", "done"},
         UNCHANGED <<users, name, sessions, expired>>,
         issued' \subseteq [jti : Requests, email : Emails],
         \/ pc \in {"refused", "error"}
         \/ pc = "lost" /\ req[r].pc = "answered"
         \/ pc = "insert" /\ req[r].op = "register"
         \/ pc = "answered" /\ req[r].pc = "issue"
         \/ pc = "answered" /\ req[r].pc = "decide" /\ Grants(r)
  PROVE  IndInv'
<1> DEFINE new == [req[r] EXCEPT !.pc = pc]
<1>1. req' = [req EXCEPT ![r] = new]
  BY DEF Goto
<1>2. req[r] \in Request
  BY DEF IndInv, TypeOK
<1>3. /\ new \in Request /\ new.pc = pc /\ new.op = req[r].op /\ new.email = req[r].email
      /\ new.token = req[r].token /\ new.session = req[r].session /\ new.user = req[r].user
      /\ new.dead = req[r].dead /\ new.live = req[r].live
  BY <1>2 DEF Request
<1> HIDE DEF new
<1>4. req'[r] = new
  BY <1>1 DEF IndInv, TypeOK
<1>5. RequestInv(r)
  BY DEF IndInv
<1>6. InStep(r)' /\ AccountStored(r)' /\ AccountRead(r)' /\ SessionSeen(r)'
  BY <1>3, <1>4, <1>5
     DEF RequestInv, InStep, AccountStored, AccountRead, SessionSeen, Answered, Pcs, InFlight
<1>7. DeadSeen(r)'
  BY <1>3, <1>4, <1>5 DEF RequestInv, InStep, DeadSeen, Answered, Grants
<1>8. Entitled(r)'
  BY <1>3, <1>4, <1>5 DEF RequestInv, InStep, Entitled, Answered, Grants
<1>9. LiveStored(r)'
  BY <1>3, <1>4, <1>5 DEF RequestInv, InStep, LiveStored
<1>10. RequestInv(r)'
  BY <1>6, <1>7, <1>8, <1>9 DEF RequestInv
<1>11. new.user \subseteq users'
  BY <1>3 DEF IndInv, TypeOK
<1>12. QED
  BY <1>1, <1>3, <1>10, <1>11, RequestMoves DEF IndInv, TypeOK, EmailOnce

LEMMA RegisterInsertInv ==
  ASSUME IndInv, NEW r \in Requests, RegisterInsert(r)
  PROVE  IndInv'
<1> DEFINE account == [id |-> r, email |-> req[r].email]
           new == [req[r] EXCEPT !.pc = "issue", !.user = {account}]
<1>1. /\ req[r].op = "register" /\ req[r].pc = "insert"
      /\ UNCHANGED <<name, sessions, expired, issued>>
  BY DEF RegisterInsert
<1>2. CASE UserOf(req[r].email) # {}
  <2>1. Goto(r, "error") /\ UNCHANGED users
    BY <1>2 DEF RegisterInsert
  <2>2. QED
    BY <1>1, <2>1, GotoInv DEF Pcs, IndInv, TypeOK
<1>3. CASE UserOf(req[r].email) = {}
  <2>1. users' = users \cup {account} /\ req' = [req EXCEPT ![r] = new]
    BY <1>3 DEF RegisterInsert
  <2>2. req[r] \in Request /\ RequestInv(r)
    BY DEF IndInv, TypeOK
  <2>3. account \in UserRows /\ account.email = req[r].email
    BY <1>1, <2>2 DEF UserRows, RequestInv, InStep
  <2>4. /\ new \in Request /\ new.pc = "issue" /\ new.op = "register"
        /\ new.email = req[r].email /\ new.token = req[r].token
        /\ new.session = req[r].session /\ new.user = {account}
        /\ new.dead = req[r].dead /\ new.live = req[r].live
    BY <1>1, <2>2, <2>3 DEF Request, Pcs, InFlight
  <2>5. req'[r] = new
    BY <2>1 DEF IndInv, TypeOK
  <2>6. EmailOnce'
    <3>1. \A u \in users : u.email # account.email
      BY <1>3, <2>3 DEF UserOf
    <3> HIDE DEF account
    <3>2. QED
      BY <2>1, <3>1 DEF IndInv, EmailOnce
  <2>7. RequestInv(r)'
    <3>1. InStep(r)' /\ AccountStored(r)' /\ SessionSeen(r)'
      BY <1>1, <2>1, <2>2, <2>4, <2>5
         DEF RequestInv, InStep, AccountStored, SessionSeen, Answered
    <3>2. AccountRead(r)'
      BY <2>1, <2>3, <2>4, <2>5 DEF AccountRead
    <3>3. DeadSeen(r)' /\ Entitled(r)' /\ LiveStored(r)'
      BY <1>1, <2>1, <2>2, <2>4, <2>5
         DEF RequestInv, DeadSeen, Entitled, LiveStored, Answered
    <3>4. QED
      BY <3>1, <3>2, <3>3 DEF RequestInv
  <2>8. users \subseteq users' /\ users' \subseteq UserRows /\ new.user \subseteq users'
    BY <2>1, <2>3, <2>4 DEF IndInv, TypeOK
  <2>9. req[r].pc # "done" /\ issued' \subseteq [jti : Requests, email : Emails]
    BY <1>1 DEF IndInv, TypeOK
  <2> HIDE DEF new, account
  <2>10. QED
    BY <1>1, <2>1, <2>4, <2>6, <2>7, <2>8, <2>9, RequestMoves
<1>4. QED
  BY <1>2, <1>3

LEMMA LoginInv ==
  ASSUME IndInv, NEW r \in Requests, NEW password, Login(r, password)
  PROVE  IndInv'
<1> DEFINE account == UserOf(req[r].email)
           new == [req[r] EXCEPT !.pc = "issue", !.user = account]
<1>1. /\ req[r].op = "login" /\ req[r].pc = "account"
      /\ UNCHANGED <<users, name, sessions, expired, issued>>
  BY DEF Login
<1>2. CASE req' = [req EXCEPT ![r].pc = "refused"]
  BY <1>1, <1>2, GotoInv DEF Goto, Pcs, IndInv, TypeOK
<1>3. CASE req' = [req EXCEPT ![r] = new]
  <2>1. req[r] \in Request /\ RequestInv(r)
    BY DEF IndInv, TypeOK
  <2>2. account \subseteq users /\ account \in SUBSET UserRows
    BY DEF UserOf, IndInv, TypeOK
  <2>3. /\ new \in Request /\ new.pc = "issue" /\ new.op = "login"
        /\ new.email = req[r].email /\ new.token = req[r].token
        /\ new.session = req[r].session /\ new.user = account
        /\ new.dead = req[r].dead /\ new.live = req[r].live
    BY <1>1, <2>1, <2>2 DEF Request, Pcs, InFlight
  <2>4. req'[r] = new
    BY <1>3 DEF IndInv, TypeOK
  <2>5. AccountRead(r)'
    BY <1>1, <2>2, <2>3, <2>4 DEF AccountRead, UserOf
  <2>6. RequestInv(r)'
    BY <1>1, <2>1, <2>3, <2>4, <2>5
       DEF RequestInv, InStep, AccountStored, SessionSeen, DeadSeen, Entitled, LiveStored, Answered
  <2>7. EmailOnce' /\ users' \subseteq UserRows
    BY <1>1 DEF IndInv, EmailOnce, TypeOK
  <2>8. issued' \subseteq [jti : Requests, email : Emails] /\ new.user \subseteq users'
    BY <1>1, <2>2, <2>3 DEF IndInv, TypeOK
  <2> HIDE DEF new
  <2>9. QED
    BY <1>1, <1>3, <2>3, <2>6, <2>7, <2>8, RequestMoves
<1>4. QED
  BY <1>2, <1>3 DEF Login

LEMMA ReadSessionInv ==
  ASSUME IndInv, NEW r \in Requests, ReadSession(r)
  PROVE  IndInv'
<1> DEFINE pc == IF req[r].op = "logout" THEN "answered" ELSE "user"
           seen == SessionOf(req[r].token)
           new == [req[r] EXCEPT !.session = seen, !.pc = pc]
<1>1. /\ req[r].pc = "session" /\ req' = [req EXCEPT ![r] = new]
      /\ UNCHANGED <<users, name, sessions, expired, issued>>
  BY DEF ReadSession
<1>2. req[r] \in Request /\ RequestInv(r)
  BY DEF IndInv, TypeOK
<1>3. seen \in SUBSET SessionRows
  BY DEF SessionOf, IndInv, TypeOK
<1>4. /\ new \in Request /\ new.pc = pc /\ new.op = req[r].op
      /\ new.email = req[r].email /\ new.token = req[r].token
      /\ new.session = seen /\ new.user = req[r].user
      /\ new.dead = req[r].dead /\ new.live = req[r].live
  BY <1>2, <1>3 DEF Request, Pcs, InFlight
<1>5. req'[r] = new
  BY <1>1 DEF IndInv, TypeOK
<1>6. \A s \in seen : s \in sessions /\ s.jti = req[r].token
  BY DEF SessionOf
<1>7. SessionSeen(r)'
  BY <1>1, <1>4, <1>5, <1>6 DEF SessionSeen
<1>8. DeadSeen(r)'
  <2>1. ASSUME req[r].dead
        PROVE  req[r].token \in expired \/ \A s \in seen : s.revoked
    BY <1>1, <1>2, <1>6, <2>1 DEF RequestInv, DeadSeen, IndInv, SessionOnce
  <2>2. QED
    BY <1>1, <1>2, <1>4, <1>5, <2>1 DEF RequestInv, InStep, DeadSeen, Answered
<1>9. LiveStored(r)'
  <2>1. ASSUME req[r].live PROVE seen # {}
    BY <1>2, <2>1 DEF RequestInv, LiveStored, SessionOf
  <2>2. QED
    BY <1>1, <1>2, <1>4, <1>5, <2>1 DEF RequestInv, LiveStored
<1>10. InStep(r)' /\ AccountStored(r)' /\ AccountRead(r)' /\ Entitled(r)'
  BY <1>1, <1>2, <1>4, <1>5
     DEF RequestInv, InStep, AccountStored, AccountRead, Entitled, Answered
<1>11. RequestInv(r)'
  BY <1>7, <1>8, <1>9, <1>10 DEF RequestInv
<1>12. EmailOnce' /\ users' \subseteq UserRows /\ new.user \subseteq users'
  BY <1>1, <1>4 DEF IndInv, EmailOnce, TypeOK
<1>13. issued' \subseteq [jti : Requests, email : Emails]
  BY <1>1 DEF IndInv, TypeOK
<1> HIDE DEF new, pc, seen
<1>14. QED
  BY <1>1, <1>4, <1>11, <1>12, <1>13, RequestMoves

LEMMA ReadUserInv ==
  ASSUME IndInv, NEW r \in Requests, ReadUser(r)
  PROVE  IndInv'
<1> DEFINE account == UserOf(req[r].email)
           new == [req[r] EXCEPT !.user = account, !.pc = "decide"]
<1>1. /\ req[r].pc = "user" /\ req' = [req EXCEPT ![r] = new]
      /\ UNCHANGED <<users, name, sessions, expired, issued>>
  BY DEF ReadUser
<1>2. req[r] \in Request /\ RequestInv(r)
  BY DEF IndInv, TypeOK
<1>3. account \subseteq users /\ account \in SUBSET UserRows
  BY DEF UserOf, IndInv, TypeOK
<1>4. /\ new \in Request /\ new.pc = "decide" /\ new.op = req[r].op
      /\ new.email = req[r].email /\ new.token = req[r].token
      /\ new.session = req[r].session /\ new.user = account
      /\ new.dead = req[r].dead /\ new.live = req[r].live
  BY <1>2, <1>3 DEF Request, Pcs, InFlight
<1>5. req'[r] = new
  BY <1>1 DEF IndInv, TypeOK
<1>6. AccountRead(r)'
  BY <1>1, <1>3, <1>4, <1>5 DEF AccountRead, UserOf
<1>7. RequestInv(r)'
  BY <1>1, <1>2, <1>4, <1>5, <1>6
     DEF RequestInv, InStep, AccountStored, SessionSeen, DeadSeen, Entitled, LiveStored, Answered
<1>8. EmailOnce' /\ users' \subseteq UserRows /\ new.user \subseteq users'
  BY <1>1, <1>3, <1>4 DEF IndInv, EmailOnce, TypeOK
<1>9. issued' \subseteq [jti : Requests, email : Emails]
  BY <1>1 DEF IndInv, TypeOK
<1> HIDE DEF new, account
<1>10. QED
  BY <1>1, <1>4, <1>7, <1>8, <1>9, RequestMoves

(* What a commit makes of the sessions.                                    *)
LEMMA CommittedSessions ==
  ASSUME IndInv, NEW r \in Requests, req[r].pc = "answered", sessions' = Sessions(r),
         UNCHANGED <<users, expired>>
  PROVE  /\ sessions' \subseteq SessionRows /\ Grown /\ SessionOnce'
         /\ \A t \in sessions' : \/ \E s \in sessions : s.jti = t.jti
                                 \/ t.jti = r /\ req[r].op \in {"register", "login"}
<1>1. req[r] \in Request /\ RequestInv(r) /\ sessions \subseteq SessionRows
  BY DEF IndInv, TypeOK
<1>2. \A s \in sessions : s.jti # r
  BY DEF IndInv, SessionCommitted
<1>3. CASE req[r].op \in {"register", "login"}
  <2> DEFINE fresh == {[jti |-> r, user |-> u.id, revoked |-> FALSE] : u \in req[r].user}
  <2>1. sessions' = sessions \cup fresh
    BY <1>3 DEF Sessions
  <2>2. \A t \in fresh : t \in SessionRows /\ t.jti = r
    <3> SUFFICES ASSUME NEW u \in req[r].user
                 PROVE  [jti |-> r, user |-> u.id, revoked |-> FALSE] \in SessionRows
      OBVIOUS
    <3>1. u.id \in Requests
      BY <1>1 DEF Request, UserRows
    <3>2. QED
      BY <3>1 DEF SessionRows
  <2>3. \A s, t \in fresh : s = t
    <3>1. \A u, v \in req[r].user : u = v
      BY <1>1 DEF IndInv, EmailOnce, RequestInv, AccountRead
    <3>2. QED
      BY <3>1
  <2> HIDE DEF fresh
  <2>4. SessionOnce'
    BY <1>2, <2>1, <2>2, <2>3 DEF IndInv, SessionOnce
  <2>5. Grown
    BY <1>2, <2>1, <2>2 DEF Grown
  <2>6. QED
    BY <1>1, <1>3, <2>1, <2>2, <2>4, <2>5
<1>4. CASE req[r].op = "logout"
  <2> DEFINE seen == req[r].session
             dead == {[s EXCEPT !.revoked = TRUE] : s \in seen}
  <2>1. sessions' = (sessions \ seen) \cup dead
    BY <1>4 DEF Sessions
  <2>2. seen \subseteq SessionRows
    BY <1>1 DEF Request
  <2>3. \A t \in dead : /\ t \in SessionRows /\ t.revoked
                        /\ \E s \in seen : s.jti = t.jti /\ s.user = t.user
    BY <2>2 DEF SessionRows
  <2>4. \A s \in seen : \E t \in dead : t.jti = s.jti /\ t.user = s.user /\ t.revoked
    <3> SUFFICES ASSUME NEW s \in seen
                 PROVE  \E t \in dead : t.jti = s.jti /\ t.user = s.user /\ t.revoked
      OBVIOUS
    <3>1. [s EXCEPT !.revoked = TRUE] \in dead
      OBVIOUS
    <3>2. /\ [s EXCEPT !.revoked = TRUE].jti = s.jti
          /\ [s EXCEPT !.revoked = TRUE].user = s.user
          /\ [s EXCEPT !.revoked = TRUE].revoked
      BY <2>2 DEF SessionRows
    <3> HIDE DEF dead
    <3>3. QED
      BY <3>1, <3>2
  <2>5. \A s \in seen : \E t \in sessions : t.jti = s.jti /\ t.user = s.user
    BY <1>1 DEF RequestInv, SessionSeen
  <2>6. \A s \in seen, t \in sessions : s.jti = t.jti => s = t \/ t.revoked
    <3> SUFFICES ASSUME NEW s \in seen, NEW t \in sessions, s.jti = t.jti, ~t.revoked
                 PROVE  s = t
      OBVIOUS
    <3>1. t.user = s.user /\ (s.revoked => t.revoked)
      BY <1>1 DEF RequestInv, SessionSeen, IndInv, SessionOnce
    <3>2. s \in SessionRows /\ t \in SessionRows
      BY <1>1, <2>2
    <3>3. QED
      BY <3>1, <3>2 DEF SessionRows
  <2>7. \A s \in seen, t \in sessions : s.jti = t.jti => s.user = t.user
    BY <2>5 DEF IndInv, SessionOnce
  <2> HIDE DEF seen, dead
  <2>8. \A t \in dead : \E s \in sessions : s.jti = t.jti /\ s.user = t.user
    BY <2>3, <2>5
  <2>9. \A t \in sessions' : \E s \in sessions :
          s.jti = t.jti /\ s.user = t.user /\ (s.revoked => t.revoked)
    BY <2>1, <2>3, <2>8
  <2>10. \A s \in sessions : \E t \in sessions' :
           t.jti = s.jti /\ t.user = s.user /\ (s.revoked => t.revoked)
    BY <2>1, <2>4
  <2>11. \A s \in sessions \ seen, t \in dead : s.jti = t.jti => s = t
    <3> SUFFICES ASSUME NEW s \in sessions \ seen, NEW t \in dead, s.jti = t.jti
                 PROVE  s = t
      OBVIOUS
    <3>1. PICK q \in seen : q.jti = t.jti /\ q.user = t.user
      BY <2>3
    <3>2. s.revoked /\ s.user = t.user
      BY <2>6, <2>7, <3>1
    <3>3. t.revoked
      BY <2>3
    <3>4. s \in SessionRows /\ t \in SessionRows
      BY <1>1, <2>3
    <3>5. QED
      BY <3>2, <3>3, <3>4 DEF SessionRows
  <2>12. \A s, t \in dead : s.jti = t.jti => s = t
    <3> SUFFICES ASSUME NEW s \in dead, NEW t \in dead, s.jti = t.jti PROVE s = t
      OBVIOUS
    <3>1. s.user = t.user
      BY <2>8 DEF IndInv, SessionOnce
    <3>2. s \in SessionRows /\ t \in SessionRows /\ s.revoked /\ t.revoked
      BY <2>3
    <3>3. QED
      BY <3>1, <3>2 DEF SessionRows
  <2>13. SessionOnce'
    BY <2>1, <2>11, <2>12 DEF IndInv, SessionOnce
  <2>14. sessions' \subseteq SessionRows
    BY <1>1, <2>1, <2>3
  <2>15. Grown
    BY <2>9, <2>10 DEF Grown
  <2>16. QED
    BY <2>9, <2>13, <2>14, <2>15
<1>5. CASE req[r].op \notin {"register", "login", "logout"}
  <2>1. sessions' = sessions
    BY <1>5 DEF Sessions
  <2>2. QED
    BY <1>1, <2>1 DEF Grown, IndInv, SessionOnce
<1>6. QED
  BY <1>3, <1>4, <1>5

LEMMA CommitInv ==
  ASSUME IndInv, NEW r \in Requests, Commit(r)
  PROVE  IndInv'
<1> DEFINE new == [req[r] EXCEPT !.pc = "done"]
<1>1. /\ req[r].pc = "answered" /\ sessions' = Sessions(r) /\ req' = [req EXCEPT ![r] = new]
      /\ UNCHANGED <<users, expired, issued>>
  BY DEF Commit, Goto
<1>2. req[r] \in Request /\ RequestInv(r)
  BY DEF IndInv, TypeOK
<1>3. /\ new \in Request /\ new.pc = "done" /\ new.op = req[r].op
      /\ new.email = req[r].email /\ new.token = req[r].token
      /\ new.session = req[r].session /\ new.user = req[r].user
      /\ new.dead = req[r].dead /\ new.live = req[r].live
  BY <1>2 DEF Request, Pcs
<1> HIDE DEF new
<1>4. req'[r] = new /\ \A q \in Requests : q # r => req'[q] = req[q]
  BY <1>1 DEF IndInv, TypeOK
<1>5. /\ sessions' \subseteq SessionRows /\ Grown /\ SessionOnce'
      /\ \A t \in sessions' : \/ \E s \in sessions : s.jti = t.jti
                              \/ t.jti = r /\ req[r].op \in {"register", "login"}
  BY <1>1, CommittedSessions
<1>6. SessionCommitted'
  <2> SUFFICES ASSUME NEW t \in sessions'
               PROVE  req'[t.jti].pc = "done" /\ req'[t.jti].op \in {"register", "login"}
    BY DEF SessionCommitted
  <2>1. CASE \E s \in sessions : s.jti = t.jti
    <3>1. req[t.jti].pc = "done" /\ req[t.jti].op \in {"register", "login"}
      BY <2>1 DEF IndInv, SessionCommitted
    <3>2. t.jti # r /\ t.jti \in Requests
      BY <1>1, <1>5, <3>1 DEF SessionRows
    <3>3. QED
      BY <1>4, <3>1, <3>2
  <2>2. CASE t.jti = r /\ req[r].op \in {"register", "login"}
    BY <1>3, <1>4, <2>2
  <2>3. QED
    BY <1>5, <2>1, <2>2
<1>7. RequestInv(r)'
  <2>1. InStep(r)' /\ AccountStored(r)' /\ AccountRead(r)' /\ Entitled(r)' /\ DeadSeen(r)'
    BY <1>1, <1>2, <1>3, <1>4
       DEF RequestInv, InStep, AccountStored, AccountRead, Entitled, DeadSeen, Answered
  <2>2. SessionSeen(r)'
    BY <1>2, <1>3, <1>4, <1>5 DEF RequestInv, SessionSeen, Grown
  <2>3. LiveStored(r)'
    <3> SUFFICES ASSUME req[r].live PROVE LiveStored(r)'
      BY <1>3, <1>4 DEF LiveStored
    <3>1. PICK s \in sessions : s.jti = req[r].token
      BY <1>2 DEF RequestInv, LiveStored
    <3>2. \E t \in sessions' : t.jti = req[r].token
      BY <1>5, <3>1 DEF Grown
    <3>3. ASSUME req[r].op = "logout", NEW t \in sessions', t.jti = req[r].token
          PROVE  t.revoked
      <4>1. PICK q \in req[r].session : TRUE
        BY <1>1, <1>2, <3>3 DEF RequestInv, LiveStored
      <4>2. q.jti = req[r].token /\ q \in SessionRows
        BY <1>2 DEF RequestInv, SessionSeen, Request
      <4>3. [q EXCEPT !.revoked = TRUE] \in sessions'
        BY <1>1, <3>3 DEF Sessions
      <4>4. [q EXCEPT !.revoked = TRUE].jti = t.jti /\ [q EXCEPT !.revoked = TRUE].revoked
        BY <3>3, <4>2 DEF SessionRows
      <4>5. t = [q EXCEPT !.revoked = TRUE]
        BY <1>5, <4>3, <4>4 DEF SessionOnce
      <4>6. QED
        BY <4>4, <4>5
    <3>4. QED
      BY <1>3, <1>4, <3>2, <3>3 DEF LiveStored
  <2>4. QED
    BY <2>1, <2>2, <2>3 DEF RequestInv
<1>8. \A q \in Requests : RequestInv(q)'
  <2>1. ASSUME NEW q \in Requests, q # r PROVE RequestInv(q)'
    BY <1>4, <1>5, <2>1, OthersKeep DEF IndInv
  <2>2. QED
    BY <1>7, <2>1
<1>9. name' \in [Requests -> Requests \cup {"none"}]
  <2>1. CASE req[r].op = "patch"
    BY <2>1 DEF Commit, IndInv, TypeOK
  <2>2. CASE req[r].op # "patch"
    BY <2>2 DEF Commit, IndInv, TypeOK
  <2>3. QED
    BY <2>1, <2>2
<1>10. TypeOK'
  <2>1. req' \in [Requests -> Request]
    BY <1>1, <1>3 DEF IndInv, TypeOK
  <2>2. \A q \in Requests : req'[q].user \subseteq users'
    BY <1>1, <1>3, <1>4 DEF IndInv, TypeOK
  <2>3. QED
    BY <1>1, <1>5, <1>9, <2>1, <2>2 DEF IndInv, TypeOK
<1>11. NameChosen'
  <2> SUFFICES ASSUME NEW u \in Requests, name'[u] # "none"
               PROVE  /\ req'[name'[u]].op = "patch" /\ req'[name'[u]].pc = "done"
                      /\ \E s \in req'[name'[u]].session : s.user = u
    BY DEF NameChosen
  <2>1. CASE name'[u] = name[u]
    <3>1. /\ req[name[u]].op = "patch" /\ req[name[u]].pc = "done"
          /\ \E s \in req[name[u]].session : s.user = u
      BY <2>1 DEF IndInv, NameChosen
    <3>2. name[u] # r /\ name[u] \in Requests
      BY <1>1, <2>1, <3>1 DEF IndInv, TypeOK
    <3>3. QED
      BY <1>4, <2>1, <3>1, <3>2
  <2>2. CASE name'[u] # name[u]
    <3>1. req[r].op = "patch" /\ name'[u] = r /\ \E v \in req[r].user : v.id = u
      BY <2>2 DEF Commit
    <3>2. PICK s \in req[r].session, w \in req[r].user : s.user = w.id
      BY <1>1, <1>2, <3>1 DEF RequestInv, Entitled, Answered
    <3>3. w.id = u
      BY <1>2, <3>1 DEF RequestInv, AccountRead, IndInv, EmailOnce
    <3>4. QED
      BY <1>3, <1>4, <3>1, <3>2, <3>3
  <2>3. QED
    BY <2>1, <2>2
<1>12. EmailOnce'
  BY <1>1 DEF IndInv, EmailOnce
<1>13. QED
  BY <1>5, <1>6, <1>8, <1>10, <1>11, <1>12 DEF IndInv

LEMMA ExpireInv ==
  ASSUME IndInv, NEW token \in issued, Expire(token)
  PROVE  IndInv'
<1>1. /\ expired' = expired \cup {token.jti} /\ token.jti \in Requests
      /\ UNCHANGED <<users, name, sessions, issued, req>>
  BY DEF Expire, IndInv, TypeOK
<1>2. Grown
  BY <1>1 DEF Grown
<1>3. ASSUME NEW q \in Requests PROVE RequestInv(q)'
  BY <1>1, <1>2, OthersKeep DEF IndInv
<1>4. TypeOK' /\ EmailOnce' /\ SessionOnce' /\ SessionCommitted' /\ NameChosen'
  BY <1>1 DEF IndInv, TypeOK, EmailOnce, SessionOnce, SessionCommitted, NameChosen
<1>5. QED
  BY <1>3, <1>4 DEF IndInv

LEMMA NextInv == IndInv /\ [Next]_vars => IndInv'
<1> SUFFICES ASSUME IndInv, [Next]_vars PROVE IndInv'
  OBVIOUS
<1> USE DEF Pcs, InFlight
<1>1. ASSUME NEW r \in Requests, NEW op \in {"register", "login"}, NEW email \in Emails,
             StartAccount(r, op, email)
      PROVE  IndInv'
  BY <1>1, StartAccountInv
<1>2. ASSUME NEW r \in Requests, NEW op \in {"logout", "profile", "patch"},
             NEW token \in issued, StartToken(r, op, token)
      PROVE  IndInv'
  BY <1>2, StartTokenInv
<1>3. issued \subseteq [jti : Requests, email : Emails]
  BY DEF IndInv, TypeOK
<1>4. ASSUME NEW r \in Requests, RegisterCheck(r) PROVE IndInv'
  <2>1. CASE Goto(r, "refused")
    BY <1>3, <1>4, <2>1, GotoInv DEF RegisterCheck
  <2>2. CASE Goto(r, "insert")
    BY <1>3, <1>4, <2>2, GotoInv DEF RegisterCheck
  <2>3. QED
    BY <1>4, <2>1, <2>2 DEF RegisterCheck
<1>5. ASSUME NEW r \in Requests, RegisterInsert(r) PROVE IndInv'
  BY <1>5, RegisterInsertInv
<1>6. ASSUME NEW r \in Requests, NEW password \in {"right", "wrong"}, Login(r, password)
      PROVE  IndInv'
  BY <1>6, LoginInv
<1>7. ASSUME NEW r \in Requests, Issue(r) PROVE IndInv'
  <2>1. req[r] \in Request /\ RequestInv(r)
    BY DEF IndInv, TypeOK
  <2>2. req[r].email \in Emails
    BY <1>7, <2>1 DEF Issue, RequestInv, InStep
  <2>3. issued' \subseteq [jti : Requests, email : Emails]
    BY <1>3, <1>7, <2>2 DEF Issue
  <2>4. QED
    BY <1>7, <2>3, GotoInv DEF Issue
<1>8. ASSUME NEW r \in Requests, ReadSession(r) PROVE IndInv'
  BY <1>8, ReadSessionInv
<1>9. ASSUME NEW r \in Requests, ReadUser(r) PROVE IndInv'
  BY <1>9, ReadUserInv
<1>10. ASSUME NEW r \in Requests, Decide(r) PROVE IndInv'
  <2>1. CASE Grants(r) /\ Goto(r, "answered")
    BY <1>3, <1>10, <2>1, GotoInv DEF Decide
  <2>2. CASE Goto(r, "refused")
    BY <1>3, <1>10, <2>2, GotoInv DEF Decide
  <2>3. QED
    BY <1>10, <2>1, <2>2 DEF Decide
<1>11. ASSUME NEW r \in Requests, Commit(r) PROVE IndInv'
  BY <1>11, CommitInv
<1>12. ASSUME NEW r \in Requests, Fail(r) PROVE IndInv'
  <2>1. CASE req[r].pc = "answered" /\ Goto(r, "lost")
    BY <1>3, <1>12, <2>1, GotoInv DEF Fail
  <2>2. CASE Goto(r, "error")
    BY <1>3, <1>12, <2>2, GotoInv DEF Fail
  <2>3. QED
    BY <1>12, <2>1, <2>2 DEF Fail
<1>13. ASSUME NEW token \in issued, Expire(token) PROVE IndInv'
  BY <1>13, ExpireInv
<1>14. CASE UNCHANGED vars
  <2>1. Grown
    BY <1>14 DEF vars, Grown
  <2>2. ASSUME NEW q \in Requests PROVE RequestInv(q)'
    BY <1>14, <2>1, OthersKeep DEF IndInv, vars
  <2>3. TypeOK' /\ EmailOnce' /\ SessionOnce' /\ SessionCommitted' /\ NameChosen'
    BY <1>14 DEF vars, IndInv, TypeOK, EmailOnce, SessionOnce, SessionCommitted, NameChosen
  <2>4. QED
    BY <2>2, <2>3 DEF IndInv
<1>15. QED
  BY <1>1, <1>2, <1>4, <1>5, <1>6, <1>7, <1>8, <1>9, <1>10, <1>11, <1>12, <1>13, <1>14
     DEF Next, RequestStep

(* The inductive invariant holds however the requests interleave and fail. *)
THEOREM Invariance == Spec => []IndInv
<1>1. QED
  BY InitInv, NextInv, PTL DEF Spec

(* Type correctness; a request never holds an account that is not stored.  *)
THEOREM TypeCorrect == Spec => []TypeOK
<1>1. IndInv => TypeOK
  BY DEF IndInv
<1>2. QED
  BY <1>1, Invariance, PTL

(* However registrations race, one token is answered for an e-mail.        *)
THEOREM OneRegistration == Spec => []RegisteredOnce
<1>1. ASSUME IndInv PROVE RegisteredOnce
  <2> SUFFICES ASSUME NEW q \in Requests, NEW r \in Requests,
                      req[q].op = "register", Answered(q), req[r].op = "register", Answered(r),
                      req[q].email = req[r].email
               PROVE  q = r
    BY DEF RegisteredOnce
  <2>1. /\ [id |-> q, email |-> req[q].email] \in users
        /\ [id |-> r, email |-> req[r].email] \in users
    BY <1>1 DEF IndInv, RequestInv, AccountStored
  <2>2. [id |-> q, email |-> req[q].email] = [id |-> r, email |-> req[r].email]
    BY <1>1, <2>1 DEF IndInv, EmailOnce
  <2>3. QED
    BY <2>2
<1>2. QED
  BY <1>1, Invariance, PTL

(* A dead token opens nothing, and a live one only its own account.        *)
THEOREM DeadTokensRefused == Spec => []AcceptedWasLive
<1>1. ASSUME IndInv PROVE AcceptedWasLive
  <2>1. ASSUME NEW r \in Requests, req[r].op \in {"profile", "patch"}, Answered(r)
        PROVE  ~req[r].dead
    BY <1>1, <2>1 DEF IndInv, RequestInv, DeadSeen
  <2>2. ASSUME NEW u \in Requests, name[u] # "none"
        PROVE  /\ req[name[u]].op = "patch" /\ Answered(name[u])
               /\ \E s \in req[name[u]].session : s.user = u
    BY <1>1, <2>2 DEF IndInv, NameChosen, Answered
  <2>3. QED
    BY <2>1, <2>2 DEF AcceptedWasLive
<1>2. QED
  BY <1>1, Invariance, PTL

(* A logout that found a live session has revoked it for good.             *)
THEOREM LogoutsRevoke == Spec => []LogoutRevokes
<1>1. IndInv => LogoutRevokes
  BY DEF IndInv, RequestInv, LiveStored, LogoutRevokes, SessionOf
<1>2. QED
  BY <1>1, Invariance, PTL
=============================================================================
