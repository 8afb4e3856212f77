--------------------------- MODULE AccountsProofs ---------------------------
(***************************************************************************)
(* Machine-checked proofs about Accounts, for every set of requests, roles *)
(* and names and every bound: type correctness, that an administrator      *)
(* remains, and that valid sessions are current.  The first and the last   *)
(* are inductive as they stand; the second needs to be known of each       *)
(* request that has read its target: until the request changes it, there   *)
(* is an administrator other than the target (AdminsOK).                   *)
(***************************************************************************)
EXTENDS Accounts, TLAPS

ConnOK == conn \in [Conn -> [stage : {"none", "ticket", "open"}, user : User, sess : 0..MaxSessions]]

-----------------------------------------------------------------------------
(* The tables and the requests.                                            *)

LEMMA ConstantsOK ==
    /\ MaxUsers \in Nat /\ MaxSessions \in Nat /\ MaxChanges \in Nat
    /\ 1 \in User /\ 0 \in Password /\ "admin" \in Roles /\ Founders \in 1..MaxUsers
  BY AccountsAssumption DEF User, Password

LEMMA AskingOK ==
    ASSUME NEW op \in Ops, NEW u \in User, NEW s \in 0..MaxSessions
    PROVE  Asking(op, u, s) \in Ask
  BY ConstantsOK DEF Asking, Ask

LEMMA OneIsUsed == TablesOK => 1 < nextUser
  BY ConstantsOK DEF TablesOK

LEMMA FounderOK == Founder \in Account /\ NoAsk \in Ask
  BY ConstantsOK, AskingOK DEF Founder, Account, NoAsk, Ops

\* An answered request is idle, and the others are as they were.
LEMMA AnswerOK ==
    ASSUME NEW r \in Request, TablesOK, RequestsOK, Answer(r),
           nextSession' \in {nextSession, nextSession + 1}, nextUser' \in {nextUser, nextUser + 1}
    PROVE  RequestsOK'
<1>1. \A q \in Request \ {r} : saved'[q] = saved[q] /\ pc'[q] = pc[q] /\ ask'[q] = ask[q]
  BY DEF RequestsOK, Answer
<1>2. pc' \in [Request -> Steps] /\ ask' \in [Request -> Ask] /\ seen' \in [Request -> Account]
  BY FounderOK DEF RequestsOK, Answer, Steps
<1>3. DOMAIN NoRows = {} /\ NoAsk.target = 1
  BY DEF NoRows, NoAsk, Asking
<1>4. nextUser \in Nat /\ nextSession \in Nat /\ 1 < nextUser
  BY ConstantsOK DEF TablesOK
<1>5. \A q \in Request : ask[q].target \in Int
  BY ConstantsOK DEF RequestsOK, Ask, User
<1>6. DOMAIN saved' = Request /\ pc'[r] = "idle" /\ ask'[r].target = 1 /\ DOMAIN saved'[r] = {}
  BY <1>3 DEF RequestsOK, Answer
<1>7. \A q \in Request : ask'[q].target < nextUser'
  BY <1>1, <1>4, <1>5, <1>6 DEF RequestsOK
<1>8. \A q \in Request : DOMAIN saved'[q] \subseteq
          (IF pc'[q] \in {"remove", "helper"} THEN 1..(nextSession' - 1) ELSE {})
  BY <1>1, <1>4, <1>6 DEF RequestsOK
<1> QED BY <1>1, <1>2, <1>6, <1>7, <1>8 DEF RequestsOK

\* A request is answered in a step that keeps the tables right.
LEMMA AnsweredOK ==
    ASSUME TypeOK, NEW r \in Request, Answer(r), TablesOK', UNCHANGED <<nextSession, conn>>,
           nextUser' \in {nextUser, nextUser + 1},
           overlapped' \in BOOLEAN
    PROVE  TypeOK'
<1>1. RequestsOK'
  BY AnswerOK DEF TypeOK
<1> QED BY <1>1 DEF TypeOK

\* A request that goes on before it has read any sessions.
LEMMA GoOK ==
    ASSUME NEW r \in Request, NEW next \in Steps \ {"remove", "helper"}, RequestsOK, Go(r, next),
           pc[r] \notin {"remove", "helper"}, UNCHANGED <<saved, nextUser, nextSession>>,
           seen' \in [Request -> Account], ask' \in [Request -> Ask],
           \A q \in Request \ {r} : ask'[q] = ask[q], ask'[r].target < nextUser
    PROVE  RequestsOK'
<1>1. \A q \in Request \ {r} : pc'[q] = pc[q] /\ ask'[q] = ask[q] /\ saved'[q] = saved[q]
  BY DEF RequestsOK, Go
<1>2. pc' \in [Request -> Steps] /\ pc'[r] = next
  BY DEF RequestsOK, Go
<1>3. DOMAIN saved[r] = {} /\ saved'[r] = saved[r]
  BY DEF RequestsOK
<1> QED BY <1>1, <1>2, <1>3 DEF RequestsOK

LEMMA InitTypeOK == Init => TypeOK
<1> SUFFICES ASSUME Init PROVE TypeOK
  OBVIOUS
<1>1. TablesOK
  BY AccountsAssumption, ConstantsOK, FounderOK DEF Init, TablesOK, NoRows, User, Password
<1>2. RequestsOK
  BY FounderOK, ConstantsOK DEF Init, RequestsOK, NoRows, NoAsk, Asking, Steps
<1>3. NoConn \in [stage : {"none", "ticket", "open"}, user : User, sess : 0..MaxSessions]
  BY ConstantsOK DEF NoConn
<1>4. ConnOK /\ overlapped \in BOOLEAN
  BY <1>3 DEF Init, ConnOK
<1> QED BY <1>1, <1>2, <1>4 DEF TypeOK, ConnOK

\* Revoking sessions keeps everything else of them.
LEMMA RevokedOK ==
    ASSUME TablesOK, NEW u, NEW keep
    PROVE  /\ DOMAIN Revoked(u, keep) = DOMAIN sessions
           /\ \A s \in DOMAIN sessions :
                 /\ Revoked(u, keep)[s] \in WebSession
                 /\ Revoked(u, keep)[s].user = sessions[s].user
                 /\ Revoked(u, keep)[s].gen = sessions[s].gen
                 /\ Revoked(u, keep)[s].excused = sessions[s].excused
                 /\ sessions[s].revoked => Revoked(u, keep)[s].revoked
                 /\ sessions[s].user = u /\ s \notin keep => Revoked(u, keep)[s].revoked
  BY DEF Revoked, TablesOK, WebSession

LEMMA AuthorizeOK ==
    ASSUME TypeOK, NEW r \in Request, Authorize(r)
    PROVE  TypeOK'
<1>1. PICK s \in DOMAIN sessions, op \in Ops \ {"login"} :
        /\ Here(sessions[s].user)
        /\ ask' = [ask EXCEPT ![r] =
                     Asking(op, IF op \in {"create", "reset", "terminate"} THEN 1 ELSE sessions[s].user,
                                IF op \in AdminOps THEN 0 ELSE s)]
        /\ Go(r, IF op \in {"update", "delete", "terminate"} THEN "find" ELSE op)
  BY DEF Authorize
<1> DEFINE next == IF op \in {"update", "delete", "terminate"} THEN "find" ELSE op
<1>2. next \in Steps \ {"remove", "helper"}
  BY DEF Ops, AdminOps, OwnOps, Steps
<1>3. s \in Session /\ sessions[s].user \in User
  BY <1>1, ConstantsOK DEF TypeOK, TablesOK, WebSession, Session
<1>4. ask' \in [Request -> Ask] /\ \A q \in Request \ {r} : ask'[q] = ask[q]
  BY <1>1, <1>3, AskingOK, ConstantsOK DEF TypeOK, RequestsOK, Session
<1>5. RequestsOK'
  <2>1. ask'[r].target < nextUser
    BY <1>1, OneIsUsed DEF TypeOK, RequestsOK, Asking
  <2> QED BY <1>1, <1>2, <1>4, <2>1, GoOK DEF TypeOK, RequestsOK, Authorize, counters
<1> QED BY <1>5 DEF TypeOK, TablesOK, Authorize, tables, counters, Here

LEMMA AbandonOK ==
    ASSUME TypeOK, NEW r \in Request, Abandon(r) \/ HelperSucceeds(r)
    PROVE  TypeOK'
  BY AnswerOK DEF TypeOK, TablesOK, Abandon, HelperSucceeds, tables, counters, Here

LEMMA LoginVerifyOK ==
    ASSUME TypeOK, NEW r \in Request, LoginVerify(r)
    PROVE  TypeOK'
<1>1. PICK u \in DOMAIN users :
        /\ ask' = [ask EXCEPT ![r] = Asking("login", u, 0)]
        /\ seen' = [seen EXCEPT ![r].pw = users[u].pw]
  BY DEF LoginVerify
<1>2. u \in User /\ users[u].pw \in Password
  BY ConstantsOK DEF TypeOK, TablesOK, Account, User
<1>3. Asking("login", u, 0) \in Ask
  BY <1>2, AskingOK, ConstantsOK DEF Ops
<1>4. ask' \in [Request -> Ask] /\ \A q \in Request \ {r} : ask'[q] = ask[q]
  BY <1>1, <1>3 DEF TypeOK, RequestsOK
<1>5. seen' \in [Request -> Account]
  BY <1>1, <1>2 DEF TypeOK, RequestsOK, Account
<1>6. "login" \in Steps \ {"remove", "helper"}
  BY DEF Steps
<1>7. RequestsOK'
  <2>1. ask'[r].target < nextUser
    BY <1>1, OneIsUsed DEF TypeOK, RequestsOK, Asking
  <2> QED BY <1>4, <1>5, <1>6, <2>1, GoOK DEF TypeOK, LoginVerify, counters
<1> QED BY <1>7 DEF TypeOK, TablesOK, LoginVerify, tables, counters, Here

LEMMA LoginInsertOK ==
    ASSUME TypeOK, NEW r \in Request, LoginInsert(r)
    PROVE  TypeOK'
<1> USE ConstantsOK
<1>1. RequestsOK'
  BY AnswerOK DEF TypeOK, TablesOK, LoginInsert, Session
<1>2. TablesOK'
  <2>1. CASE ~Here(ask[r].actor)
    BY <2>1 DEF TypeOK, TablesOK, LoginInsert, Here
  <2>2. CASE Here(ask[r].actor)
    <3> DEFINE u == ask[r].actor
               row == [user |-> u, revoked |-> FALSE, gen |-> seen[r].pw,
                       excused |-> ~(users[u].active /\ users[u].pw = seen[r].pw)]
    <3>1. row \in WebSession /\ row.user = u
      BY DEF TypeOK, RequestsOK, Ask, Account, WebSession
    <3>2. nextSession \in Session /\ nextSession' = nextSession + 1
          /\ sessions' = With(sessions, nextSession, row)
      BY <2>2 DEF LoginInsert
    <3> HIDE DEF row
    <3>3. DOMAIN sessions' = DOMAIN sessions \cup {nextSession}
      BY <3>2 DEF With
    <3>4. sessions'[nextSession] = row
      BY <3>2 DEF With
    <3>5. \A s \in DOMAIN sessions : s # nextSession /\ sessions'[s] = sessions[s]
      BY <3>2 DEF With, TypeOK, TablesOK
    <3>6. UNCHANGED <<users, nextUser, changes>>
      BY DEF LoginInsert
    <3>7. \A s \in DOMAIN sessions' : sessions'[s] \in WebSession /\ Here(sessions'[s].user)
      BY <3>1, <3>3, <3>4, <3>5, <2>2 DEF TypeOK, TablesOK
    <3>8. nextSession' \in 1..(MaxSessions + 1) /\ DOMAIN sessions' \subseteq 1..(nextSession' - 1)
      BY <3>2, <3>3 DEF TypeOK, TablesOK, Session
    <3> QED BY <3>6, <3>7, <3>8 DEF TypeOK, TablesOK, Here
  <2> QED BY <2>1, <2>2
<1> QED BY <1>1, <1>2 DEF TypeOK, LoginInsert

\* The row of user u gets a new password.
LEMMA ChangedOK ==
    ASSUME TablesOK, NEW u \in DOMAIN users, NEW must \in BOOLEAN, changes < MaxChanges
    PROVE  /\ DOMAIN Changed(u, must) = DOMAIN users
           /\ \A v \in DOMAIN users : Changed(u, must)[v] \in Account
           /\ \A v \in DOMAIN users \ {u} : Changed(u, must)[v] = users[v]
           /\ Changed(u, must)[u].role = users[u].role
           /\ Changed(u, must)[u].active = users[u].active
           /\ Changed(u, must)[u].pw = changes + 1
  BY ConstantsOK DEF Changed, TablesOK, Account, Password

\* No row comes or goes, and every session keeps its user.
LEMMA RowsOK ==
    ASSUME TablesOK, DOMAIN users' = DOMAIN users, \A u \in DOMAIN users : users'[u] \in Account,
           DOMAIN sessions' = DOMAIN sessions,
           \A s \in DOMAIN sessions :
               sessions'[s] \in WebSession /\ sessions'[s].user = sessions[s].user,
           UNCHANGED <<nextUser, nextSession>>, changes' \in Password
    PROVE  TablesOK'
  BY DEF TablesOK, Here

LEMMA ChangePasswordOK ==
    ASSUME TypeOK, NEW r \in Request, ChangePassword(r)
    PROVE  TypeOK'
<1> DEFINE u == ask[r].actor
           own == ask[r].sess
<1>1. /\ u \in DOMAIN users /\ changes < MaxChanges /\ changes' = changes + 1
      /\ users' = Changed(u, FALSE)
      /\ sessions' = [s \in DOMAIN sessions |->
                  IF s = own /\ sessions[s].user = u THEN [sessions[s] EXCEPT !.gen = changes + 1]
                  ELSE Revoked(u, {own})[s]]
  BY DEF ChangePassword, Here
<1>2. changes' \in Password /\ changes + 1 \in Password
  BY <1>1, ConstantsOK DEF TypeOK, TablesOK, Password
<1>3. DOMAIN users' = DOMAIN users /\ \A v \in DOMAIN users : users'[v] \in Account
  BY <1>1, ChangedOK DEF TypeOK
<1>4. \A s \in DOMAIN sessions :
        /\ Revoked(u, {own})[s] \in WebSession /\ Revoked(u, {own})[s].user = sessions[s].user
        /\ [sessions[s] EXCEPT !.gen = changes + 1] \in WebSession
        /\ [sessions[s] EXCEPT !.gen = changes + 1].user = sessions[s].user
  BY <1>2, RevokedOK DEF TypeOK, TablesOK, WebSession
<1>5. DOMAIN sessions' = DOMAIN sessions
      /\ \A s \in DOMAIN sessions : sessions'[s] \in WebSession /\ sessions'[s].user = sessions[s].user
  BY <1>1, <1>4
<1>6. TablesOK'
  BY <1>2, <1>3, <1>5, RowsOK DEF TypeOK, ChangePassword
<1> QED BY <1>6, AnsweredOK DEF TypeOK, ChangePassword

LEMMA ResetOK ==
    ASSUME TypeOK, NEW r \in Request, Reset(r)
    PROVE  TypeOK'
<1>1. PICK u \in DOMAIN users :
        changes < MaxChanges /\ users' = Changed(u, TRUE) /\ sessions' = Revoked(u, {})
  BY DEF Reset
<1>2. changes' \in Password
  BY <1>1, ConstantsOK DEF TypeOK, TablesOK, Password, Reset
<1>3. TablesOK'
  <2>1. DOMAIN users' = DOMAIN users /\ \A v \in DOMAIN users : users'[v] \in Account
    BY <1>1, ChangedOK DEF TypeOK
  <2>2. DOMAIN sessions' = DOMAIN sessions
        /\ \A s \in DOMAIN sessions : sessions'[s] \in WebSession /\ sessions'[s].user = sessions[s].user
    BY <1>1, RevokedOK DEF TypeOK
  <2> QED BY <1>2, <2>1, <2>2, RowsOK DEF TypeOK, Reset
<1> QED BY <1>3, AnsweredOK DEF TypeOK, Reset

LEMMA LogoutOK ==
    ASSUME TypeOK, NEW r \in Request, Logout(r)
    PROVE  TypeOK'
<1>1. PICK s \in DOMAIN sessions : sessions' = [sessions EXCEPT ![s].revoked = TRUE]
  BY DEF Logout
<1>2. DOMAIN sessions' = DOMAIN sessions
      /\ \A t \in DOMAIN sessions : sessions'[t] \in WebSession /\ sessions'[t].user = sessions[t].user
  BY <1>1 DEF TypeOK, TablesOK, WebSession
<1>3. TablesOK'
  BY <1>2, RowsOK DEF TypeOK, Logout, counters, TablesOK
<1> QED BY <1>3, AnsweredOK DEF TypeOK, Logout, counters

LEMMA CreateUserOK ==
    ASSUME TypeOK, NEW r \in Request, CreateUser(r)
    PROVE  TypeOK'
<1> USE ConstantsOK
<1>1. PICK role \in Roles :
        users' = With(users, nextUser,
                      [role |-> role, active |-> TRUE, must |-> FALSE, pw |-> changes + 1])
  BY DEF CreateUser
<1> DEFINE row == [role |-> role, active |-> TRUE, must |-> FALSE, pw |-> changes + 1]
<1>2. /\ nextUser \in User /\ ~NameTaken(nextUser) /\ nextUser' = nextUser + 1
      /\ changes' = changes + 1 /\ UNCHANGED <<sessions, nextSession>>
      /\ changes + 1 \in Password
  BY DEF CreateUser, TypeOK, TablesOK, Password
<1>3. row \in Account
  BY <1>2 DEF Account
<1> HIDE DEF row
<1>4. DOMAIN users' = DOMAIN users \cup {nextUser} /\ users'[nextUser] = row
      /\ \A u \in DOMAIN users : u # nextUser /\ users'[u] = users[u]
  BY <1>1 DEF With, TypeOK, TablesOK, row
<1>5. \A u, v \in DOMAIN users' : NameOf[u] = NameOf[v] => u = v
  BY <1>2, <1>4 DEF NameTaken, TypeOK, TablesOK
<1>6. nextUser' \in 1..(MaxUsers + 1) /\ DOMAIN users' \subseteq 1..(nextUser' - 1)
  BY <1>2, <1>4 DEF TypeOK, TablesOK, User
<1>7. \A u \in DOMAIN users' : users'[u] \in Account
  BY <1>3, <1>4 DEF TypeOK, TablesOK
<1>8. TablesOK'
  BY <1>2, <1>4, <1>5, <1>6, <1>7 DEF TypeOK, TablesOK, Here
<1> QED BY <1>8, AnsweredOK DEF TypeOK, CreateUser

LEMMA FindTargetOK ==
    ASSUME TypeOK, NEW r \in Request, FindTarget(r)
    PROVE  TypeOK'
<1>1. PICK t \in DOMAIN users, removes \in BOOLEAN :
        /\ ask' = [ask EXCEPT ![r] =
               [op |-> ask[r].op, actor |-> 1, sess |-> 0, target |-> t, removes |-> removes]]
        /\ seen' = IF ask[r].op = "delete" THEN [seen EXCEPT ![r] = users[t]] ELSE seen
        /\ Go(r, IF Admin(t) /\ removes THEN "check" ELSE NextStep(r))
  BY DEF FindTarget
<1>2. t \in User /\ users[t] \in Account
  BY ConstantsOK DEF TypeOK, TablesOK, User
<1>3. [op |-> ask[r].op, actor |-> 1, sess |-> 0, target |-> t, removes |-> removes] \in Ask
  BY <1>2, ConstantsOK DEF TypeOK, RequestsOK, Ask
<1>4. ask' \in [Request -> Ask] /\ \A q \in Request \ {r} : ask'[q] = ask[q]
  BY <1>1, <1>3 DEF TypeOK, RequestsOK
<1>5. seen' \in [Request -> Account]
  BY <1>1, <1>2 DEF TypeOK, RequestsOK
<1>6. (IF Admin(t) /\ removes THEN "check" ELSE NextStep(r)) \in Steps \ {"remove", "helper"}
  BY DEF Steps, NextStep
<1>7. RequestsOK'
  <2>1. ask'[r].target < nextUser
    BY <1>1, ConstantsOK DEF TypeOK, RequestsOK, TablesOK
  <2> QED BY <1>1, <1>4, <1>5, <1>6, <2>1, GoOK DEF TypeOK, FindTarget, counters
<1> QED BY <1>7 DEF TypeOK, TablesOK, FindTarget, tables, counters, Here

LEMMA CheckLastAdminOK ==
    ASSUME TypeOK, NEW r \in Request, CheckLastAdmin(r)
    PROVE  TypeOK'
<1>1. TablesOK'
  BY DEF TypeOK, TablesOK, CheckLastAdmin, tables, counters, Here
<1>2. CASE LastAdmin(ask[r].target)
  BY <1>1, <1>2, AnsweredOK DEF TypeOK, CheckLastAdmin, counters
<1>3. CASE ~LastAdmin(ask[r].target)
  <2>1. NextStep(r) \in Steps \ {"remove", "helper"}
    BY DEF NextStep, Steps
  <2>2. Go(r, NextStep(r)) /\ UNCHANGED <<ask, seen, saved, nextUser, nextSession>>
    BY <1>3 DEF CheckLastAdmin, Keep, counters
  <2>3. RequestsOK'
    BY <2>1, <2>2, GoOK DEF TypeOK, RequestsOK, CheckLastAdmin
  <2> QED BY <1>1, <2>3 DEF TypeOK, CheckLastAdmin
<1> QED BY <1>2, <1>3

LEMMA OverlapOK == ASSUME TypeOK, NEW r \in Request PROVE Overlap(r) \in BOOLEAN
  BY DEF TypeOK, RequestsOK, Ask, Overlap

LEMMA UpdateUserOK ==
    ASSUME TypeOK, NEW r \in Request, UpdateUser(r)
    PROVE  TypeOK'
<1> DEFINE t == ask[r].target
<1>1. PICK role \in Roles, active \in BOOLEAN :
        /\ users' = IF Here(t)
                    THEN [users EXCEPT ![t] = [role |-> role, active |-> active,
                                               must |-> users[t].must, pw |-> users[t].pw]]
                    ELSE users
        /\ sessions' = IF active THEN sessions ELSE Revoked(t, {})
  BY DEF UpdateUser
<1>2. changes' \in Password
  BY ConstantsOK DEF TypeOK, TablesOK, Password, UpdateUser
<1>3. DOMAIN users' = DOMAIN users /\ \A v \in DOMAIN users : users'[v] \in Account
  BY <1>1 DEF TypeOK, TablesOK, Account, Here
<1>4. DOMAIN sessions' = DOMAIN sessions
      /\ \A s \in DOMAIN sessions : sessions'[s] \in WebSession /\ sessions'[s].user = sessions[s].user
  <2>1. CASE active
    BY <1>1, <2>1 DEF TypeOK, TablesOK
  <2>2. CASE ~active
    BY <1>1, <2>2, RevokedOK DEF TypeOK
  <2> QED BY <2>1, <2>2
<1>5. TablesOK'
  BY <1>2, <1>3, <1>4, RowsOK DEF TypeOK, UpdateUser
<1> QED BY <1>5, AnsweredOK, OverlapOK DEF UpdateUser

LEMMA ReadSessionsOK ==
    ASSUME TypeOK, NEW r \in Request, ReadSessions(r)
    PROVE  TypeOK'
<1> DEFINE mine == {s \in DOMAIN sessions : sessions[s].user = ask[r].target}
<1>1. DOMAIN saved' = Request /\ saved'[r] = Restrict(sessions, mine)
  BY DEF ReadSessions, TypeOK, RequestsOK
<1>2. DOMAIN saved'[r] = mine /\ \A s \in mine : saved'[r][s] = sessions[s]
  BY <1>1 DEF Restrict
<1>3. mine \subseteq 1..(nextSession - 1)
      /\ \A s \in mine : saved'[r][s] \in WebSession /\ saved'[r][s].user = ask[r].target
  BY <1>2 DEF TypeOK, TablesOK
<1> HIDE DEF mine
<1>4. pc' \in [Request -> Steps] /\ pc'[r] = "remove"
  BY DEF ReadSessions, Go, TypeOK, RequestsOK, Steps
<1>5. \A q \in Request \ {r} : pc'[q] = pc[q] /\ saved'[q] = saved[q]
  BY DEF ReadSessions, Go, TypeOK, RequestsOK
<1>6. UNCHANGED <<ask, seen, nextUser, nextSession>>
  BY DEF ReadSessions, counters
<1>7. DOMAIN saved'[r] \subseteq 1..(nextSession - 1)
      /\ \A s \in DOMAIN saved'[r] : saved'[r][s] \in WebSession /\ saved'[r][s].user = ask[r].target
  BY <1>2, <1>3
<1>8. RequestsOK'
  BY <1>1, <1>4, <1>5, <1>6, <1>7 DEF TypeOK, RequestsOK
<1> QED BY <1>8 DEF TypeOK, TablesOK, ReadSessions, tables, counters, Here

\* Deleting a user deletes the sessions of the user.
LEMMA DeletedOK ==
    ASSUME TablesOK, NEW t, users' = Restrict(users, DOMAIN users \ {t}),
           sessions' = Restrict(sessions, {s \in DOMAIN sessions : sessions[s].user # t}),
           UNCHANGED <<nextUser, nextSession>>, changes' \in Password
    PROVE  TablesOK'
<1>1. DOMAIN users' = DOMAIN users \ {t} /\ \A u \in DOMAIN users' : users'[u] = users[u]
  BY DEF Restrict
<1>2. DOMAIN sessions' = {s \in DOMAIN sessions : sessions[s].user # t}
      /\ \A s \in DOMAIN sessions' : sessions'[s] = sessions[s]
  BY DEF Restrict
<1> QED BY <1>1, <1>2 DEF TablesOK, Here

LEMMA DeleteUserOK ==
    ASSUME TypeOK, NEW r \in Request, DeleteUser(r)
    PROVE  TypeOK'
<1> DEFINE t == ask[r].target
<1>1. changes' \in Password
  BY ConstantsOK DEF TypeOK, TablesOK, Password, DeleteUser
<1>2. TablesOK'
  <2>1. CASE ask[r].op = "delete"
    BY <1>1, <2>1, DeletedOK DEF TypeOK, DeleteUser
  <2>2. CASE ask[r].op # "delete"
    <3>1. UNCHANGED users /\ sessions' = Revoked(t, {})
      BY <2>2 DEF DeleteUser
    <3>2. DOMAIN sessions' = DOMAIN sessions
          /\ \A s \in DOMAIN sessions : sessions'[s] \in WebSession /\ sessions'[s].user = sessions[s].user
      BY <3>1, RevokedOK DEF TypeOK
    <3>3. DOMAIN users' = DOMAIN users /\ \A v \in DOMAIN users : users'[v] \in Account
      BY <3>1 DEF TypeOK, TablesOK
    <3> QED BY <1>1, <3>2, <3>3, RowsOK DEF TypeOK, DeleteUser
  <2> QED BY <2>1, <2>2
<1>3. CASE Answer(r)
  BY <1>2, <1>3, AnsweredOK, OverlapOK DEF DeleteUser
<1>4. CASE Go(r, "helper") /\ Keep
  <2>1. \A q \in Request \ {r} : pc'[q] = pc[q]
    BY <1>4 DEF Go, TypeOK, RequestsOK
  <2>2. pc' \in [Request -> Steps] /\ pc'[r] = "helper" /\ pc[r] = "remove"
    BY <1>4 DEF Go, TypeOK, RequestsOK, Steps, DeleteUser
  <2>3. RequestsOK'
    BY <1>4, <2>1, <2>2 DEF TypeOK, RequestsOK, Keep, DeleteUser
  <2> QED BY <1>2, <2>3, OverlapOK DEF TypeOK, DeleteUser
<1> QED BY <1>3, <1>4 DEF DeleteUser

\* Sessions that are written back join those there are.
LEMMA MergedOK ==
    ASSUME TypeOK, NEW r \in Request
    PROVE  LET rows == Merge(Excuse(saved[r]))
           IN  /\ DOMAIN rows = DOMAIN sessions \cup DOMAIN saved[r]
               /\ DOMAIN rows \subseteq 1..(nextSession - 1)
               /\ \A s \in DOMAIN saved[r] :
                     /\ rows[s] \in WebSession
                     /\ rows[s].user = ask[r].target
                     /\ rows[s].excused = TRUE
               /\ \A s \in DOMAIN sessions \ DOMAIN saved[r] : rows[s] = sessions[s]
<1>1. DOMAIN Excuse(saved[r]) = DOMAIN saved[r]
      /\ \A s \in DOMAIN saved[r] : Excuse(saved[r])[s] = [saved[r][s] EXCEPT !.excused = TRUE]
  BY DEF Excuse
<1>2. \A s \in DOMAIN saved[r] :
        /\ Excuse(saved[r])[s] \in WebSession
        /\ Excuse(saved[r])[s].user = ask[r].target
        /\ Excuse(saved[r])[s].excused = TRUE
  <2> TAKE s \in DOMAIN saved[r]
  <2>1. saved[r][s] \in WebSession /\ saved[r][s].user = ask[r].target
    BY DEF TypeOK, RequestsOK
  <2> QED BY <1>1, <2>1 DEF WebSession
<1>3. DOMAIN saved[r] \subseteq 1..(nextSession - 1) /\ DOMAIN sessions \subseteq 1..(nextSession - 1)
  BY DEF TypeOK, RequestsOK, TablesOK
<1> QED BY <1>1, <1>2, <1>3 DEF Merge

LEMMA RestorePanelUserOK ==
    ASSUME TypeOK, NEW r \in Request, RestorePanelUser(r)
    PROVE  TypeOK'
<1> DEFINE t == ask[r].target
<1>1. /\ ~Here(t) /\ ~NameTaken(t) /\ users' = With(users, t, seen[r])
      /\ sessions' = Merge(Excuse(saved[r])) /\ UNCHANGED <<nextUser, nextSession, changes>>
  BY DEF RestorePanelUser, counters
<1>2. DOMAIN users' = DOMAIN users \cup {t} /\ users'[t] = seen[r]
      /\ \A u \in DOMAIN users : u # t /\ users'[u] = users[u]
  BY <1>1 DEF With, Here
<1>3. \A u \in DOMAIN users' : users'[u] \in Account
  BY <1>2 DEF TypeOK, TablesOK, RequestsOK
<1>4. \A u, v \in DOMAIN users' : NameOf[u] = NameOf[v] => u = v
  BY <1>1, <1>2 DEF NameTaken, TypeOK, TablesOK
<1>5. DOMAIN sessions' \subseteq 1..(nextSession - 1)
      /\ \A s \in DOMAIN sessions' : sessions'[s] \in WebSession /\ sessions'[s].user \in DOMAIN users'
  <2> DEFINE rows == Merge(Excuse(saved[r]))
  <2>1. /\ DOMAIN rows = DOMAIN sessions \cup DOMAIN saved[r]
        /\ DOMAIN rows \subseteq 1..(nextSession - 1)
        /\ \A s \in DOMAIN saved[r] : rows[s] \in WebSession /\ rows[s].user = t
        /\ \A s \in DOMAIN sessions \ DOMAIN saved[r] : rows[s] = sessions[s]
    BY MergedOK
  <2>2. \A s \in DOMAIN sessions : sessions[s] \in WebSession /\ sessions[s].user \in DOMAIN users
    BY DEF TypeOK, TablesOK, Here
  <2>3. sessions' = rows
    BY <1>1
  <2> HIDE DEF rows, t
  <2> QED BY <1>2, <2>1, <2>2, <2>3
<1>6. t < nextUser /\ t \in User
  BY DEF TypeOK, RequestsOK, Ask
<1>7. TablesOK'
  BY <1>1, <1>2, <1>3, <1>4, <1>5, <1>6, ConstantsOK DEF TypeOK, TablesOK, Here, User
<1> QED BY <1>7, AnsweredOK DEF TypeOK, RestorePanelUser, counters

LEMMA RestoreSessionsOK ==
    ASSUME TypeOK, NEW r \in Request, RestoreSessions(r)
    PROVE  TypeOK'
<1>1. /\ Here(ask[r].target) /\ sessions' = Merge(Excuse(saved[r]))
      /\ UNCHANGED <<users, nextUser, nextSession, changes>>
  BY DEF RestoreSessions, counters
<1>2. DOMAIN sessions' \subseteq 1..(nextSession - 1)
      /\ \A s \in DOMAIN sessions' : sessions'[s] \in WebSession /\ sessions'[s].user \in DOMAIN users'
  BY <1>1, MergedOK DEF TypeOK, TablesOK, Here
<1>3. TablesOK'
  BY <1>1, <1>2 DEF TypeOK, TablesOK, Here
<1> QED BY <1>3, AnsweredOK DEF TypeOK, RestoreSessions, counters

LEMMA ConnectionsOK ==
    ASSUME TypeOK, NEW c \in Conn,
           (\E r \in Request : IssueTicket(r, c)) \/ Upgrade(c) \/ Monitor(c) \/ Leave(c)
    PROVE  TypeOK'
<1> DEFINE Stages == [stage : {"none", "ticket", "open"}, user : User, sess : 0..MaxSessions]
<1>1. NoConn \in Stages
  BY ConstantsOK DEF NoConn
<1>2. TablesOK' /\ overlapped' \in BOOLEAN /\ UNCHANGED <<nextUser, nextSession>>
  BY DEF TypeOK, TablesOK, IssueTicket, Upgrade, Monitor, Leave, tables, counters, Here
<1>3. ASSUME NEW r \in Request, IssueTicket(r, c) PROVE RequestsOK' /\ conn' \in [Conn -> Stages]
  <2>1. RequestsOK'
    BY <1>2, <1>3, AnswerOK DEF IssueTicket, TypeOK
  <2>2. ask[r].actor \in User /\ ask[r].sess \in 0..MaxSessions
    BY DEF TypeOK, RequestsOK, Ask
  <2> QED BY <1>3, <2>1, <2>2 DEF IssueTicket, TypeOK
<1>4. CASE Upgrade(c) \/ Monitor(c) \/ Leave(c)
  <2>1. RequestsOK'
    BY <1>4, <1>2 DEF Upgrade, Monitor, Leave, requests, TypeOK, RequestsOK
  <2>2. conn' \in [Conn -> Stages]
    BY <1>4, <1>1 DEF Upgrade, Monitor, Leave, TypeOK
  <2> QED BY <1>2, <2>1, <2>2 DEF TypeOK
<1> QED BY <1>2, <1>3, <1>4 DEF TypeOK

LEMMA NextTypeOK == TypeOK /\ [Next]_vars => TypeOK'
<1> SUFFICES ASSUME TypeOK, [Next]_vars PROVE TypeOK'
  OBVIOUS
<1>1. ASSUME NEW r \in Request, Handle(r) PROVE TypeOK'
  BY <1>1, LoginVerifyOK, LoginInsertOK, AuthorizeOK, AbandonOK, ChangePasswordOK, ResetOK, LogoutOK,
     CreateUserOK, FindTargetOK, CheckLastAdminOK, UpdateUserOK, ReadSessionsOK, DeleteUserOK,
     RestorePanelUserOK, RestoreSessionsOK DEF Handle
<1>2. ASSUME NEW c \in Conn,
             (\E r \in Request : IssueTicket(r, c)) \/ Upgrade(c) \/ Monitor(c) \/ Leave(c)
      PROVE  TypeOK'
  BY <1>2, ConnectionsOK
<1>3. CASE UNCHANGED vars
  BY <1>3 DEF vars, tables, counters, requests, TypeOK, TablesOK, RequestsOK, Here
<1> QED BY <1>1, <1>2, <1>3 DEF Next

\* Type correctness, with unique ids and names, and no session without its user.
THEOREM TypeCorrect == Spec => []TypeOK
  BY InitTypeOK, NextTypeOK, PTL DEF Spec

-----------------------------------------------------------------------------
(* Valid sessions are current.                                             *)

\* The session with row x is as SessionsAreCurrent wants it, in the table t of users.
Current(x, t) ==
    x.revoked = FALSE /\ x.excused = FALSE =>
        t[x.user].active = TRUE /\ t[x.user].pw = x.gen

LEMMA CurrentRows ==
    ASSUME TypeOK
    PROVE  SessionsAreCurrent <=> \A s \in DOMAIN sessions : Current(sessions[s], users)
<1>1. \A s \in DOMAIN sessions :
        /\ sessions[s].revoked \in BOOLEAN /\ sessions[s].excused \in BOOLEAN
        /\ users[sessions[s].user].active \in BOOLEAN
  BY DEF TypeOK, TablesOK, WebSession, Here, Account
<1> QED BY <1>1 DEF SessionsAreCurrent, Current, Valid

LEMMA CurrentRowsNext ==
    ASSUME TypeOK', \A s \in DOMAIN sessions' : Current(sessions'[s], users')
    PROVE  SessionsAreCurrent'
<1>1. \A s \in DOMAIN sessions' :
        /\ sessions'[s].revoked \in BOOLEAN /\ sessions'[s].excused \in BOOLEAN
        /\ users'[sessions'[s].user].active \in BOOLEAN
  BY DEF TypeOK, TablesOK, WebSession, Here, Account
<1> QED BY <1>1 DEF SessionsAreCurrent, Current, Valid

\* What a step that leaves the tables alone keeps.
LEMMA TablesKeepCurrent ==
    ASSUME SessionsAreCurrent, UNCHANGED tables
    PROVE  SessionsAreCurrent'
  BY DEF SessionsAreCurrent, Valid, tables

LEMMA LoginKeepsCurrent ==
    ASSUME TypeOK, TypeOK', SessionsAreCurrent, NEW r \in Request, LoginInsert(r)
    PROVE  SessionsAreCurrent'
<1>1. CASE ~Here(ask[r].actor)
  BY <1>1, TablesKeepCurrent DEF LoginInsert, tables
<1>2. CASE Here(ask[r].actor)
  <2> DEFINE u == ask[r].actor
             row == [user |-> u, revoked |-> FALSE, gen |-> seen[r].pw,
                     excused |-> ~(users[u].active /\ users[u].pw = seen[r].pw)]
  <2>1. users[u].active \in BOOLEAN
    BY <1>2 DEF TypeOK, TablesOK, Account, Here
  <2>2. Current(row, users)
    BY <2>1 DEF Current
  <2>3. sessions' = With(sessions, nextSession, row) /\ UNCHANGED users
    BY <1>2 DEF LoginInsert
  <2> HIDE DEF row
  <2>4. \A s \in DOMAIN sessions' :
          sessions'[s] = row \/ (s \in DOMAIN sessions /\ sessions'[s] = sessions[s])
    BY <2>3 DEF With
  <2>5. \A s \in DOMAIN sessions : Current(sessions[s], users)
    BY CurrentRows
  <2>6. \A s \in DOMAIN sessions' : Current(sessions'[s], users')
    BY <2>2, <2>3, <2>4, <2>5
  <2> QED BY <2>6, CurrentRowsNext
<1> QED BY <1>1, <1>2

\* What a step keeps that revokes or excuses sessions, and leaves of the others,
\* and of their users, what matters.
LEMMA RowsStayCurrent ==
    ASSUME TypeOK, TypeOK', SessionsAreCurrent,
           \A s \in DOMAIN sessions' :
              \/ sessions'[s].revoked = TRUE \/ sessions'[s].excused = TRUE
              \/ LET x == sessions[s]
                     y == sessions'[s]
                 IN  /\ s \in DOMAIN sessions
                     /\ y.user = x.user /\ y.gen = x.gen
                     /\ y.excused = x.excused /\ y.revoked = x.revoked
                     /\ users'[x.user].active = users[x.user].active
                     /\ users'[x.user].pw = users[x.user].pw
    PROVE  SessionsAreCurrent'
<1>1. \A s \in DOMAIN sessions : Current(sessions[s], users)
  BY CurrentRows
<1>2. \A s \in DOMAIN sessions' : Current(sessions'[s], users')
  BY <1>1 DEF Current
<1> QED BY <1>2, CurrentRowsNext

LEMMA PasswordKeepsCurrent ==
    ASSUME TypeOK, TypeOK', SessionsAreCurrent, NEW r \in Request, ChangePassword(r) \/ Reset(r)
    PROVE  SessionsAreCurrent'
<1>1. ASSUME NEW u \in DOMAIN users, changes < MaxChanges, users' = Changed(u, TRUE),
             sessions' = Revoked(u, {})
      PROVE  SessionsAreCurrent'
  <2>1. \A v \in DOMAIN users \ {u} : users'[v] = users[v]
    BY <1>1, ChangedOK DEF TypeOK
  <2>2. DOMAIN sessions' = DOMAIN sessions
    BY <1>1, RevokedOK DEF TypeOK
  <2>3. \A s \in DOMAIN sessions :
          sessions'[s].revoked = TRUE \/ (sessions[s].user # u /\ sessions'[s] = sessions[s])
    BY <1>1 DEF Revoked, TypeOK, TablesOK, WebSession
  <2>4. \A s \in DOMAIN sessions : sessions[s].user \in DOMAIN users
    BY DEF TypeOK, TablesOK, Here
  <2> QED BY <2>1, <2>2, <2>3, <2>4, RowsStayCurrent
<1>2. CASE ChangePassword(r)
  <2> DEFINE u == ask[r].actor
             own == ask[r].sess
  <2>1. /\ u \in DOMAIN users /\ changes < MaxChanges /\ users' = Changed(u, FALSE)
        /\ sessions' = [s \in DOMAIN sessions |->
                  IF s = own /\ sessions[s].user = u THEN [sessions[s] EXCEPT !.gen = changes + 1]
                  ELSE Revoked(u, {own})[s]]
    BY <1>2 DEF ChangePassword, Here
  <2>2. /\ \A v \in DOMAIN users \ {u} : users'[v] = users[v]
        /\ users'[u].active = users[u].active /\ users'[u].pw = changes + 1
    BY <2>1, ChangedOK DEF TypeOK
  <2>3. \A s \in DOMAIN sessions :
          sessions[s] \in WebSession /\ sessions[s].user \in DOMAIN users
          /\ Current(sessions[s], users)
    BY CurrentRows DEF TypeOK, TablesOK, Here
  <2>4. ASSUME NEW s \in DOMAIN sessions' PROVE Current(sessions'[s], users')
    <3>1. s \in DOMAIN sessions
      BY <2>1
    <3>2. CASE s = own /\ sessions[s].user = u
      <4>1. sessions'[s] = [sessions[s] EXCEPT !.gen = changes + 1]
        BY <2>1, <3>1, <3>2
      <4> QED BY <2>2, <2>3, <3>1, <3>2, <4>1 DEF Current, WebSession
    <3>3. CASE s # own /\ sessions[s].user = u
      <4>1. sessions'[s] = [sessions[s] EXCEPT !.revoked = TRUE]
        BY <2>1, <3>1, <3>3 DEF Revoked
      <4> QED BY <2>3, <3>1, <4>1 DEF Current, WebSession
    <3>4. CASE sessions[s].user # u
      <4>1. sessions'[s] = sessions[s]
        BY <2>1, <3>1, <3>4 DEF Revoked
      <4> QED BY <2>2, <2>3, <3>1, <3>4, <4>1 DEF Current
    <3> QED BY <3>2, <3>3, <3>4
  <2> QED BY <2>4, CurrentRowsNext
<1>3. CASE Reset(r)
  BY <1>1, <1>3 DEF Reset
<1> QED BY <1>2, <1>3

LEMMA LogoutKeepsCurrent ==
    ASSUME TypeOK, TypeOK', SessionsAreCurrent, NEW r \in Request, Logout(r)
    PROVE  SessionsAreCurrent'
<1>1. PICK s \in DOMAIN sessions : sessions' = [sessions EXCEPT ![s].revoked = TRUE]
  BY DEF Logout
<1>2. \A t \in DOMAIN sessions :
        sessions'[t].revoked = TRUE \/ sessions'[t] = sessions[t]
  BY <1>1 DEF TypeOK, TablesOK, WebSession
<1>3. DOMAIN sessions' = DOMAIN sessions /\ UNCHANGED users
  BY <1>1 DEF Logout
<1> QED BY <1>2, <1>3, RowsStayCurrent

LEMMA UsersKeepCurrent ==
    ASSUME TypeOK, TypeOK', SessionsAreCurrent, NEW r \in Request, CreateUser(r) \/ UpdateUser(r)
    PROVE  SessionsAreCurrent'
<1>1. \A s \in DOMAIN sessions : sessions[s].user \in DOMAIN users
  BY DEF TypeOK, TablesOK, Here
<1>2. CASE CreateUser(r)
  <2>1. UNCHANGED sessions /\ \A u \in DOMAIN users : users'[u] = users[u]
    BY <1>2 DEF CreateUser, With, TypeOK, TablesOK
  <2> QED BY <1>1, <2>1, RowsStayCurrent
<1>3. CASE UpdateUser(r)
  <2> DEFINE t == ask[r].target
  <2>1. PICK role \in Roles, active \in BOOLEAN :
          /\ users' = IF Here(t)
                      THEN [users EXCEPT ![t] = [role |-> role, active |-> active,
                                                 must |-> users[t].must, pw |-> users[t].pw]]
                      ELSE users
          /\ sessions' = IF active THEN sessions ELSE Revoked(t, {})
    BY <1>3 DEF UpdateUser
  <2>2. \A u \in DOMAIN users : users'[u].pw = users[u].pw
                                /\ (u # t => users'[u].active = users[u].active)
    BY <2>1 DEF Here
  <2>3. CASE active
    <3>1. UNCHANGED sessions /\ \A u \in DOMAIN users : u = t => users'[u].active = TRUE
      BY <2>1, <2>3 DEF Here
    <3>2. \A s \in DOMAIN sessions : Current(sessions[s], users)
      BY CurrentRows
    <3>3. \A s \in DOMAIN sessions' : Current(sessions'[s], users')
      BY <1>1, <2>2, <3>1, <3>2 DEF Current
    <3> QED BY <3>3, CurrentRowsNext
  <2>4. CASE ~active
    <3>1. sessions' = Revoked(t, {})
      BY <2>1, <2>4
    <3>2. \A s \in DOMAIN sessions :
            sessions'[s].revoked = TRUE \/ (sessions[s].user # t /\ sessions'[s] = sessions[s])
      BY <3>1 DEF Revoked, TypeOK, TablesOK, WebSession
    <3>3. DOMAIN sessions' = DOMAIN sessions
      BY <3>1 DEF Revoked
    <3> QED BY <1>1, <2>2, <3>2, <3>3, RowsStayCurrent
  <2> QED BY <2>3, <2>4
<1> QED BY <1>2, <1>3

LEMMA DeletionKeepsCurrent ==
    ASSUME TypeOK, TypeOK', SessionsAreCurrent, NEW r \in Request,
           DeleteUser(r) \/ RestorePanelUser(r) \/ RestoreSessions(r)
    PROVE  SessionsAreCurrent'
<1> DEFINE t == ask[r].target
<1>1. \A s \in DOMAIN sessions : sessions[s].user \in DOMAIN users
  BY DEF TypeOK, TablesOK, Here
<1>2. CASE DeleteUser(r) /\ ask[r].op = "delete"
  <2>1. \A s \in DOMAIN sessions' :
          s \in DOMAIN sessions /\ sessions[s].user # t /\ sessions'[s] = sessions[s]
    BY <1>2 DEF DeleteUser, Restrict
  <2>2. \A u \in DOMAIN users \ {t} : users'[u] = users[u]
    BY <1>2 DEF DeleteUser, Restrict
  <2> QED BY <1>1, <2>1, <2>2, RowsStayCurrent
<1>3. CASE DeleteUser(r) /\ ask[r].op # "delete"
  <2>1. sessions' = Revoked(t, {}) /\ UNCHANGED users
    BY <1>3 DEF DeleteUser
  <2>2. \A s \in DOMAIN sessions : sessions'[s].revoked = TRUE \/ sessions'[s] = sessions[s]
    BY <2>1 DEF Revoked, TypeOK, TablesOK, WebSession
  <2>3. DOMAIN sessions' = DOMAIN sessions
    BY <2>1 DEF Revoked
  <2> QED BY <2>1, <2>2, <2>3, RowsStayCurrent
<1>4. CASE RestorePanelUser(r) \/ RestoreSessions(r)
  <2>1. sessions' = Merge(Excuse(saved[r]))
    BY <1>4 DEF RestorePanelUser, RestoreSessions
  <2>2. \A s \in DOMAIN sessions' :
          sessions'[s].excused = TRUE \/ (s \in DOMAIN sessions /\ sessions'[s] = sessions[s])
    BY <2>1, MergedOK
  <2>3. \A u \in DOMAIN users : users'[u] = users[u]
    BY <1>4 DEF RestorePanelUser, RestoreSessions, With, Here
  <2> QED BY <1>1, <2>2, <2>3, RowsStayCurrent
<1> QED BY <1>2, <1>3, <1>4

LEMMA NextKeepsCurrent ==
    ASSUME TypeOK, [Next]_vars, SessionsAreCurrent
    PROVE  SessionsAreCurrent'
<1>1. TypeOK'
  BY NextTypeOK
<1>2. ASSUME NEW r \in Request, Handle(r) PROVE SessionsAreCurrent'
  <2>1. CASE LoginVerify(r) \/ Authorize(r) \/ Abandon(r) \/ FindTarget(r) \/ CheckLastAdmin(r)
             \/ ReadSessions(r) \/ HelperSucceeds(r)
    <3>1. UNCHANGED tables
      BY <2>1 DEF LoginVerify, Authorize, Abandon, FindTarget, CheckLastAdmin, ReadSessions,
                  HelperSucceeds
    <3> QED BY <3>1, TablesKeepCurrent
  <2> QED BY <1>1, <1>2, <2>1, LoginKeepsCurrent, PasswordKeepsCurrent, LogoutKeepsCurrent,
             UsersKeepCurrent, DeletionKeepsCurrent DEF Handle
<1>3. ASSUME NEW c \in Conn,
             (\E r \in Request : IssueTicket(r, c)) \/ Upgrade(c) \/ Monitor(c) \/ Leave(c)
      PROVE  SessionsAreCurrent'
  <2>1. UNCHANGED tables
    BY <1>3 DEF IssueTicket, Upgrade, Monitor, Leave
  <2> QED BY <2>1, TablesKeepCurrent
<1>4. CASE UNCHANGED vars
  BY <1>4, TablesKeepCurrent DEF vars
<1> QED BY <1>2, <1>3, <1>4 DEF Next

\* A valid web session belongs to an active account and to its present password,
\* but for the two excuses SessionsAreCurrent names.
THEOREM SessionsCurrent == Spec => []SessionsAreCurrent
<1>1. Init => SessionsAreCurrent
  BY DEF Init, SessionsAreCurrent, NoRows
<1>2. TypeOK /\ SessionsAreCurrent /\ [Next]_vars => TypeOK' /\ SessionsAreCurrent'
  BY NextTypeOK, NextKeepsCurrent
<1> QED BY <1>1, <1>2, InitTypeOK, PTL DEF Spec

-----------------------------------------------------------------------------
(* An administrator remains.                                               *)

Others(t) == \E u \in User \ {t} : Admin(u)

\* Request r is about to remove its target and relies on there being another.
Relies(r) == pc[r] \in {"commit", "read", "remove"} /\ ask[r].removes = TRUE

\* Deletions remove, and only updates take the step "commit".
StepsOK ==
    \A r \in Request :
        /\ pc[r] \in {"check", "read", "remove"} /\ ask[r].op = "delete" => ask[r].removes = TRUE
        /\ pc[r] = "commit" => ask[r].op = "update"

\* The inductive invariant.
AdminsOK ==
    /\ StepsOK
    /\ overlapped = FALSE =>
          /\ \E u \in User : Admin(u)
          /\ \A r \in Request : Relies(r) => Others(ask[r].target)

\* A step that takes no administrator away and starts no removal.
LEMMA AdminsGrow ==
    ASSUME AdminsOK, StepsOK', overlapped' = FALSE => overlapped = FALSE,
           \A u \in User : Admin(u) => Admin(u)',
           \A q \in Request : Relies(q)' => Relies(q) /\ ask'[q] = ask[q]
    PROVE  AdminsOK'
<1> SUFFICES ASSUME overlapped' = FALSE
             PROVE  /\ \E u \in User : Admin(u)'
                    /\ \A q \in Request : Relies(q)' => Others(ask[q].target)'
  BY DEF AdminsOK
<1>1. \E u \in User : Admin(u)'
  BY DEF AdminsOK
<1>2. ASSUME NEW q \in Request, Relies(q)' PROVE Others(ask[q].target)'
  <2>1. Others(ask[q].target) /\ ask'[q] = ask[q]
    BY <1>2 DEF AdminsOK
  <2> QED BY <2>1 DEF Others
<1> QED BY <1>1, <1>2

\* What a request does to the steps of the others, and to its own when answered.
LEMMA AnswerRelies ==
    ASSUME TypeOK, StepsOK, NEW r \in Request, Answer(r)
    PROVE  /\ StepsOK'
           /\ \A q \in Request : Relies(q)' => Relies(q) /\ q # r /\ ask'[q] = ask[q]
  BY DEF Answer, TypeOK, RequestsOK, StepsOK, Relies

\* A request goes on to a step that relies on nothing.
LEMMA GoRelies ==
    ASSUME TypeOK, StepsOK, NEW r \in Request, NEW next \in Steps \ {"check", "commit", "read", "remove"},
           Go(r, next), ask' \in [Request -> Ask], \A q \in Request \ {r} : ask'[q] = ask[q]
    PROVE  /\ StepsOK'
           /\ \A q \in Request : Relies(q)' => Relies(q) /\ ask'[q] = ask[q]
  BY DEF Go, TypeOK, RequestsOK, StepsOK, Relies

LEMMA AnsweredKeepsAdmins ==
    ASSUME TypeOK, AdminsOK, NEW r \in Request, Answer(r), UNCHANGED <<users, overlapped>>
    PROVE  AdminsOK'
<1>1. StepsOK
  BY DEF AdminsOK
<1>2. \A u \in User : Admin(u) => Admin(u)'
  BY DEF Admin, Here
<1> QED BY <1>1, <1>2, AnswerRelies, AdminsGrow

LEMMA GoingOnKeepsAdmins ==
    ASSUME TypeOK, TypeOK', AdminsOK, NEW r \in Request, Authorize(r) \/ LoginVerify(r)
    PROVE  AdminsOK'
<1>1. StepsOK /\ ask' \in [Request -> Ask]
  BY DEF AdminsOK, TypeOK, RequestsOK
<1>2. UNCHANGED <<users, overlapped>> /\ \A q \in Request \ {r} : ask'[q] = ask[q]
  BY DEF Authorize, LoginVerify, tables, TypeOK, RequestsOK
<1>3. PICK next \in Steps \ {"check", "commit", "read", "remove"} : Go(r, next)
  <2>1. CASE Authorize(r)
    <3>1. PICK op \in Ops \ {"login"} :
            Go(r, IF op \in {"update", "delete", "terminate"} THEN "find" ELSE op)
      BY <2>1 DEF Authorize
    <3> QED BY <3>1 DEF Ops, AdminOps, OwnOps, Steps
  <2>2. CASE LoginVerify(r)
    BY <2>2 DEF LoginVerify, Steps
  <2> QED BY <2>1, <2>2
<1>4. \A u \in User : Admin(u) => Admin(u)'
  BY <1>2 DEF Admin, Here
<1> QED BY <1>1, <1>2, <1>3, <1>4, GoRelies, AdminsGrow

\* A target that is no administrator now is not the last one.
LEMMA FindTargetKeepsAdmins ==
    ASSUME TypeOK, TypeOK', AdminsOK, NEW r \in Request, FindTarget(r)
    PROVE  AdminsOK'
<1>1. PICK t \in DOMAIN users, removes \in BOOLEAN :
        /\ ask[r].op = "delete" => removes
        /\ ask' = [ask EXCEPT ![r] =
               [op |-> ask[r].op, actor |-> 1, sess |-> 0, target |-> t, removes |-> removes]]
        /\ Go(r, IF Admin(t) /\ removes THEN "check" ELSE NextStep(r))
  BY DEF FindTarget
<1>2. /\ ask'[r].op = ask[r].op /\ ask'[r].target = t /\ ask'[r].removes = removes
      /\ \A q \in Request \ {r} : ask'[q] = ask[q] /\ pc'[q] = pc[q]
      /\ pc'[r] = IF Admin(t) /\ removes THEN "check" ELSE NextStep(r)
      /\ UNCHANGED <<users, overlapped>>
  BY <1>1 DEF TypeOK, RequestsOK, Go, FindTarget, tables
<1>3. StepsOK'
  BY <1>1, <1>2 DEF AdminsOK, StepsOK, NextStep
<1>4. \A u \in User : Admin(u)' <=> Admin(u)
  BY <1>2 DEF Admin, Here
<1>5. ASSUME overlapped = FALSE, NEW q \in Request, Relies(q)' PROVE Others(ask[q].target)'
  <2>1. CASE q # r
    BY <1>2, <1>4, <1>5, <2>1 DEF AdminsOK, Relies, Others
  <2>2. CASE q = r
    <3>1. ~Admin(t) /\ ask'[r].target = t
      BY <1>2, <1>5, <2>2 DEF Relies
    <3>2. PICK u \in User : Admin(u)
      BY <1>5 DEF AdminsOK
    <3>3. u # t
      BY <3>1, <3>2
    <3> QED BY <1>4, <2>2, <3>1, <3>2, <3>3 DEF Others
  <2> QED BY <2>1, <2>2
<1> QED BY <1>2, <1>3, <1>4, <1>5 DEF AdminsOK

\* isLastActiveAdmin lets the removal of an administrator pass only if there is another.
LEMMA CheckKeepsAdmins ==
    ASSUME TypeOK, TypeOK', AdminsOK, NEW r \in Request, CheckLastAdmin(r)
    PROVE  AdminsOK'
<1>1. CASE LastAdmin(ask[r].target)
  BY <1>1, AnsweredKeepsAdmins DEF CheckLastAdmin, tables
<1>2. CASE ~LastAdmin(ask[r].target)
  <2>1. /\ \A q \in Request \ {r} : pc'[q] = pc[q]
        /\ pc'[r] = NextStep(r) /\ pc[r] = "check"
        /\ UNCHANGED <<users, overlapped, ask>>
    BY <1>2 DEF CheckLastAdmin, Keep, Go, TypeOK, RequestsOK, tables
  <2>2. StepsOK'
    BY <2>1 DEF AdminsOK, StepsOK, NextStep
  <2>3. \A u \in User : Admin(u)' <=> Admin(u)
    BY <2>1 DEF Admin, Here
  <2>4. Others(ask[r].target)
    BY <1>2 DEF LastAdmin, Others
  <2>5. ASSUME overlapped = FALSE, NEW q \in Request, Relies(q)' PROVE Others(ask[q].target)'
    <3>1. Others(ask[q].target)
      BY <2>1, <2>4, <2>5 DEF AdminsOK, Relies
    <3> QED BY <2>1, <2>3, <3>1 DEF Others
  <2> QED BY <2>1, <2>2, <2>3, <2>5 DEF AdminsOK
<1> QED BY <1>1, <1>2

LEMMA ReadKeepsAdmins ==
    ASSUME TypeOK, TypeOK', AdminsOK, NEW r \in Request, ReadSessions(r)
    PROVE  AdminsOK'
<1>1. /\ \A q \in Request \ {r} : pc'[q] = pc[q]
      /\ pc'[r] = "remove" /\ pc[r] = "read"
      /\ UNCHANGED <<users, overlapped, ask>>
  BY DEF ReadSessions, Go, TypeOK, RequestsOK, tables
<1>2. StepsOK' /\ \A q \in Request : Relies(q)' => Relies(q)
  BY <1>1 DEF AdminsOK, StepsOK, Relies
<1>3. \A u \in User : Admin(u) => Admin(u)'
  BY <1>1 DEF Admin, Here
<1> QED BY <1>1, <1>2, <1>3, AdminsGrow

\* New passwords, new accounts and restored ones take no administrator away.
LEMMA AccountsKeepAdmins ==
    ASSUME TypeOK, AdminsOK, NEW r \in Request,
           ChangePassword(r) \/ Reset(r) \/ CreateUser(r) \/ RestorePanelUser(r)
    PROVE  AdminsOK'
<1>1. Answer(r) /\ UNCHANGED overlapped
  BY DEF ChangePassword, Reset, CreateUser, RestorePanelUser
<1>2. \A u \in DOMAIN users :
        u \in DOMAIN users' /\ users'[u].role = users[u].role /\ users'[u].active = users[u].active
  <2>1. CASE ChangePassword(r) \/ Reset(r)
    <3>1. PICK u \in DOMAIN users, must \in BOOLEAN : users' = Changed(u, must)
      BY <2>1 DEF ChangePassword, Reset, Here
    <3> QED BY <3>1 DEF Changed
  <2>2. CASE CreateUser(r) \/ RestorePanelUser(r)
    <3>1. PICK u, row : u \notin DOMAIN users /\ users' = With(users, u, row)
      BY <2>2 DEF CreateUser, RestorePanelUser, NameTaken, Here
    <3> QED BY <3>1 DEF With
  <2> QED BY <2>1, <2>2
<1>3. \A u \in User : Admin(u) => Admin(u)'
  BY <1>2 DEF Admin, Here
<1>4. StepsOK
  BY DEF AdminsOK
<1> QED BY <1>1, <1>3, <1>4, AnswerRelies, AdminsGrow

\* A removal that overlaps no other leaves the administrator it relied on, and
\* nobody relies on the one it takes away.
LEMMA RemovalKeepsAdmins ==
    ASSUME TypeOK, AdminsOK, NEW r \in Request, pc[r] \in {"commit", "remove"},
           overlapped' = Overlap(r), StepsOK',
           \A q \in Request : Relies(q)' => Relies(q) /\ q # r /\ ask'[q] = ask[q],
           \A u \in User : Admin(u) /\ ~(ask[r].removes = TRUE /\ u = ask[r].target) => Admin(u)'
    PROVE  AdminsOK'
<1> DEFINE t == ask[r].target
<1>1. ask[r].removes \in BOOLEAN /\ overlapped \in BOOLEAN
  BY DEF TypeOK, RequestsOK, Ask
<1>2. overlapped' = FALSE => overlapped = FALSE
  BY <1>1 DEF Overlap
<1>3. CASE ask[r].removes = TRUE /\ Admin(t)
  <2> SUFFICES ASSUME overlapped' = FALSE
               PROVE  /\ \E u \in User : Admin(u)'
                      /\ \A q \in Request : Relies(q)' => Others(ask[q].target)'
    BY DEF AdminsOK
  <2>1. Others(t)
    BY <1>2, <1>3 DEF AdminsOK, Relies
  <2>2. \E u \in User : Admin(u)'
    BY <2>1 DEF Others
  <2>3. \A q \in Request : ~Relies(q)'
    <3>1. \A q \in Request \ {r} : ~InWindow(q)
      BY <1>3 DEF Overlap
    <3>2. \A q \in Request : Relies(q) => InWindow(q)
      BY DEF Relies, InWindow
    <3> QED BY <3>1, <3>2
  <2> QED BY <2>2, <2>3
<1>4. CASE ~(ask[r].removes = TRUE /\ Admin(t))
  <2>1. \A u \in User : Admin(u) => Admin(u)'
    BY <1>4
  <2> QED BY <1>2, <2>1, AdminsGrow
<1> QED BY <1>3, <1>4

LEMMA UpdateKeepsAdmins ==
    ASSUME TypeOK, AdminsOK, NEW r \in Request, UpdateUser(r)
    PROVE  AdminsOK'
<1> DEFINE t == ask[r].target
<1>1. PICK role \in Roles, active \in BOOLEAN :
        /\ ask[r].removes = (role # "admin" \/ ~active)
        /\ users' = IF Here(t)
                    THEN [users EXCEPT ![t] = [role |-> role, active |-> active,
                                               must |-> users[t].must, pw |-> users[t].pw]]
                    ELSE users
  BY DEF UpdateUser
<1>2. \A u \in User : Admin(u) /\ u # t => Admin(u)'
  BY <1>1 DEF Admin, Here
<1>3. ASSUME ask[r].removes # TRUE, NEW u \in User, u = t, Admin(u) PROVE Admin(u)'
  <2>1. role = "admin" /\ active = TRUE /\ Here(t)
    BY <1>1, <1>3 DEF Admin
  <2>2. u \in DOMAIN users' /\ users'[u].role = role /\ users'[u].active = active
    BY <1>1, <1>3, <2>1 DEF Here
  <2> QED BY <2>1, <2>2 DEF Admin, Here
<1>4. StepsOK' /\ \A q \in Request : Relies(q)' => Relies(q) /\ q # r /\ ask'[q] = ask[q]
  BY AnswerRelies DEF UpdateUser, AdminsOK
<1>5. pc[r] = "commit" /\ overlapped' = Overlap(r)
  BY DEF UpdateUser
<1> QED BY <1>2, <1>3, <1>4, <1>5, RemovalKeepsAdmins

LEMMA DeleteKeepsAdmins ==
    ASSUME TypeOK, AdminsOK, NEW r \in Request, DeleteUser(r)
    PROVE  AdminsOK'
<1> DEFINE t == ask[r].target
<1>1. pc[r] = "remove" /\ overlapped' = Overlap(r)
  BY DEF DeleteUser
<1>2. \A u \in User : Admin(u) /\ ~(ask[r].removes = TRUE /\ u = t) => Admin(u)'
  <2>1. CASE ask[r].op = "delete"
    <3>1. ask[r].removes = TRUE
      BY <1>1, <2>1 DEF AdminsOK, StepsOK
    <3>2. users' = Restrict(users, DOMAIN users \ {t})
      BY <2>1 DEF DeleteUser
    <3> QED BY <3>1, <3>2 DEF Admin, Here, Restrict
  <2>2. CASE ask[r].op # "delete"
    BY <2>2 DEF DeleteUser, Admin, Here
  <2> QED BY <2>1, <2>2
<1>3. StepsOK' /\ \A q \in Request : Relies(q)' => Relies(q) /\ q # r /\ ask'[q] = ask[q]
  <2>1. CASE Answer(r)
    BY <2>1, AnswerRelies DEF AdminsOK
  <2>2. CASE Go(r, "helper") /\ Keep
    BY <2>2 DEF Go, Keep, TypeOK, RequestsOK, AdminsOK, StepsOK, Relies
  <2> QED BY <2>1, <2>2 DEF DeleteUser
<1> QED BY <1>1, <1>2, <1>3, RemovalKeepsAdmins

LEMMA NextKeepsAdmins ==
    ASSUME TypeOK, [Next]_vars, AdminsOK
    PROVE  AdminsOK'
<1>1. TypeOK'
  BY NextTypeOK
<1>2. ASSUME NEW r \in Request, Handle(r) PROVE AdminsOK'
  <2>1. CASE LoginInsert(r) \/ Abandon(r) \/ Logout(r) \/ HelperSucceeds(r) \/ RestoreSessions(r)
    <3>1. Answer(r) /\ UNCHANGED <<users, overlapped>>
      BY <2>1 DEF LoginInsert, Abandon, Logout, HelperSucceeds, RestoreSessions, tables
    <3> QED BY <3>1, AnsweredKeepsAdmins
  <2> QED BY <1>1, <1>2, <2>1, GoingOnKeepsAdmins, FindTargetKeepsAdmins, CheckKeepsAdmins,
             ReadKeepsAdmins, AccountsKeepAdmins, UpdateKeepsAdmins, DeleteKeepsAdmins DEF Handle
<1>3. ASSUME NEW c \in Conn, NEW r \in Request, IssueTicket(r, c) PROVE AdminsOK'
  BY <1>3, AnsweredKeepsAdmins DEF IssueTicket, tables
<1>4. ASSUME UNCHANGED <<users, requests, overlapped>> PROVE AdminsOK'
  <2>1. StepsOK' /\ \A q \in Request : Relies(q)' => Relies(q) /\ ask'[q] = ask[q]
    BY <1>4 DEF requests, AdminsOK, StepsOK, Relies
  <2>2. \A u \in User : Admin(u) => Admin(u)'
    BY <1>4 DEF Admin, Here
  <2> QED BY <1>4, <2>1, <2>2, AdminsGrow
<1>5. ASSUME NEW c \in Conn, Upgrade(c) \/ Monitor(c) \/ Leave(c) PROVE AdminsOK'
  BY <1>4, <1>5 DEF Upgrade, Monitor, Leave, tables
<1>6. CASE UNCHANGED vars
  BY <1>4, <1>6 DEF vars, tables
<1> QED BY <1>2, <1>3, <1>5, <1>6 DEF Next

LEMMA InitAdmins == Init => AdminsOK
<1> SUFFICES ASSUME Init PROVE AdminsOK
  OBVIOUS
<1>1. Admin(1) /\ 1 \in User
  BY ConstantsOK DEF Init, Admin, Here, Founder
<1>2. \A r \in Request : pc[r] = "idle"
  BY DEF Init
<1> QED BY <1>1, <1>2 DEF AdminsOK, StepsOK, Relies

\* The panel keeps an active administrator unless two requests that remove
\* administrators overlap, whatever else requests do concurrently.
THEOREM AdministratorRemains == Spec => []AdminRemains
<1>1. TypeOK /\ AdminsOK /\ [Next]_vars => TypeOK' /\ AdminsOK'
  BY NextTypeOK, NextKeepsAdmins
<1>2. TypeOK /\ AdminsOK => AdminRemains
  BY DEF TypeOK, AdminsOK, AdminRemains
<1> QED BY <1>1, <1>2, InitTypeOK, InitAdmins, PTL DEF Spec
=============================================================================
