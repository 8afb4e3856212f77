------------------------------ MODULE Accounts ------------------------------
(***************************************************************************)
(* Panel accounts, web sessions and terminal connections: the handlers of  *)
(* auth_handlers.go and user_handlers.go, run by concurrent requests.      *)
(*                                                                         *)
(* The database has one connection, so a statement or a transaction is one *)
(* step; everything between two of them may be overtaken.  `authorize`     *)
(* reads the user and then the session; the two reads are one step.  What  *)
(* the root helper does to Linux accounts is left out: it succeeds or it   *)
(* fails.  Sessions expire like they are revoked, and expiry is left out.  *)
(*                                                                         *)
(* A password is the number of the change that set it.  `excused` of a    *)
(* session, its `gen` and `overlapped` are auxiliary: no action reads them.*)
(***************************************************************************)
EXTENDS Integers, Functions

CONSTANTS Request,       \* the requests being served at a time
          Conn,          \* terminal connections
          Roles,         \* the roles in use
          Name,          \* user names
          NameOf,        \* the name the account with an id is created with
          Founders,      \* how many administrators exist at first
          MaxUsers,      \* bound: user ids
          MaxSessions,   \* bound: web sessions
          MaxChanges     \* bound: changes of accounts

User == 1..MaxUsers
Session == 1..MaxSessions
Password == 0..MaxChanges

ASSUME AccountsAssumption ==
    /\ MaxUsers \in Nat /\ MaxSessions \in Nat /\ MaxChanges \in Nat
    /\ Founders \in 1..MaxUsers
    /\ {"admin"} \subseteq Roles /\ Roles \subseteq {"admin", "operator", "viewer"}
    /\ NameOf \in [User -> Name]
    /\ \A u, v \in 1..Founders : NameOf[u] = NameOf[v] => u = v

VARIABLES
    users,         \* the rows of the table `users`, by id
    sessions,      \* the rows of `web_sessions`, by id
    nextUser,      \* AUTOINCREMENT of `users`
    nextSession,   \* the next session id
    changes,       \* how many changes of accounts were committed
    pc,            \* what each request does next
    ask,           \* what it asks, and who asks
    seen,          \* the user row it has read
    saved,         \* the session rows it has read
    conn,          \* the terminal connections and their tickets
    overlapped     \* auxiliary: two requests that remove administrators overlapped

tables == <<users, sessions>>
counters == <<nextUser, nextSession, changes>>
requests == <<pc, ask, seen, saved>>
vars == <<tables, counters, requests, conn, overlapped>>

Account == [role : Roles, active : BOOLEAN, must : BOOLEAN, pw : Password]
WebSession == [user : User, revoked : BOOLEAN, gen : Password, excused : BOOLEAN]

AdminOps == {"create", "update", "delete", "terminate", "reset"}
OwnOps == {"change", "logout", "revoke"}
Ops == AdminOps \cup OwnOps \cup {"login", "ticket"}

\* `removes`: the target is to be an active administrator no more.  Fields keep
\* their value in NoAsk where the handler does not look at them (again).
Ask == [op : Ops, actor : User, sess : 0..MaxSessions, target : User, removes : BOOLEAN]

Founder == [role |-> "admin", active |-> TRUE, must |-> FALSE, pw |-> 0]
Asking(op, u, s) == [op |-> op, actor |-> u, sess |-> s, target |-> 1, removes |-> FALSE]
NoAsk == Asking("login", 1, 0)
NoRows == [s \in {} |-> 0]
NoConn == [stage |-> "none", user |-> 1, sess |-> 0]

Init ==
    /\ users = [u \in 1..Founders |-> Founder]
    /\ sessions = NoRows
    /\ nextUser = Founders + 1
    /\ nextSession = 1
    /\ changes = 0
    /\ pc = [r \in Request |-> "idle"]
    /\ ask = [r \in Request |-> NoAsk]
    /\ seen = [r \in Request |-> Founder]
    /\ saved = [r \in Request |-> NoRows]
    /\ conn = [c \in Conn |-> NoConn]
    /\ overlapped = FALSE

-----------------------------------------------------------------------------
(* The tables.                                                             *)

Here(u) == u \in DOMAIN users
Admin(u) == Here(u) /\ users[u].role = "admin" /\ users[u].active
Valid(s) == s \in DOMAIN sessions /\ ~sessions[s].revoked

NameTaken(u) == \E v \in DOMAIN users : NameOf[v] = NameOf[u]

\* The table f with the row x at i, new or not.
With(f, i, x) == [j \in DOMAIN f \cup {i} |-> IF j = i THEN x ELSE f[j]]

\* The sessions of user u but those of `keep` are revoked.
Revoked(u, keep) ==
    [s \in DOMAIN sessions |->
        IF sessions[s].user = u /\ s \notin keep
        THEN [sessions[s] EXCEPT !.revoked = TRUE] ELSE sessions[s]]

-----------------------------------------------------------------------------
(* Requests.                                                               *)

\* Request r goes on with `next`, keeping what it has read.
Go(r, next) == pc' = [pc EXCEPT ![r] = next]
Keep == UNCHANGED <<ask, seen, saved>>

\* Request r is answered.
Answer(r) ==
    /\ pc' = [pc EXCEPT ![r] = "idle"]
    /\ ask' = [ask EXCEPT ![r] = NoAsk]
    /\ seen' = [seen EXCEPT ![r] = Founder]
    /\ saved' = [saved EXCEPT ![r] = NoRows]

\* `authorize` and `requireRole` let the operation through.
Permitted(u, op) ==
    /\ users[u].must => op \in {"change", "logout"}
    /\ op \in AdminOps => users[u].role = "admin"
    /\ op = "ticket" => users[u].role \in {"admin", "operator"}

\* Bound: while there is a ticket or a terminal, requests are served one by one
\* (no request looks at the terminals).
Served(r) == (\A c \in Conn : conn[c].stage = "none") \/ \A q \in Request \ {r} : pc[q] = "idle"

\* A request with a session's token is authorized.  What it asks for in detail is
\* chosen where it is first used.
Authorize(r) ==
    /\ pc[r] = "idle" /\ Served(r)
    /\ \E s \in DOMAIN sessions, op \in Ops \ {"login"} :
          LET u == sessions[s].user
          IN  /\ Valid(s) /\ Here(u) /\ users[u].active
              /\ Permitted(u, op)
              /\ ask' = [ask EXCEPT ![r] =
                     Asking(op, IF op \in {"create", "reset", "terminate"} THEN 1 ELSE u,
                                IF op \in AdminOps THEN 0 ELSE s)]
              /\ Go(r, IF op \in {"update", "delete", "terminate"} THEN "find" ELSE op)
    /\ UNCHANGED <<tables, counters, seen, saved, conn, overlapped>>

\* A request ends early: a statement fails, or the panel stops.
Abandon(r) ==
    /\ pc[r] # "idle"
    /\ Answer(r)
    /\ UNCHANGED <<tables, counters, conn, overlapped>>

-----------------------------------------------------------------------------
(* login, changePassword, resetUserPassword, logout, revokeSession.        *)

\* The user is found by name, is active, and the password matches.
LoginVerify(r) ==
    /\ pc[r] = "idle" /\ Served(r)
    /\ \E u \in DOMAIN users :
          /\ users[u].active
          /\ ask' = [ask EXCEPT ![r] = Asking("login", u, 0)]
          /\ seen' = [seen EXCEPT ![r].pw = users[u].pw]
    /\ Go(r, "login")
    /\ UNCHANGED <<tables, counters, saved, conn, overlapped>>

\* The session is inserted, if its user still exists (foreign key).
LoginInsert(r) ==
    /\ pc[r] = "login"
    /\ LET u == ask[r].actor
           s == nextSession
       IN  IF Here(u)
           THEN /\ s \in Session
                /\ sessions' = With(sessions, s,
                       [user |-> u, revoked |-> FALSE, gen |-> seen[r].pw,
                        excused |-> ~(users[u].active /\ users[u].pw = seen[r].pw)])
                /\ nextSession' = s + 1
           ELSE UNCHANGED <<sessions, nextSession>>
    /\ Answer(r)
    /\ UNCHANGED <<users, nextUser, changes, conn, overlapped>>

\* User u has a new password, and has to change it if `must`.
Changed(u, must) ==
    [users EXCEPT ![u] = [role |-> users[u].role, active |-> users[u].active,
                          must |-> must, pw |-> changes + 1]]

\* changePassword: the current password was verified; the new one is set and the
\* other sessions are revoked.
ChangePassword(r) ==
    /\ pc[r] = "change"
    /\ changes < MaxChanges
    /\ LET u == ask[r].actor
           own == ask[r].sess
       IN  /\ Here(u)
           /\ users' = Changed(u, FALSE)
           /\ sessions' = [s \in DOMAIN sessions |->
                  IF s = own /\ sessions[s].user = u THEN [sessions[s] EXCEPT !.gen = changes + 1]
                  ELSE Revoked(u, {own})[s]]
    /\ changes' = changes + 1
    /\ Answer(r)
    /\ UNCHANGED <<nextUser, nextSession, conn, overlapped>>

\* Mutant: a reset leaves the sessions alone.
ResetOnly(r) ==
    /\ pc[r] = "reset"
    /\ changes < MaxChanges
    /\ \E u \in DOMAIN users : users' = Changed(u, TRUE)
    /\ changes' = changes + 1
    /\ Answer(r)
    /\ UNCHANGED <<sessions, nextUser, nextSession, conn, overlapped>>

\* resetUserPassword: the password is set and all sessions are revoked.
Reset(r) ==
    /\ pc[r] = "reset"
    /\ changes < MaxChanges
    /\ \E u \in DOMAIN users :
          /\ users' = Changed(u, TRUE)
          /\ sessions' = Revoked(u, {})
    /\ changes' = changes + 1
    /\ Answer(r)
    /\ UNCHANGED <<nextUser, nextSession, conn, overlapped>>

\* logout revokes the request's session, revokeSession any session of its user.
Logout(r) ==
    /\ pc[r] \in {"logout", "revoke"}
    /\ \E s \in DOMAIN sessions :
          /\ IF pc[r] = "logout" THEN s = ask[r].sess ELSE sessions[s].user = ask[r].actor
          /\ sessions' = [sessions EXCEPT ![s].revoked = TRUE]
    /\ Answer(r)
    /\ UNCHANGED <<users, counters, conn, overlapped>>

-----------------------------------------------------------------------------
(* createUser and updateUser.                                              *)

\* The account is inserted, if its name is free.
CreateUser(r) ==
    /\ pc[r] = "create"
    /\ nextUser \in User
    /\ ~NameTaken(nextUser)
    /\ changes < MaxChanges
    /\ \E role \in Roles :
          users' = With(users, nextUser,
                        [role |-> role, active |-> TRUE, must |-> FALSE, pw |-> changes + 1])
    /\ nextUser' = nextUser + 1
    /\ changes' = changes + 1
    /\ Answer(r)
    /\ UNCHANGED <<sessions, nextSession, conn, overlapped>>

\* Where an update, a deletion or a termination of sessions goes on.
NextStep(r) == IF ask[r].op = "update" THEN "commit" ELSE "read"

\* The target is read; nobody removes the own account or admin role.
FindTarget(r) ==
    /\ pc[r] = "find"
    /\ \E t \in DOMAIN users, removes \in BOOLEAN :
          /\ ask[r].op = "delete" => removes
          /\ ask[r].op = "terminate" => ~removes
          /\ ~(t = ask[r].actor /\ removes)
          /\ ask' = [ask EXCEPT ![r] =
                 [op |-> ask[r].op, actor |-> 1, sess |-> 0, target |-> t, removes |-> removes]]
          /\ seen' = IF ask[r].op = "delete" THEN [seen EXCEPT ![r] = users[t]] ELSE seen
          /\ Go(r, IF Admin(t) /\ removes THEN "check" ELSE NextStep(r))
    /\ UNCHANGED <<tables, counters, saved, conn, overlapped>>

\* Mutant: the target itself is counted.
LastAdminNone(t) == \A u \in User : ~Admin(u)

\* isLastActiveAdmin: no other account is an active administrator.
LastAdmin(t) == \A u \in User \ {t} : ~Admin(u)

CheckLastAdmin(r) ==
    /\ pc[r] = "check"
    /\ IF LastAdmin(ask[r].target) THEN Answer(r) ELSE Go(r, NextStep(r)) /\ Keep
    /\ UNCHANGED <<tables, counters, conn, overlapped>>

\* Between reading its target and changing it, a removal relies on what it read.
InWindow(r) == pc[r] \in {"check", "commit", "read", "remove"} /\ ask[r].removes
Overlap(r) == overlapped \/ (ask[r].removes /\ Admin(ask[r].target)
                             /\ \E q \in Request \ {r} : InWindow(q))

\* The update; deactivation revokes the sessions.
UpdateUser(r) ==
    /\ pc[r] = "commit"
    /\ LET t == ask[r].target
       IN  \E role \in Roles, active \in BOOLEAN :
              /\ ask[r].removes = (role # "admin" \/ ~active)
              /\ users' = IF Here(t)
                          THEN [users EXCEPT ![t] = [role |-> role, active |-> active,
                                                     must |-> users[t].must, pw |-> users[t].pw]]
                          ELSE users
              /\ sessions' = IF active THEN sessions ELSE Revoked(t, {})
    /\ overlapped' = Overlap(r)
    /\ changes < MaxChanges
    /\ changes' = changes + 1
    /\ Answer(r)
    /\ UNCHANGED <<nextUser, nextSession, conn>>

-----------------------------------------------------------------------------
(* deleteUser.                                                             *)

\* The sessions are read, for a rollback.
ReadSessions(r) ==
    /\ pc[r] = "read"
    /\ LET mine == {s \in DOMAIN sessions : sessions[s].user = ask[r].target}
       IN  saved' = [saved EXCEPT ![r] = Restrict(sessions, mine)]
    /\ Go(r, "remove")
    /\ UNCHANGED <<tables, counters, ask, seen, conn, overlapped>>

\* Mutant: the sessions of a deleted account stay.
DeleteUserOnly(r) ==
    /\ pc[r] = "remove"
    /\ LET t == ask[r].target
       IN  IF ask[r].op = "delete"
           THEN users' = Restrict(users, DOMAIN users \ {t}) /\ UNCHANGED sessions
           ELSE UNCHANGED users /\ sessions' = Revoked(t, {})
    /\ overlapped' = Overlap(r)
    /\ changes < MaxChanges
    /\ changes' = changes + 1
    /\ \/ Answer(r)
       \/ Go(r, "helper") /\ Keep
    /\ UNCHANGED <<nextUser, nextSession, conn>>

\* The account is deleted, and its sessions with it, or the sessions are revoked;
\* the root helper may have to act next.
DeleteUser(r) ==
    /\ pc[r] = "remove"
    /\ LET t == ask[r].target
       IN  IF ask[r].op = "delete"
           THEN /\ users' = Restrict(users, DOMAIN users \ {t})
                /\ sessions' = Restrict(sessions,
                                   {s \in DOMAIN sessions : sessions[s].user # t})
           ELSE UNCHANGED users /\ sessions' = Revoked(t, {})
    /\ overlapped' = Overlap(r)
    /\ changes < MaxChanges
    /\ changes' = changes + 1
    /\ \/ Answer(r)
       \/ Go(r, "helper") /\ Keep
    /\ UNCHANGED <<nextUser, nextSession, conn>>

\* The helper succeeds.
HelperSucceeds(r) ==
    /\ pc[r] = "helper"
    /\ Answer(r)
    /\ UNCHANGED <<tables, counters, conn, overlapped>>

Excuse(rows) == [s \in DOMAIN rows |-> [rows[s] EXCEPT !.excused = TRUE]]
Merge(rows) == [s \in DOMAIN sessions \cup DOMAIN rows |->
                   IF s \in DOMAIN rows THEN rows[s] ELSE sessions[s]]

\* The helper fails: restorePanelUser inserts what was read, if neither the id nor
\* the name is taken.
RestorePanelUser(r) ==
    /\ pc[r] = "helper"
    /\ ask[r].op = "delete"
    /\ ~Here(ask[r].target) /\ ~NameTaken(ask[r].target)
    /\ users' = With(users, ask[r].target, seen[r])
    /\ sessions' = Merge(Excuse(saved[r]))
    /\ Answer(r)
    /\ UNCHANGED <<counters, conn, overlapped>>

\* The helper fails: restoreSessions writes the sessions back as they were read.
RestoreSessions(r) ==
    /\ pc[r] = "helper"
    /\ ask[r].op = "terminate"
    /\ Here(ask[r].target)
    /\ sessions' = Merge(Excuse(saved[r]))
    /\ Answer(r)
    /\ UNCHANGED <<users, counters, conn, overlapped>>

-----------------------------------------------------------------------------
(* Terminal connections.                                                   *)

\* terminalTicket
IssueTicket(r, c) ==
    /\ pc[r] = "ticket"
    /\ conn[c].stage = "none"
    /\ \A q \in Request \ {r} : pc[q] = "idle"
    /\ conn' = [conn EXCEPT ![c] = [stage |-> "ticket", user |-> ask[r].actor, sess |-> ask[r].sess]]
    /\ Answer(r)
    /\ UNCHANGED <<tables, counters, overlapped>>

\* terminalUpgrade consumes the ticket, which alone lets the browser in.
Upgrade(c) ==
    /\ conn[c].stage = "ticket"
    /\ conn' = [conn EXCEPT ![c].stage = "open"]
    /\ UNCHANGED <<tables, counters, requests, overlapped>>

\* Mutant: the ticket's session is not looked at.
MayStayUser(u, s) ==
    /\ Here(u) /\ users[u].active /\ users[u].role \in {"admin", "operator"}

\* terminalAuthorizationValid
MayStay(u, s) ==
    /\ Here(u) /\ users[u].active /\ users[u].role \in {"admin", "operator"}
    /\ Valid(s) /\ sessions[s].user = u

\* monitorTerminalAuthorization, every 30 seconds.
Monitor(c) ==
    /\ conn[c].stage = "open"
    /\ ~MayStay(conn[c].user, conn[c].sess)
    /\ conn' = [conn EXCEPT ![c] = NoConn]
    /\ UNCHANGED <<tables, counters, requests, overlapped>>

\* The ticket expires unused, or the browser leaves.
Leave(c) ==
    /\ conn[c].stage \in {"ticket", "open"}
    /\ conn' = [conn EXCEPT ![c] = NoConn]
    /\ UNCHANGED <<tables, counters, requests, overlapped>>

-----------------------------------------------------------------------------
Handle(r) ==
    \/ LoginVerify(r) \/ LoginInsert(r) \/ Authorize(r) \/ Abandon(r)
    \/ ChangePassword(r) \/ Reset(r) \/ Logout(r)
    \/ CreateUser(r) \/ FindTarget(r) \/ CheckLastAdmin(r) \/ UpdateUser(r)
    \/ ReadSessions(r) \/ DeleteUser(r) \/ HelperSucceeds(r)
    \/ RestorePanelUser(r) \/ RestoreSessions(r)

Next ==
    \/ \E r \in Request : Handle(r) \/ \E c \in Conn : IssueTicket(r, c)
    \/ \E c \in Conn : Upgrade(c) \/ Monitor(c) \/ Leave(c)

Spec == Init /\ [][Next]_vars

\* The ticker of each connection goes on, and reading the database returns.
Fairness == \A c \in Conn : WF_vars(Monitor(c))

FairSpec == Spec /\ Fairness

-----------------------------------------------------------------------------
(* Properties.                                                             *)

Steps == OwnOps \cup {"idle", "login", "create", "reset", "ticket", "find", "check",
                      "commit", "read", "remove", "helper"}

\* Ids and names are unique, and every session has a user.
TablesOK ==
    /\ nextUser \in (Founders + 1)..(MaxUsers + 1)
    /\ nextSession \in 1..(MaxSessions + 1)
    /\ changes \in Password
    /\ DOMAIN users \subseteq 1..(nextUser - 1)
    /\ \A u \in DOMAIN users : users[u] \in Account
    /\ DOMAIN sessions \subseteq 1..(nextSession - 1)
    /\ \A s \in DOMAIN sessions : sessions[s] \in WebSession /\ Here(sessions[s].user)
    /\ \A u, v \in DOMAIN users : NameOf[u] = NameOf[v] => u = v

\* What a deletion has read belongs to its target.
RequestsOK ==
    /\ pc \in [Request -> Steps]
    /\ ask \in [Request -> Ask]
    /\ seen \in [Request -> Account]
    /\ DOMAIN saved = Request
    /\ \A r \in Request :
          /\ ask[r].target < nextUser
          /\ DOMAIN saved[r] \subseteq (IF pc[r] \in {"remove", "helper"} THEN 1..(nextSession - 1) ELSE {})
          /\ \A s \in DOMAIN saved[r] : saved[r][s] \in WebSession /\ saved[r][s].user = ask[r].target

\* Type invariant.
TypeOK ==
    /\ TablesOK
    /\ RequestsOK
    /\ conn \in [Conn -> [stage : {"none", "ticket", "open"}, user : User, sess : 0..MaxSessions]]
    /\ overlapped \in BOOLEAN

\* The panel keeps an active administrator, whatever requests run concurrently and
\* however stale their authorization, unless two requests that take administrators
\* away were both between reading their target and changing it (isLastActiveAdmin
\* is not part of the transaction).
AdminRemains == overlapped \/ \E u \in User : Admin(u)

\* A valid web session belongs to an active account and was opened, or kept, with
\* the account's present password: every reset, change, deactivation and deletion
\* ends the others in its own transaction.  Excused are a session whose login
\* verified the password before such a change and was inserted after it, and the
\* sessions the rollback of a failed deletion wrote back (login, restoreSessions).
SessionsAreCurrent ==
    \A s \in DOMAIN sessions :
        Valid(s) /\ ~sessions[s].excused =>
            LET u == users[sessions[s].user]
            IN  u.active /\ u.pw = sessions[s].gen

\* Both the user and the web session a terminal was opened with still allow it.
Access(c) ==
    LET u == conn[c].user
        s == conn[c].sess
    IN  /\ Here(u) /\ users[u].active /\ users[u].role \in {"admin", "operator"}
        /\ s \in DOMAIN sessions /\ ~sessions[s].revoked

\* A terminal connection whose user or web session has lost its rights is closed,
\* unless it gets them back first (monitorTerminalAuthorization).
AccessLostIsNoticed ==
    \A c \in Conn : (conn[c].stage = "open" /\ ~Access(c)) ~> (conn[c].stage # "open" \/ Access(c))

\* "Нельзя удалить себя или последнего активного администратора." (i18n.ts:139)
LastAdminProtected == \E u \in User : Admin(u)
=============================================================================
