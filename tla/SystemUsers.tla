------------------------------ MODULE SystemUsers ------------------------------
(***************************************************************************)
(* Linux accounts made and removed through the panel.  createUser and      *)
(* deleteUser change two stores in turn, the users table of the panel and, *)
(* through the root helper `privileged-user`, the accounts, the home       *)
(* directories and the SSH keys of the host; when the second change fails  *)
(* they undo the first.  Several requests run at once, every command may   *)
(* fail, and the panel may stop between any two steps, its helpers with it.*)
(*                                                                         *)
(* Each request is served once and keeps its answer.  The last             *)
(* administrator, the web sessions and the role of an account are the      *)
(* subject of Accounts.                                                    *)
(***************************************************************************)
EXTENDS Integers, FiniteSets

CONSTANTS Requests,   \* the requests that are served
          Names,      \* user names, of the panel and of Linux
          Founders,   \* names with an account in both at the start
          Nobody,     \* no name, no request
          Creates,    \* the bodies of POST /users
          Deletes,    \* the bodies of DELETE /users/:id, with the name of the user
          MaxFaults,  \* bound: commands and statements that fail
          MaxStops    \* bound: stops of the panel

ASSUME NamesAssumption ==
    /\ Founders \subseteq Names
    /\ Requests \cap Names = {}
    /\ Nobody \notin Requests \cup Names
ASSUME AsksAssumption ==
    /\ Creates \subseteq [kind : {"create"}, panel : BOOLEAN, name : Names,
                          system : BOOLEAN, sys : Names, home : BOOLEAN,
                          ssh : BOOLEAN, key : BOOLEAN]
    /\ Deletes \subseteq [kind : {"delete"}, name : Names, panel : BOOLEAN,
                          system : BOOLEAN, home : BOOLEAN, keys : BOOLEAN,
                          terminate : BOOLEAN]
ASSUME BoundsAssumption == MaxFaults \in Nat /\ MaxStops \in Nat

VARIABLES
    rows,       \* the users table: id, username, system_username
    maker,      \* per name: who made the Linux account, Nobody if there is none
    home,       \* the names whose home directory exists
    keys,       \* the names whose authorized_keys exists
    req,        \* per request: where its handler or its helper is
    faults,
    stops

host == <<maker, home, keys>>
vars == <<rows, host, req, faults, stops>>

NoAsk == [kind |-> "none"]
NoRow == [id |-> Nobody, name |-> Nobody, link |-> Nobody]

Init ==
    /\ rows = {[id |-> f, name |-> f, link |-> f] : f \in Founders}
    /\ maker = [n \in Names |-> IF n \in Founders THEN n ELSE Nobody]
    /\ home = Founders
    /\ keys = Founders
    /\ req = [r \in Requests |-> [pc |-> "new", ask |-> NoAsk, row |-> NoRow,
                                  why |-> "none", backup |-> FALSE, answer |-> "none"]]
    /\ faults = 0
    /\ stops = 0

Exists(n) == maker[n] # Nobody
Taken(n) == \E u \in rows : u.name = n

Go(r, pc) == req' = [req EXCEPT ![r].pc = pc]
Answer(r, a) == req' = [req EXCEPT ![r].pc = "done", ![r].answer = a]
Fault == faults < MaxFaults /\ faults' = faults + 1

-----------------------------------------------------------------------------
(* createUser.                                                             *)

\* The body is valid; the Linux account must not exist yet.
ReceiveCreate(r, q) ==
    /\ req[r].pc = "new"
    /\ q.panel \/ q.system
    /\ IF q.system /\ Exists(q.sys)
       THEN req' = [req EXCEPT ![r].ask = q, ![r].pc = "done",
                               ![r].answer = "system_username_exists"]
       ELSE req' = [req EXCEPT ![r].ask = q, ![r].pc = "count"]
    /\ UNCHANGED <<rows, host, faults, stops>>

\* Nor the panel account; then the helper is called, if a Linux account is asked for.
CountUsers(r) ==
    /\ req[r].pc = "count"
    /\ LET q == req[r].ask
       IN  IF q.panel /\ Taken(q.name) THEN Answer(r, "username_exists")
           ELSE Go(r, IF q.system THEN "inspect" ELSE "insert")
    /\ UNCHANGED <<rows, host, faults, stops>>

\* validateCreate, as far as the request tells: a key must come with allow_ssh.
ValidCreate(q) == q.ssh => q.key

\* The helper: create looks for the home directory and the account.
Inspect(r) ==
    /\ req[r].pc = "inspect"
    /\ LET q == req[r].ask
       IN  IF ValidCreate(q) /\ q.sys \notin home /\ ~Exists(q.sys) THEN Go(r, "useradd")
           ELSE Answer(r, "system_user_create_failed")
    /\ UNCHANGED <<rows, host, faults, stops>>

\* create returns no error: the panel's row comes next.
Created(r) == IF req[r].ask.panel THEN Go(r, "insert") ELSE Answer(r, "created")

\* The compensation, by the same helper or by a second call of it.
Compensate(r, why) == req' = [req EXCEPT ![r].pc = "lookup", ![r].why = why]

\* Mutant: whatever useradd fails for, its account is removed.
UseraddUndone(r) ==
    LET n == req[r].ask.sys
    IN  /\ req[r].pc = "useradd"
        /\ IF Exists(n) THEN Compensate(r, "undo") /\ UNCHANGED host
           ELSE /\ maker' = [maker EXCEPT ![n] = r]
                /\ home' = IF req[r].ask.home THEN home \cup {n} ELSE home
                /\ IF req[r].ask.ssh THEN Go(r, "mkdir") ELSE Created(r)
                /\ UNCHANGED keys
        /\ UNCHANGED <<rows, faults, stops>>

\* useradd makes the account, and its home directory if asked to, and refuses a
\* name that another helper has just taken.
Useradd(r) ==
    LET n == req[r].ask.sys
    IN  /\ req[r].pc = "useradd"
        /\ IF Exists(n) THEN Answer(r, "system_user_create_failed") /\ UNCHANGED host
           ELSE /\ maker' = [maker EXCEPT ![n] = r]
                /\ home' = IF req[r].ask.home THEN home \cup {n} ELSE home
                /\ IF req[r].ask.ssh THEN Go(r, "mkdir") ELSE Created(r)
                /\ UNCHANGED keys
        /\ UNCHANGED <<rows, faults, stops>>

\* useradd fails, perhaps after it wrote the account, with or without its home
\* directory: create returns the error and removes nothing.
UseraddFails(r) ==
    LET n == req[r].ask.sys
    IN  /\ req[r].pc = "useradd"
        /\ Fault
        /\ \/ UNCHANGED <<maker, home>>
           \/ /\ ~Exists(n)
              /\ maker' = [maker EXCEPT ![n] = r]
              /\ home' = home \/ (req[r].ask.home /\ home' = home \cup {n})
        /\ Answer(r, "system_user_create_failed")
        /\ UNCHANGED <<rows, keys, stops>>

\* installSSHKey: .ssh, and the home directory above it if there is none.
MakeSSH(r) ==
    LET n == req[r].ask.sys
    IN  /\ req[r].pc = "mkdir"
        /\ IF Exists(n) THEN home' = home \cup {n} /\ Go(r, "write")
           ELSE Compensate(r, "undo") /\ UNCHANGED home
        /\ UNCHANGED <<rows, maker, keys, faults, stops>>

MakeSSHFails(r) ==
    /\ req[r].pc = "mkdir"
    /\ Fault
    /\ home' \in {home, home \cup {req[r].ask.sys}}
    /\ Compensate(r, "undo")
    /\ UNCHANGED <<rows, maker, keys, stops>>

\* installSSHKey: the key file.
WriteKey(r) ==
    LET n == req[r].ask.sys
    IN  /\ req[r].pc = "write"
        /\ IF n \in home THEN keys' = keys \cup {n} /\ Created(r)
           ELSE Compensate(r, "undo") /\ UNCHANGED keys
        /\ UNCHANGED <<rows, maker, home, faults, stops>>

WriteKeyFails(r) ==
    /\ req[r].pc = "write"
    /\ Fault
    /\ keys' \in {keys, keys \cup ({req[r].ask.sys} \cap home)}
    /\ Compensate(r, "undo")
    /\ UNCHANGED <<rows, maker, home, stops>>

\* The row is not written: the Linux account, if one was made, is removed again.
InsertRefused(r) ==
    IF req[r].ask.system THEN Compensate(r, "rollback") ELSE Answer(r, "username_exists")

\* The panel's row.
Insert(r) ==
    LET q == req[r].ask
        link == IF q.system \/ q.sys # q.name THEN q.sys ELSE Nobody
    IN  /\ req[r].pc = "insert"
        /\ IF Taken(q.name) THEN InsertRefused(r) /\ UNCHANGED rows
           ELSE /\ rows' = rows \cup {[id |-> r, name |-> q.name, link |-> link]}
                /\ Answer(r, "created")
        /\ UNCHANGED <<host, faults, stops>>

InsertFails(r) ==
    /\ req[r].pc = "insert"
    /\ Fault
    /\ InsertRefused(r)
    /\ UNCHANGED <<rows, host, stops>>

\* The password cannot be hashed; the outcome of the removal is ignored.
HashFails(r) ==
    /\ req[r].pc = "insert"
    /\ Fault
    /\ IF req[r].ask.system THEN Compensate(r, "hash") ELSE Answer(r, "error")
    /\ UNCHANGED <<rows, host, stops>>

-----------------------------------------------------------------------------
(* The helper: remove.                                                     *)

\* What remove is asked for.
Removal(r) ==
    LET q == req[r].ask
    IN  IF req[r].why = "delete"
        THEN [name |-> req[r].row.link, system |-> q.system, home |-> q.home,
              keys |-> q.keys, terminate |-> q.terminate]
        ELSE [name |-> q.sys, system |-> TRUE, home |-> q.home,
              keys |-> FALSE, terminate |-> FALSE]

\* Mutant: the failure of the rollback is not told.
RemoveFailedQuietly(r) ==
    CASE req[r].why = "undo" -> Answer(r, "system_user_create_failed")
      [] req[r].why = "rollback" -> Answer(r, "username_exists")
      [] req[r].why = "hash" -> Answer(r, "error")
      [] req[r].why = "delete" /\ req[r].ask.panel -> Go(r, "restore")
      [] OTHER -> Answer(r, "system_user_delete_failed")

\* remove returns an error.
RemoveFailed(r) ==
    CASE req[r].why = "undo" -> Answer(r, "system_user_create_failed")
      [] req[r].why = "rollback" -> Answer(r, "panel_user_create_failed_rollback_failed")
      [] req[r].why = "hash" -> Answer(r, "error")
      [] req[r].why = "delete" /\ req[r].ask.panel -> Go(r, "restore")
      [] OTHER -> Answer(r, "system_user_delete_failed")

\* remove returns no error.
Removed(r) ==
    CASE req[r].why = "undo" -> Answer(r, "system_user_create_failed")
      [] req[r].why = "rollback" -> Answer(r, "username_exists")
      [] req[r].why = "hash" -> Answer(r, "error")
      [] OTHER -> Answer(r, "deleted")

\* The steps of remove after the keys.
AfterKeys(r) == IF Removal(r).system THEN Go(r, "userdel") ELSE Removed(r)

Lookup(r) ==
    /\ req[r].pc = "lookup"
    /\ IF ~Exists(Removal(r).name) THEN RemoveFailed(r)
       ELSE IF Removal(r).terminate THEN Go(r, "terminate")
       ELSE IF Removal(r).keys THEN Go(r, "readkey")
       ELSE AfterKeys(r)
    /\ UNCHANGED <<rows, host, faults, stops>>

\* loginctl ends the login sessions.  It is not undone.
Terminate(r) ==
    /\ req[r].pc = "terminate"
    /\ IF Removal(r).keys THEN Go(r, "readkey") ELSE AfterKeys(r)
    /\ UNCHANGED <<rows, host, faults, stops>>

\* validateSSHKeyPath needs the home directory; then the key file is read.
ReadKey(r) ==
    LET n == Removal(r).name
    IN  /\ req[r].pc = "readkey"
        /\ IF n \notin home THEN RemoveFailed(r)
           ELSE IF n \in keys THEN req' = [req EXCEPT ![r].pc = "unlink", ![r].backup = TRUE]
           ELSE AfterKeys(r)
        /\ UNCHANGED <<rows, host, faults, stops>>

Unlink(r) ==
    LET n == Removal(r).name
    IN  /\ req[r].pc = "unlink"
        /\ IF n \in keys THEN AfterKeys(r) ELSE RemoveFailed(r)
        /\ keys' = keys \ {n}
        /\ UNCHANGED <<rows, maker, home, faults, stops>>

\* A command that fails before it has an effect.
CommandFails(r) ==
    /\ req[r].pc \in {"lookup", "terminate", "readkey", "unlink"}
    /\ Fault
    /\ RemoveFailed(r)
    /\ UNCHANGED <<rows, host, stops>>

\* Mutant: the key that was read is not put back.
UserdelErrorForgets(r) == RemoveFailed(r)

UserdelError(r) == IF req[r].backup THEN Go(r, "putback") ELSE RemoveFailed(r)

Userdel(r) ==
    LET n == Removal(r).name
        gone == IF Exists(n) /\ Removal(r).home THEN {n} ELSE {}
    IN  /\ req[r].pc = "userdel"
        /\ maker' = [maker EXCEPT ![n] = Nobody]
        /\ home' = home \ gone
        /\ keys' = keys \ gone
        /\ IF Exists(n) THEN Removed(r) ELSE UserdelError(r)
        /\ UNCHANGED <<rows, faults, stops>>

\* userdel fails: the user is busy, or only the home directory could not be removed.
UserdelFails(r) ==
    /\ req[r].pc = "userdel"
    /\ Fault
    /\ maker' \in {maker, [maker EXCEPT ![Removal(r).name] = Nobody]}
    /\ UserdelError(r)
    /\ UNCHANGED <<rows, home, keys, stops>>

\* restoreSSHKey; its error is ignored.
PutBack(r) ==
    /\ req[r].pc = "putback"
    /\ keys' = keys \cup ({Removal(r).name} \cap home)
    /\ RemoveFailed(r)
    /\ UNCHANGED <<rows, maker, home, faults, stops>>

PutBackFails(r) ==
    /\ req[r].pc = "putback"
    /\ Fault
    /\ RemoveFailed(r)
    /\ UNCHANGED <<rows, host, stops>>

-----------------------------------------------------------------------------
(* deleteUser.                                                             *)

\* The target is read; a Linux account that is to be touched must be linked.
ReceiveDelete(r, q, u) ==
    /\ req[r].pc = "new"
    /\ u.name = q.name
    /\ q.home => q.system
    /\ q.panel \/ q.system \/ q.keys \/ q.terminate
    /\ (q.system \/ q.keys) => u.link # Nobody
    /\ req' = [req EXCEPT ![r].ask = q, ![r].row = u, ![r].pc = "remove"]
    /\ UNCHANGED <<rows, host, faults, stops>>

\* The panel's row is deleted by its id, then the helper is called if needed.
RemoveRow(r) ==
    LET q == req[r].ask
        u == req[r].row
    IN  /\ req[r].pc = "remove"
        /\ rows' = IF q.panel THEN {v \in rows : v.id # u.id} ELSE rows
        /\ IF u.link # Nobody /\ (q.system \/ q.keys \/ q.terminate)
           THEN Compensate(r, "delete") ELSE Answer(r, "deleted")
        /\ UNCHANGED <<host, faults, stops>>

\* restorePanelUser: the row is written back with its id.
Restore(r) ==
    LET u == req[r].row
    IN  /\ req[r].pc = "restore"
        /\ IF \E v \in rows : v.id = u.id \/ v.name = u.name
           THEN Answer(r, "system_user_delete_failed_rollback_failed") /\ UNCHANGED rows
           ELSE Answer(r, "system_user_delete_failed") /\ rows' = rows \cup {u}
        /\ UNCHANGED <<host, faults, stops>>

RestoreFails(r) ==
    /\ req[r].pc = "restore"
    /\ Fault
    /\ Answer(r, "system_user_delete_failed_rollback_failed")
    /\ UNCHANGED <<rows, host, stops>>

\* The panel stops, and systemd ends the helpers with it.
Stop ==
    /\ stops < MaxStops
    /\ stops' = stops + 1
    /\ req' = [r \in Requests |->
                  IF req[r].pc \in {"new", "done"} THEN req[r]
                  ELSE [req[r] EXCEPT !.pc = "done", !.answer = "stopped"]]
    /\ UNCHANGED <<rows, host, faults>>

-----------------------------------------------------------------------------
Create(r) ==
    \/ \E q \in Creates : ReceiveCreate(r, q)
    \/ CountUsers(r) \/ Insert(r) \/ InsertFails(r) \/ HashFails(r)

HelperCreate(r) ==
    \/ Inspect(r) \/ Useradd(r) \/ UseraddFails(r) \/ MakeSSH(r) \/ MakeSSHFails(r)
    \/ WriteKey(r) \/ WriteKeyFails(r)

HelperRemove(r) ==
    \/ Lookup(r) \/ Terminate(r) \/ ReadKey(r) \/ Unlink(r) \/ CommandFails(r)
    \/ Userdel(r) \/ UserdelFails(r) \/ PutBack(r) \/ PutBackFails(r)

Delete(r) ==
    \/ \E q \in Deletes, u \in rows : ReceiveDelete(r, q, u)
    \/ RemoveRow(r) \/ Restore(r) \/ RestoreFails(r)

Next ==
    \/ \E r \in Requests : Create(r) \/ HelperCreate(r) \/ HelperRemove(r) \/ Delete(r)
    \/ Stop

Spec == Init /\ [][Next]_vars

-----------------------------------------------------------------------------
(* Properties.                                                             *)

Steps == {"new", "count", "inspect", "useradd", "mkdir", "write", "insert", "lookup",
          "terminate", "readkey", "unlink", "userdel", "putback", "remove", "restore", "done"}
Answers == {"none", "stopped", "error", "created", "deleted", "username_exists",
            "system_username_exists", "system_user_create_failed",
            "panel_user_create_failed_rollback_failed", "system_user_delete_failed",
            "system_user_delete_failed_rollback_failed"}
Ids == Requests \cup Founders
Rows == [id : Ids, name : Names, link : Names \cup {Nobody}]

\* Type invariant.
TypeOK ==
    /\ rows \subseteq Rows
    /\ maker \in [Names -> Ids \cup {Nobody}]
    /\ home \subseteq Names
    /\ keys \subseteq Names
    /\ req \in [Requests -> [pc : Steps, ask : Creates \cup Deletes \cup {NoAsk},
                             row : Rows \cup {NoRow},
                             why : {"none", "undo", "rollback", "hash", "delete"},
                             backup : BOOLEAN, answer : Answers]]
    /\ faults \in 0..MaxFaults
    /\ stops \in 0..MaxStops

\* Request d is a deletion that was asked to remove the Linux account n.
AimedAt(d, n) ==
    req[d].ask.kind = "delete" /\ req[d].ask.system /\ req[d].row.link = n

\* A Linux account that was there before, or whose creation was answered, is only
\* ever removed by a deletion that was asked to remove it: no compensation of a
\* creation that lost the race for its name, none that is repeated and none of a
\* request the panel's row was refused to takes somebody else's account
\* (createUser, create, remove).
AccountsKept ==
    /\ \A f \in Founders : maker[f] = f \/ \E d \in Requests : AimedAt(d, f)
    /\ \A r \in Requests :
          req[r].answer = "created" /\ req[r].ask.system =>
              LET n == req[r].ask.sys
              IN  maker[n] = r \/ \E d \in Requests : AimedAt(d, n)

Made(r) == \E n \in Names : maker[n] = r

AsksFor(r, n) == req[r].ask.kind = "create" /\ req[r].ask.system /\ req[r].ask.sys = n

\* Why a home directory may outlive its account: a deletion was asked to leave it, or
\* so was a creation, whose undoing then leaves the one that installSSHKey made, or
\* that of an account made under the same name after a deletion.
HomeLeft(n) ==
    \/ \E d \in Requests : AimedAt(d, n) /\ ~req[d].ask.home
    \/ /\ \E r \in Requests : AsksFor(r, n) /\ ~req[r].ask.home
       /\ \E r \in Requests : (AsksFor(r, n) /\ req[r].ask.ssh) \/ AimedAt(r, n)

\* A creation that is refused leaves no Linux account behind: never when it is
\* answered that the name is taken, and for every other answer only if the removal
\* failed too, which is told when the row was refused and takes a second fault when
\* a command or the hash failed.  Only a useradd that fails after it wrote the account
\* leaves it by itself: create returns before anything is undone, so that `why` is
\* still "none".  Nor is a home directory left without its account, unless a request
\* was asked to leave it (createUser, create).
FailedCreateLeavesNothing ==
    /\ \A r \in Requests :
          /\ req[r].answer \in {"username_exists", "system_username_exists"} => ~Made(r)
          /\ /\ req[r].answer \in {"system_user_create_failed", "error"}
             /\ faults <= 1 /\ (req[r].why = "none" => faults = 0)
             => ~Made(r)
          /\ req[r].answer = "panel_user_create_failed_rollback_failed" /\ faults = 0 => ~Made(r)
    /\ faults = 0 => \A n \in home : Exists(n) \/ HomeLeft(n)

\* The compensation of a creation whose row was refused removes the Linux account and
\* the home directory that was just made (createUser).
CompensationIsComplete ==
    \A r \in Requests :
        LET n == req[r].ask.sys
        IN  req[r].why = "rollback" /\ req[r].answer = "username_exists"
                => Exists(n) \/ n \notin home

TakesRow(d, u) == req[d].ask.kind = "delete" /\ req[d].ask.panel /\ req[d].row.id = u.id
TakesKey(d, n) == req[d].ask.kind = "delete" /\ req[d].ask.keys /\ req[d].row.link = n

\* The account had a key when its creation was answered, or before.
WasGivenKey(n) ==
    \/ maker[n] \in Founders
    \/ \E r \in Requests : maker[n] = r /\ req[r].ask.ssh /\ req[r].answer = "created"

\* A deletion that is answered as failed has lost nothing: the panel's row is back,
\* unless another deletion took it, and an account that is still there has its key,
\* unless a deletion that does not say it failed was asked to remove it, a second
\* command failed or the panel stopped (deleteUser, restorePanelUser, remove).
FailedDeleteLosesNothing ==
    /\ \A d \in Requests :
          req[d].answer = "system_user_delete_failed" /\ req[d].ask.panel =>
              \/ req[d].row \in rows
              \/ \E e \in Requests \ {d} : TakesRow(e, req[d].row)
    /\ faults <= 1 /\ stops = 0 =>
          \A n \in Names :
              WasGivenKey(n) =>
                  \/ n \in keys
                  \/ \E d \in Requests :
                        /\ TakesKey(d, n)
                        /\ req[d].answer # "system_user_delete_failed"
=============================================================================
