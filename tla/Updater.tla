------------------------------- MODULE Updater -------------------------------
(***************************************************************************)
(* The `update` command (updater.performUpdate): it stops the service,     *)
(* backs the installation up, installs a release, starts the service and,  *)
(* when any step fails, rolls back.  Errors of the rollback are dropped.   *)
(* The command may be killed and the machine may reboot between two steps; *)
(* systemd then starts whatever is installed.                              *)
(*                                                                         *)
(* The content of a file is the number of the release that wrote it, 0 if  *)
(* there is no file; for the database it is the release whose migrations   *)
(* it has, and a WAL belongs to the database with its number.  The -shm    *)
(* file is rebuilt from these and left out, and so is pruneUpdateBackups,  *)
(* which only removes backups of earlier updates.  A second `update` is    *)
(* refused by the lock and changes nothing.  Releases only go forward,     *)
(* as `latest` does.                                                       *)
(*                                                                         *)
(* `before` and `spoiled` are auxiliary variables: no action reads them.   *)
(***************************************************************************)
EXTENDS Integers, Sequences

CONSTANTS MaxRelease,   \* bound: releases are 1..MaxRelease
          MaxFailures,  \* bound: commands and file operations that fail
          MaxCrashes    \* bound: kills of the command and reboots

ASSUME ReleasesAssumption ==
    /\ MaxRelease \in Nat \ {0}
    /\ MaxFailures \in Nat
    /\ MaxCrashes \in Nat

VARIABLES
    file,       \* what is installed
    running,    \* the release whose binary the service runs, 0 if it is stopped
    loaded,     \* the release whose unit systemd has loaded
    step,       \* the step performUpdate is at
    todo,       \* the files the step has still to handle, in order
    release,    \* the release being installed
    ships,      \* the optional files its archive holds
    backup,     \* the files in the backup directory of this update
    ready,      \* backupReady
    failures,   \* how many operations failed so far
    crashes,    \* how many kills and reboots there were so far
    before,     \* auxiliary: the files when the service was stopped
    spoiled     \* auxiliary: a rollback failed in part or was interrupted

discVars == <<file, backup>>
serviceVars == <<running, loaded>>
planVars == <<release, ships, ready>>
boundVars == <<failures, crashes>>
auxVars == <<before, spoiled>>
updateVars == <<discVars, serviceVars, step, todo, planVars, boundVars, auxVars>>

Optional == {"sudoers", "unit"}
Parts == {"binary", "db", "wal"} \cup Optional
Contents == [Parts -> 0..MaxRelease]
NoFiles == [f \in Parts |-> 0]

\* The order in which files are backed up and restored, and installed.
Saved == <<"binary", "db", "wal", "sudoers", "unit">>
Installed == <<"binary", "sudoers", "unit">>

UpdateInit ==
    /\ file \in {[f \in Parts |-> CASE f = "wal" -> w [] f = "sudoers" -> s [] OTHER -> 1] :
                    w, s \in {0, 1}}
    /\ running = 1
    /\ loaded = 1
    /\ step = "idle"
    /\ todo = <<>>
    /\ release = 0
    /\ ships = {}
    /\ backup = NoFiles
    /\ ready = FALSE
    /\ failures = 0
    /\ crashes = 0
    /\ before = NoFiles
    /\ spoiled = FALSE

\* performUpdate goes on with `next`, which handles the files of `files`.
Go(next, files) == step' = next /\ todo' = files

-----------------------------------------------------------------------------
(* The service.                                                            *)

Newer(m, n) == IF m > n THEN m ELSE n

\* The panel opens its database, migrates it and writes a WAL.
Serve ==
    /\ running # 0
    /\ file["wal"] \in {0, file["db"]}
    /\ LET schema == Newer(file["db"], running)
       IN  file' = [file EXCEPT !["db"] = schema, !["wal"] = schema]
    /\ UNCHANGED <<backup, serviceVars, step, todo, planVars, boundVars, auxVars>>

\* `systemctl stop`: the last connection to close removes the WAL, unless the
\* process had to be killed.
StopService ==
    /\ running' = 0
    /\ \/ file' = file
       \/ running # 0 /\ file["wal"] = file["db"] /\ file' = [file EXCEPT !["wal"] = 0]
    /\ UNCHANGED loaded

-----------------------------------------------------------------------------
(* The update.                                                             *)

\* Mutant: backupReady keeps the value the last update left.
PrepareReady ==
    /\ step = "idle"
    /\ release' \in file["binary"]..MaxRelease
    /\ ships' \in SUBSET Optional
    /\ backup' = NoFiles
    /\ Go("stop", <<>>)
    /\ UNCHANGED <<file, serviceVars, ready, boundVars, auxVars>>

\* The lock is taken and the archive downloaded, verified and unpacked; a failure
\* before this point changes nothing.
Prepare ==
    /\ step = "idle"
    /\ release' \in file["binary"]..MaxRelease
    /\ ships' \in SUBSET Optional
    /\ backup' = NoFiles
    /\ ready' = FALSE
    /\ Go("stop", <<>>)
    /\ UNCHANGED <<file, serviceVars, boundVars, auxVars>>

\* The service is stopped for the update.
TakeDown ==
    /\ step = "stop"
    /\ StopService
    /\ before' = file'
    /\ Go("backup", Saved)
    /\ UNCHANGED <<backup, planVars, boundVars, spoiled>>

\* Mutant: the backup leaves the WAL out.
BackupNoWal ==
    /\ step = "backup"
    /\ todo # <<>>
    /\ backup' = IF Head(todo) = "wal" THEN backup
                 ELSE [backup EXCEPT ![Head(todo)] = file[Head(todo)]]
    /\ Go("backup", Tail(todo))
    /\ UNCHANGED <<file, serviceVars, planVars, boundVars, auxVars>>

\* The next file, if it is there, is copied to the backup directory.
Backup ==
    /\ step = "backup"
    /\ todo # <<>>
    /\ backup' = [backup EXCEPT ![Head(todo)] = file[Head(todo)]]
    /\ Go("backup", Tail(todo))
    /\ UNCHANGED <<file, serviceVars, planVars, boundVars, auxVars>>

BackupDone ==
    /\ step = "backup"
    /\ todo = <<>>
    /\ ready' = TRUE
    /\ Go("install", Installed)
    /\ UNCHANGED <<discVars, serviceVars, release, ships, boundVars, auxVars>>

\* The next file of the release is written atomically, if the archive holds it.
Install ==
    /\ step = "install"
    /\ todo # <<>>
    /\ file' = IF Head(todo) \in Optional \ ships THEN file
               ELSE [file EXCEPT ![Head(todo)] = release]
    /\ Go("install", Tail(todo))
    /\ UNCHANGED <<backup, serviceVars, planVars, boundVars, auxVars>>

\* systemd reloads its units if a unit was installed.
Reload ==
    /\ step = "install"
    /\ todo = <<>>
    /\ loaded' = IF "unit" \in ships THEN file["unit"] ELSE loaded
    /\ Go("start", <<>>)
    /\ UNCHANGED <<discVars, running, planVars, boundVars, auxVars>>

\* `systemctl start` of the new release.
StartNew ==
    /\ step = "start"
    /\ running' = file["binary"]
    /\ Go("health", <<>>)
    /\ UNCHANGED <<discVars, loaded, planVars, boundVars, auxVars>>

\* The health endpoint answers, which it does once the database is migrated.
Healthy ==
    /\ step = "health"
    /\ running # 0
    /\ file["db"] >= running
    /\ Go("idle", <<>>)
    /\ UNCHANGED <<discVars, serviceVars, planVars, boundVars, auxVars>>

\* No healthy answer in 30 seconds: the release is broken, or too slow.
Unhealthy ==
    /\ step = "health"
    /\ Go("undo", <<>>)
    /\ UNCHANGED <<discVars, serviceVars, planVars, boundVars, auxVars>>

\* `systemctl stop` fails, or is answered as failed although the service stopped: the
\* command returns before its rollback is registered.
StopFails ==
    /\ step = "stop"
    /\ failures < MaxFailures
    /\ failures' = failures + 1
    /\ StopService \/ UNCHANGED <<file, serviceVars>>
    /\ Go("idle", <<>>)
    /\ UNCHANGED <<backup, planVars, crashes, auxVars>>

\* A later step fails; a systemctl command that failed may have had its effect.
StepFails ==
    /\ step \in {"backup", "install", "start"}
    /\ failures < MaxFailures
    /\ failures' = failures + 1
    /\ running' = running \/ (step = "start" /\ running' = file["binary"])
    /\ loaded' = loaded \/ (step = "install" /\ todo = <<>> /\ loaded' = file["unit"])
    /\ Go("undo", <<>>)
    /\ UNCHANGED <<discVars, planVars, crashes, auxVars>>

-----------------------------------------------------------------------------
(* The deferred rollback.                                                  *)

\* Mutant: only the binary, the sudoers file and the unit are restored.
UndoFilesOnly == IF ready THEN Installed ELSE <<>>

\* The files to restore: none if the backup was not finished.
UndoFiles == IF ready THEN Saved ELSE <<>>

\* Whatever runs is stopped.
Undo ==
    /\ step = "undo"
    /\ StopService
    /\ Go("restore", UndoFiles)
    /\ UNCHANGED <<backup, planVars, boundVars, auxVars>>

\* The next file is restored; a database file that was not there is removed, an
\* optional file that was not there is kept.
Restore ==
    /\ step = "restore"
    /\ todo # <<>>
    /\ LET f == Head(todo)
       IN  file' = IF f \in Optional /\ backup[f] = 0 THEN file
                   ELSE [file EXCEPT ![f] = backup[f]]
    /\ Go("restore", Tail(todo))
    /\ UNCHANGED <<backup, serviceVars, planVars, boundVars, auxVars>>

RestoreDone ==
    /\ step = "restore"
    /\ todo = <<>>
    /\ loaded' = IF ready THEN file["unit"] ELSE loaded
    /\ Go("restart", <<>>)
    /\ UNCHANGED <<discVars, running, planVars, boundVars, auxVars>>


Restart ==
    /\ step = "restart"
    /\ running' = file["binary"]
    /\ Go("idle", <<>>)
    /\ UNCHANGED <<discVars, loaded, planVars, boundVars, auxVars>>

\* A step of the rollback fails and the rollback goes on; a failure at the
\* database leaves its WAL alone as well, and may come after the removal, and a
\* systemctl command that failed may have had its effect.
UndoFails ==
    /\ failures < MaxFailures
    /\ failures' = failures + 1
    /\ spoiled' = TRUE
    /\ \/ /\ step = "undo"
          /\ Go("restore", UndoFiles)
          /\ StopService \/ UNCHANGED <<file, serviceVars>>
       \/ /\ step = "restore"
          /\ todo # <<>>
          /\ Go("restore", IF Head(todo) = "db" THEN Tail(Tail(todo)) ELSE Tail(todo))
          /\ \/ UNCHANGED file
             \/ Head(todo) \in {"db", "wal"} /\ file' = [file EXCEPT ![Head(todo)] = 0]
          /\ UNCHANGED serviceVars
       \/ /\ step = "restore"
          /\ todo = <<>>
          /\ Go("restart", <<>>)
          /\ loaded' \in {loaded, file["unit"]}
          /\ UNCHANGED <<file, running>>
       \/ /\ step = "restart"
          /\ Go("idle", <<>>)
          /\ running' \in {running, file["binary"]}
          /\ UNCHANGED <<file, loaded>>
    /\ UNCHANGED <<backup, planVars, crashes, before>>

-----------------------------------------------------------------------------
\* The command is killed, or the machine reboots and systemd starts the service.
Crash ==
    /\ step # "idle"
    /\ crashes < MaxCrashes
    /\ crashes' = crashes + 1
    /\ spoiled' = (spoiled \/ step \in {"undo", "restore", "restart"})
    /\ Go("idle", <<>>)
    /\ \/ UNCHANGED <<file, serviceVars>>
       \/ /\ running' = file["binary"]
          /\ loaded' = file["unit"]
          /\ \/ UNCHANGED file
             \/ /\ step = "restore"
                /\ todo # <<>>
                /\ Head(todo) \in {"db", "wal"}
                /\ file' = [file EXCEPT ![Head(todo)] = 0]
    /\ UNCHANGED <<backup, planVars, failures, before>>

performUpdate ==
    \/ Prepare \/ TakeDown \/ Backup \/ BackupDone \/ Install \/ Reload \/ StartNew
    \/ Healthy \/ Unhealthy \/ Undo \/ Restore \/ RestoreDone \/ Restart

UpdateNext == Serve \/ performUpdate \/ StopFails \/ StepFails \/ UndoFails \/ Crash

UpdateSpec == UpdateInit /\ [][UpdateNext]_updateVars

\* Commands and file operations return, and waitForHealth has a deadline.
Fairness == WF_updateVars(step # "idle" /\ performUpdate)

FairSpec == UpdateSpec /\ Fairness

-----------------------------------------------------------------------------
(* Properties.                                                             *)

Steps == {"idle", "stop", "backup", "install", "start", "health", "undo", "restore", "restart"}

\* Type invariant; `todo` is what is left of the list the step works through, and
\* a backup that is being written is not ready.
UpdateTypeOK ==
    /\ file \in Contents
    /\ running \in 0..MaxRelease
    /\ loaded \in 0..MaxRelease
    /\ step \in Steps
    /\ todo \in Seq(Parts)
    /\ release \in 0..MaxRelease
    /\ ships \in SUBSET Optional
    /\ backup \in Contents
    /\ ready \in BOOLEAN
    /\ step \in {"stop", "backup"} => ~ready
    /\ failures \in 0..MaxFailures
    /\ crashes \in 0..MaxCrashes
    /\ before \in Contents
    /\ spoiled \in BOOLEAN

\* What the service may be started on: the WAL, if there is one, is the
\* database's own, and no newer release has migrated the database.
Fits(binary) ==
    /\ file["wal"] \in {0, file["db"]}
    /\ file["db"] <= binary

\* A running service never sees a database that a rolled back release migrated,
\* nor a database with the WAL of another copy: the rollback restores both, with
\* the service stopped, whatever step failed or was interrupted, as long as the
\* rollback itself is neither interrupted nor fails (performUpdate,
\* restoreDatabaseBackup).
ServedDatabaseFits == running # 0 /\ ~spoiled => running = file["binary"] /\ Fits(running)

\* A rollback that did not fail leaves the installation as the update found it,
\* but for an optional file that was not there before.
RollbackIsExact ==
    step = "restart" /\ ~spoiled =>
        \A f \in Parts : file[f] = before[f] \/ (f \in Optional /\ before[f] = 0)


\* Everything an update changed is rolled back when it fails, a sudoers file and a
\* unit that were not there before included (performUpdate, restoreAuxFile).
RollbackIsComplete == step = "restart" /\ ~spoiled => file = before
=============================================================================
