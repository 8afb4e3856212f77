--------------------------------- MODULE Files ---------------------------------
(***************************************************************************)
(* Files and directories changed through the panel: write, mkdir and       *)
(* remove of the root helper `privileged-files`, and the update of the     *)
(* Telegram token in the secrets file by `privileged-secret`.  Each request*)
(* has a helper of its own, and their steps interleave.  A helper fails at *)
(* any step, it outlives its request's deadline or is killed, and the host *)
(* loses power.                                                            *)
(*                                                                         *)
(* The file system (external) is the journalled one that Ubuntu installs:  *)
(* a power loss leaves the directories as they were at an earlier moment,  *)
(* and fsync, of a file or a directory, commits all of them.  The data of  *)
(* a file are safe only after its own fsync.  Owners and modes, which are  *)
(* copied from the file replaced or the directory above, the size of the   *)
(* text and the refusal of symbolic links are left out.                    *)
(***************************************************************************)
EXTENDS Integers

CONSTANTS Helpers,     \* the requests that are served
          Root,        \* a directory that is always there
          Paths,       \* the paths below it, the secrets file among them
          Parent,      \* per path: the directory it is in
          Secrets,     \* /etc/mini-ubuntu-server/secrets.env
          Files0,      \* the paths with a file at the start
          Tokens,      \* values of the token line
          Texts,       \* everything else in a file
          Start,       \* what these files hold
          Written,     \* what the requests write
          MaxFaults,   \* bound: steps that fail, deadlines, killed helpers
          MaxLosses    \* bound: power losses

Contents == [token : Tokens, text : Texts]

ASSUME PathsAssumption ==
    /\ Root \notin Paths
    /\ Parent \in [Paths -> Paths \cup {Root}]
    /\ Secrets \in Files0 /\ Files0 \subseteq Paths
ASSUME ContentsAssumption == Start \in Contents /\ Written \subseteq Contents
ASSUME BoundsAssumption == MaxFaults \in Nat /\ MaxLosses \in Nat

VARIABLES
    tree,       \* the entries as every process sees them
    temps,      \* the helpers whose temporary file exists
    disk,       \* the entries the journal has committed
    left,       \* the temporary files it has committed
    req,        \* per helper: its request and where it is
    clock,      \* auxiliary: changes of entries so far
    faults,
    losses

journal == <<disk, left>>
bounds == <<faults, losses>>
vars == <<tree, temps, disk, left, req, clock, faults, losses>>

NoContent == [token |-> "none", text |-> "none"]
Torn == [token |-> "torn", text |-> "torn"]

\* An entry: what it is, what a file holds and whether its data were synced.  The
\* auxiliary stamp is the number of the change that made it; `seen` in a request is
\* the stamp of the entry it read.
Entry == [kind : {"absent", "dir", "file"}, content : Contents \cup {NoContent, Torn},
          safe : BOOLEAN, stamp : Nat]
Absent(t) == [kind |-> "absent", content |-> NoContent, safe |-> TRUE, stamp |-> t]
Dir(t) == [kind |-> "dir", content |-> NoContent, safe |-> TRUE, stamp |-> t]
File(c, s, t) == [kind |-> "file", content |-> c, safe |-> s, stamp |-> t]

Init ==
    /\ tree = [p \in Paths |-> IF p \in Files0 THEN File(Start, TRUE, 0) ELSE Absent(0)]
    /\ disk = tree
    /\ temps = {}
    /\ left = {}
    /\ req = [h \in Helpers |->
                 [pc |-> "new", op |-> "write", path |-> Secrets, content |-> Start,
                  safe |-> FALSE, stamp |-> 0, seen |-> 0, answer |-> "none"]]
    /\ clock = 0
    /\ faults = 0
    /\ losses = 0

IsDir(d) == d = Root \/ (d \in Paths /\ tree[d].kind = "dir")
IsEmpty(d) == /\ \A p \in Paths : Parent[p] = d => tree[p].kind = "absent"
              /\ \A h \in temps : Parent[req[h].path] # d

Go(h, pc) == req' = [req EXCEPT ![h].pc = pc]
Fault == faults < MaxFaults /\ faults' = faults + 1

\* The helper ends and the handler answers, unless it has answered already.
Return(h, answer) ==
    req' = [req EXCEPT ![h].pc = "done",
                       ![h].answer = IF @ = "none" THEN answer ELSE @]

\* The entry of the request becomes e.
Change(h, e, pc) ==
    /\ tree' = [tree EXCEPT ![req[h].path] = e]
    /\ clock' = clock + 1
    /\ req' = [req EXCEPT ![h].pc = pc, ![h].stamp = clock + 1]

Committed == disk' = tree /\ left' = temps

-----------------------------------------------------------------------------
(* The handlers, which call the helper with a valid request.  The secrets  *)
(* file is in a directory that the shipped configuration allows.           *)

Receive(h, op, p, c) ==
    /\ req[h].pc = "new"
    /\ req' = [req EXCEPT ![h].pc = "check", ![h].op = op, ![h].path = p, ![h].content = c]
    /\ UNCHANGED <<tree, temps, journal, clock, bounds>>

FileWrite(h, p, c) == Receive(h, "write", p, c)
FileUpload(h, dir, p, c) == Parent[p] = dir /\ Receive(h, "write", p, c)
FileMkdir(h, p) == Receive(h, "mkdir", p, Start)
FileDelete(h, p) == Receive(h, "delete", p, Start)
UpdateTelegramToken(h, t) == Receive(h, "token", Secrets, [Start EXCEPT !.token = t])

\* The deadline passes: the request is answered as failed, but the panel cannot kill
\* a helper of root's, which runs on.
TimedOut(h) ==
    /\ req[h].pc \notin {"new", "done"}
    /\ req[h].answer = "none"
    /\ Fault
    /\ req' = [req EXCEPT ![h].answer = "failed"]
    /\ UNCHANGED <<tree, temps, journal, clock, losses>>

-----------------------------------------------------------------------------
(* write and replaceEnvironmentValue.                                      *)

CheckWrite(h) ==
    LET p == req[h].path
    IN  /\ req[h].pc = "check" /\ req[h].op = "write"
        /\ IF IsDir(Parent[p]) /\ tree[p].kind # "dir" THEN Go(h, "temp")
           ELSE Return(h, "failed")
        /\ UNCHANGED <<tree, temps, journal, clock, bounds>>

\* Mutant: the lines of the installed file are written, not those that were read.
ReplacedStart(content, token) == [Start EXCEPT !.token = token]

\* The secrets file is read; every line but the token's is kept.
Replaced(content, token) == [content EXCEPT !.token = token]

CheckToken(h) ==
    LET e == tree[req[h].path]
    IN  /\ req[h].pc = "check" /\ req[h].op = "token"
        /\ IF e.kind = "file"
           THEN req' = [req EXCEPT ![h].pc = "temp", ![h].seen = e.stamp,
                                   ![h].content = Replaced(e.content, @.token)]
           ELSE Return(h, "failed")
        /\ UNCHANGED <<tree, temps, journal, clock, bounds>>

\* CreateTemp, in the directory of the file; then its mode and its owner.
CreateTemp(h) ==
    /\ req[h].pc = "temp"
    /\ IF IsDir(Parent[req[h].path]) THEN temps' = temps \cup {h} /\ Go(h, "fill")
       ELSE Return(h, "failed") /\ UNCHANGED temps
    /\ UNCHANGED <<tree, journal, clock, bounds>>

Fill(h) ==
    /\ req[h].pc = "fill"
    /\ Go(h, "sync")
    /\ UNCHANGED <<tree, temps, journal, clock, bounds>>

Sync(h) ==
    /\ req[h].pc = "sync"
    /\ req' = [req EXCEPT ![h].pc = "rename", ![h].safe = TRUE]
    /\ Committed
    /\ UNCHANGED <<tree, temps, clock, bounds>>

\* A directory may have been made at the path since; a file never replaces it.
Rename(h) ==
    /\ req[h].pc = "rename"
    /\ temps' = temps \ {h}
    /\ IF tree[req[h].path].kind = "dir"
       THEN Return(h, "failed") /\ UNCHANGED <<tree, clock>>
       ELSE Change(h, File(req[h].content, req[h].safe, clock + 1), "syncdir")
    /\ UNCHANGED <<journal, bounds>>

-----------------------------------------------------------------------------
(* mkdir, remove and syncDirectory.                                        *)

Mkdir(h) ==
    /\ req[h].pc = "check" /\ req[h].op = "mkdir"
    /\ IF IsDir(Parent[req[h].path]) /\ tree[req[h].path].kind = "absent"
       THEN Change(h, Dir(clock + 1), "chown")
       ELSE Return(h, "failed") /\ UNCHANGED <<tree, clock>>
    /\ UNCHANGED <<temps, journal, bounds>>

Chown(h) ==
    /\ req[h].pc = "chown"
    /\ IF tree[req[h].path].kind = "absent" THEN Return(h, "failed") ELSE Go(h, "syncdir")
    /\ UNCHANGED <<tree, temps, journal, clock, bounds>>

\* os.Remove: a file, or a directory if it is empty.
CanRemove(p) == tree[p].kind = "file" \/ (tree[p].kind = "dir" /\ IsEmpty(p))

\* The owner cannot be set: the directory is removed again.
ChownFails(h) ==
    /\ req[h].pc = "chown"
    /\ Fault
    /\ IF CanRemove(req[h].path)
       THEN /\ tree' = [tree EXCEPT ![req[h].path] = Absent(clock + 1)]
            /\ clock' = clock + 1
       ELSE UNCHANGED <<tree, clock>>
    /\ Return(h, "failed")
    /\ UNCHANGED <<temps, journal, losses>>

Remove(h) ==
    /\ req[h].pc = "check" /\ req[h].op = "delete"
    /\ IF CanRemove(req[h].path) THEN Change(h, Absent(clock + 1), "syncdir")
       ELSE Return(h, "failed") /\ UNCHANGED <<tree, clock>>
    /\ UNCHANGED <<temps, journal, bounds>>

\* Mutant: the directory is not synced.
SyncDirectoryNot(h) ==
    /\ req[h].pc = "syncdir"
    /\ Return(h, "ok")
    /\ UNCHANGED <<tree, temps, journal, clock, bounds>>

\* The directory may be gone: what the request did in it was undone since.
SyncDirectory(h) ==
    /\ req[h].pc = "syncdir"
    /\ IF IsDir(Parent[req[h].path]) THEN Return(h, "ok") /\ Committed
       ELSE Return(h, "failed") /\ UNCHANGED journal
    /\ UNCHANGED <<tree, temps, clock, bounds>>

\* Any other step fails; the deferred call removes the temporary file.
Fails(h) ==
    /\ req[h].pc \notin {"new", "done", "chown"}
    /\ Fault
    /\ Return(h, "failed")
    /\ temps' = temps \ {h}
    /\ UNCHANGED <<tree, journal, clock, losses>>

-----------------------------------------------------------------------------
(* The host.                                                               *)

\* The helper is killed, and its temporary file stays.
Killed(h) ==
    /\ req[h].pc \notin {"new", "done"}
    /\ Fault
    /\ Return(h, "failed")
    /\ UNCHANGED <<tree, temps, journal, clock, losses>>

Commit ==
    /\ <<tree, temps>> # journal
    /\ Committed
    /\ UNCHANGED <<tree, temps, req, clock, bounds>>

\* What a power loss leaves of an entry.
Survivor(e) == IF e.safe THEN e ELSE [e EXCEPT !.content = Torn, !.safe = TRUE]

PowerLoss ==
    /\ losses < MaxLosses
    /\ losses' = losses + 1
    /\ tree' = [p \in Paths |-> Survivor(disk[p])]
    /\ disk' = tree'
    /\ temps' = left
    /\ req' = [h \in Helpers |->
                  IF req[h].pc \in {"new", "done"} THEN req[h]
                  ELSE [req[h] EXCEPT !.pc = "done", !.answer = IF @ = "none" THEN "failed" ELSE @]]
    /\ UNCHANGED <<left, clock, faults>>

-----------------------------------------------------------------------------
Handlers(h) ==
    \/ \E p \in Paths :
          \/ \E c \in Written : FileWrite(h, p, c) \/ FileUpload(h, Parent[p], p, c)
          \/ FileMkdir(h, p) \/ FileDelete(h, p)
    \/ \E t \in Tokens : UpdateTelegramToken(h, t)
    \/ TimedOut(h)

Replace(h) ==
    CheckWrite(h) \/ CheckToken(h) \/ CreateTemp(h) \/ Fill(h) \/ Sync(h) \/ Rename(h)

Helper(h) ==
    \/ Replace(h)
    \/ Mkdir(h) \/ Chown(h) \/ ChownFails(h)
    \/ Remove(h)
    \/ SyncDirectory(h)
    \/ Fails(h) \/ Killed(h)

Next ==
    \/ \E h \in Helpers : Handlers(h) \/ Helper(h)
    \/ Commit \/ PowerLoss

Spec == Init /\ [][Next]_vars

-----------------------------------------------------------------------------
(* Properties.                                                             *)

Ops == {"write", "token", "mkdir", "delete"}
Steps == {"new", "check", "temp", "fill", "sync", "rename", "chown", "syncdir", "done"}

\* Type invariant.
TypeOK ==
    /\ tree \in [Paths -> Entry]
    /\ disk \in [Paths -> Entry]
    /\ temps \subseteq Helpers
    /\ left \subseteq Helpers
    /\ req \in [Helpers -> [pc : Steps, op : Ops, path : Paths, content : Contents,
                            safe : BOOLEAN, stamp : Nat, seen : Nat,
                            answer : {"none", "ok", "failed"}]]
    /\ clock \in Nat
    /\ faults \in 0..MaxFaults
    /\ losses \in 0..MaxLosses

\* An update of the token that has still to replace the file it read.
Replacing(h) == req[h].op = "token" /\ req[h].pc \in {"temp", "fill", "sync", "rename"}

\* Whenever it is read, and whatever failed or was lost before, every file holds a
\* whole text that it held at the start or that a request for it asked for: two
\* replacements at once, a killed helper and a power loss leave no torn or mixed file.
\* And an update of the token writes back the other lines as they are, unless the file
\* manager or another update changed the file after it was read: nothing locks it (write,
\* replaceEnvironmentValue, read, TelegramToken).
WholeContents ==
    /\ \A p \in Paths : tree[p].kind = "file" =>
          \/ tree[p].content = Start
          \/ \E h \in Helpers : /\ req[h].path = p
                                /\ req[h].op \in {"write", "token"}
                                /\ tree[p].content = req[h].content
    /\ \A h \in Helpers :
          Replacing(h) /\ req[h].seen = tree[Secrets].stamp
              => req[h].content.text = tree[Secrets].content.text

\* Entry e is what request h asked for.
Done(h, e) ==
    CASE req[h].op \in {"write", "token"} -> e.kind = "file" /\ e.content = req[h].content
      [] req[h].op = "mkdir" -> e.kind = "dir"
      [] req[h].op = "delete" -> e.kind = "absent"

\* A change that was answered as made outlives every power loss: from then on the
\* journal holds it, or a later change of the same path (write, mkdir, remove,
\* syncDirectory, replaceEnvironmentValue).
AnsweredIsDurable ==
    \A h \in Helpers : req[h].answer = "ok" =>
        LET e == disk[req[h].path]
        IN  e.stamp > req[h].stamp \/ (e.stamp = req[h].stamp /\ Done(h, e))
=============================================================================
