--------------------------------- MODULE Docker ---------------------------------
(***************************************************************************)
(* The Docker adapter: pulls of images, which run in the background and    *)
(* are listed in a registry of bounded length, and the requests that       *)
(* change containers, images, volumes and networks by one or two calls of  *)
(* the engine (external) and are then written to the audit log.  Requests  *)
(* and pulls interleave, the answer of a call may come too late, and the   *)
(* panel may stop.                                                         *)
(*                                                                         *)
(* Left out: what only reads (lists, logs), the checks of names and ports, *)
(* the audit row of a pull, and what a container does by itself.           *)
(***************************************************************************)
EXTENDS Integers, Sequences

CONSTANTS Requests,   \* the requests that are served
          Refs,       \* references of images: a name and a tag, or NoTag
          NoTag, Latest,
          Bodies,     \* the bodies of POST /docker/containers
          Volumes,    \* names of volumes
          Networks,   \* the networks at the start
          Nothing,    \* no volume, no call, no container
          Limit,      \* the length of the registry, 20 in the code
          MaxPulls,   \* bound: pulls that are started
          MaxFaults   \* bound: answers and audit rows that are lost, stops of the panel

Names == {r.name : r \in Refs}
Tags == ({r.tag : r \in Refs} \cup {Latest}) \ {NoTag}
Images == [name : Names, tag : Tags]

ASSUME RefsAssumption ==
    /\ Refs \subseteq [name : Names, tag : Tags \cup {NoTag}]
    /\ Latest # NoTag
ASSUME BodiesAssumption ==
    Bodies \subseteq [name : STRING, image : Images, volume : Volumes \cup {Nothing},
                      start : BOOLEAN]
ASSUME BoundsAssumption ==
    Limit \in Nat \ {0} /\ MaxPulls \in Nat /\ MaxFaults \in Nat

VARIABLES
    jobs,       \* pullRegistry.jobs
    seq,        \* pullRegistry.seq
    pulls,      \* the goroutines of StartPull that run
    images, boxes,            \* what the engine has: images, a container per request,
    volumes, networks,        \* volumes and networks
    req,        \* per request: its call and where it is
    log,        \* the requests in the audit log
    started,
    faults

registry == <<jobs, seq, pulls>>
engine == <<images, boxes, volumes, networks>>
bounds == <<started, faults>>
vars == <<registry, engine, req, log, started, faults>>

NoBox == [state |-> "absent", body |-> Nothing]

Init ==
    /\ jobs = <<>>
    /\ seq = 0
    /\ pulls = {}
    /\ images = {}
    /\ boxes = [h \in Requests |-> NoBox]
    /\ volumes = {}
    /\ networks = Networks
    /\ req = [h \in Requests |-> [pc |-> "new", op |-> Nothing, target |-> Nothing,
                                  made |-> FALSE, lost |-> FALSE, answer |-> "none"]]
    /\ log = {}
    /\ started = 0
    /\ faults = 0

Fault == faults < MaxFaults /\ faults' = faults + 1

-----------------------------------------------------------------------------
(* Pulls.                                                                  *)

\* A reference without a tag means the latest.
Tagged(ref) == IF ref.tag = NoTag THEN [ref EXCEPT !.tag = Latest] ELSE ref

Job(id, image) == [id |-> id, image |-> image, status |-> "running"]

\* The last Limit jobs: an older one is dropped, even if it runs.
Trim(s) == IF Len(s) > Limit THEN SubSeq(s, Len(s) - Limit + 1, Len(s)) ELSE s

StartPull(ref) ==
    LET image == Tagged(ref)
    IN  /\ ~\E k \in DOMAIN jobs : jobs[k].image = image /\ jobs[k].status = "running"
        /\ started < MaxPulls
        /\ started' = started + 1
        /\ seq' = seq + 1
        /\ jobs' = Trim(Append(jobs, Job(seq + 1, image)))
        /\ pulls' = pulls \cup {[id |-> seq + 1, image |-> image]}
        /\ UNCHANGED <<engine, req, log, faults>>

\* Mutant: the job is found by its image.
IsJobByImage(job, p) == job.image = p.image
IsJob(job, p) == job.id = p.id

\* Mutant: only a pull that succeeds is recorded.
FinishedDone(job, p, status) ==
    IF IsJob(job, p) /\ status = "done" THEN [job EXCEPT !.status = status] ELSE job
Finished(job, p, status) ==
    IF IsJob(job, p) THEN [job EXCEPT !.status = status] ELSE job

\* The download ends, fails or meets its deadline of 30 minutes; the job, if it is
\* still listed, tells so.
EndPull(p, status) ==
    /\ p \in pulls
    /\ pulls' = pulls \ {p}
    /\ jobs' = [k \in DOMAIN jobs |-> Finished(jobs[k], p, status)]
    /\ images' = IF status = "done" THEN images \cup {p.image} ELSE images
    /\ UNCHANGED <<seq, boxes, volumes, networks, req, log, bounds>>

-----------------------------------------------------------------------------
(* The engine (external).                                                  *)

Present(c) == boxes[c].state # "absent"

\* The state of a container after an action, "refused" if there is none.
After(op, state) ==
    CASE op = "start" -> IF state = "paused" THEN "refused" ELSE "running"
      [] op = "stop" -> IF state = "created" THEN state ELSE "exited"
      [] op = "restart" -> "running"
      [] op = "kill" -> IF state \in {"running", "paused"} THEN "exited" ELSE "refused"
      [] op = "pause" -> IF state = "running" THEN "paused" ELSE "refused"
      [] op = "unpause" -> IF state = "paused" THEN "running" ELSE "refused"
      [] op = "remove" -> IF state \in {"created", "exited"} THEN "absent" ELSE "refused"
      [] op = "force-remove" -> "absent"

ContainerActions ==
    {"start", "stop", "restart", "kill", "pause", "unpause", "remove", "force-remove"}

Become(c, state) ==
    [boxes EXCEPT ![c] = IF state = "absent" THEN NoBox ELSE [@ EXCEPT !.state = state]]

\* The call of request h can be done, and what is then there.
Create(h) ==
    LET b == req[h].target
    IN  /\ req[h].op = "create"
        /\ b.image \in images
        /\ ~\E c \in Requests : Present(c) /\ boxes[c].body.name = b.name
        /\ boxes' = [boxes EXCEPT ![h] = [state |-> "created", body |-> b]]
        /\ volumes' = IF b.volume = Nothing THEN volumes ELSE volumes \cup {b.volume}
        /\ UNCHANGED <<images, networks>>

Act(h) ==
    LET c == req[h].target
    IN  /\ req[h].op \in ContainerActions
        /\ Present(c)
        /\ After(req[h].op, boxes[c].state) # "refused"
        /\ boxes' = Become(c, After(req[h].op, boxes[c].state))
        /\ UNCHANGED <<images, volumes, networks>>

\* A restart that fails may have stopped the container already.
HalfRestart(h) ==
    LET c == req[h].target
    IN  /\ req[h].op = "restart"
        /\ boxes[c].state \in {"running", "paused"}
        /\ boxes' = Become(c, "exited")
        /\ UNCHANGED <<images, volumes, networks>>

PruneContainers(h) ==
    /\ req[h].op = "prune.containers"
    /\ boxes' = [c \in Requests |-> IF boxes[c].state \in {"created", "exited"} THEN NoBox
                                    ELSE boxes[c]]
    /\ UNCHANGED <<images, volumes, networks>>

NetworkRemove(h) ==
    /\ \/ req[h].op = "network.remove" /\ req[h].target \in networks
          /\ networks' = networks \ {req[h].target}
       \/ req[h].op = "prune.networks" /\ networks' = {}
    /\ UNCHANGED <<images, boxes, volumes>>

\* By force the image of a container that does not run is removed as well.
ImageRemove(h) ==
    /\ req[h].op \in {"image.remove", "image.force-remove"}
    /\ req[h].target \in images
    /\ ~\E c \in Requests :
          /\ Present(c)
          /\ boxes[c].body.image = req[h].target
          /\ boxes[c].state \in {"running", "paused"} \/ req[h].op = "image.remove"
    /\ images' = images \ {req[h].target}
    /\ UNCHANGED <<boxes, volumes, networks>>

VolumeCreate(h) ==
    /\ req[h].op = "volume.create"
    /\ volumes' = volumes \cup {req[h].target}
    /\ UNCHANGED <<images, boxes, networks>>

VolumeRemove(h) ==
    /\ req[h].op = "volume.remove"
    /\ req[h].target \in volumes
    /\ ~\E c \in Requests : Present(c) /\ boxes[c].body.volume = req[h].target
    /\ volumes' = volumes \ {req[h].target}
    /\ UNCHANGED <<images, boxes, networks>>

Does(h) ==
    \/ Create(h) \/ Act(h) \/ PruneContainers(h) \/ NetworkRemove(h)
    \/ ImageRemove(h) \/ VolumeCreate(h) \/ VolumeRemove(h)

-----------------------------------------------------------------------------
(* The handlers.                                                           *)

Receive(h, op, target) ==
    /\ req[h].pc = "new"
    /\ req' = [req EXCEPT ![h].pc = "call", ![h].op = op, ![h].target = target]
    /\ UNCHANGED <<registry, engine, log, bounds>>

RunContainer(h, b) == Receive(h, "create", b)
ContainerAction(h, c, op) == Present(c) /\ Receive(h, op, c)
RemoveImage(h, i) ==
    \E op \in {"image.remove", "image.force-remove"} : Receive(h, op, i)
CreateVolume(h, v) == Receive(h, "volume.create", v)
RemoveVolume(h, v) == Receive(h, "volume.remove", v)
RemoveNetwork(h, n) == Receive(h, "network.remove", n)

\* Dangling images and anonymous volumes are not part of the model.
Prune(h) == \E op \in {"prune.containers", "prune.networks"} : Receive(h, op, Nothing)

\* Run starts what it has created, if it is asked to.
WantsStart(h) == req[h].op = "create" /\ req[h].target.start

\* The engine has done the call of h.
Succeed(h) ==
    req' = [req EXCEPT ![h].pc = IF WantsStart(h) THEN "call" ELSE "audit",
                       ![h].op = IF WantsStart(h) THEN "start" ELSE @,
                       ![h].target = IF WantsStart(h) THEN h ELSE @,
                       ![h].made = TRUE,
                       ![h].answer = "ok"]

\* The request of h, answered and forgotten.
Ended(h, lost, answer) ==
    [req[h] EXCEPT !.pc = "done", !.op = Nothing, !.target = Nothing, !.lost = @ \/ lost,
                   !.answer = answer]

\* Mutant: Run forgets the container that does not start.
FailForgets(h, lost) == req' = [req EXCEPT ![h] = Ended(h, lost, "failed")]

\* The call failed.  A container whose start failed is there, and Run returns its id.
Fail(h, lost) ==
    IF req[h].made
    THEN req' = [req EXCEPT ![h].pc = "audit", ![h].lost = @ \/ lost, ![h].answer = "failed"]
    ELSE req' = [req EXCEPT ![h] = Ended(h, lost, "failed")]

Call(h) ==
    /\ req[h].pc = "call"
    /\ Does(h)
    /\ Succeed(h)
    /\ UNCHANGED <<registry, log, bounds>>

\* The engine cannot do it, or a container does not start because a port is taken.
Refused(h) ==
    /\ req[h].pc = "call"
    /\ req[h].op \in {"start", "restart"} \/ ~ENABLED Does(h)
    /\ HalfRestart(h) \/ UNCHANGED engine
    /\ Fail(h, FALSE)
    /\ UNCHANGED <<registry, log, bounds>>

\* The deadline of the request passes before the answer comes.
CallTimesOut(h) ==
    /\ req[h].pc = "call"
    /\ Fault
    /\ Does(h) \/ HalfRestart(h) \/ UNCHANGED engine
    /\ Fail(h, TRUE)
    /\ UNCHANGED <<registry, log, started>>

Audit(h) ==
    /\ req[h].pc = "audit"
    /\ log' = log \cup {h}
    /\ req' = [req EXCEPT ![h] = Ended(h, FALSE, req[h].answer)]
    /\ UNCHANGED <<registry, engine, bounds>>

\* The row is not written; the error is ignored.
AuditFails(h) ==
    /\ req[h].pc = "audit"
    /\ Fault
    /\ req' = [req EXCEPT ![h] = Ended(h, TRUE, req[h].answer)]
    /\ UNCHANGED <<registry, engine, log, started>>

\* The panel stops: the registry is lost, and with the connections the pulls.
Stop ==
    /\ Fault
    /\ jobs' = <<>>
    /\ seq' = 0
    /\ pulls' = {}
    /\ req' = [h \in Requests |->
                  IF req[h].pc \in {"new", "done"} THEN req[h]
                  ELSE Ended(h, TRUE, "failed")]
    /\ UNCHANGED <<engine, log, started>>

-----------------------------------------------------------------------------
PullIds == [id : 1..MaxPulls, image : Images]

Handlers(h) ==
    \/ \E b \in Bodies : RunContainer(h, b)
    \/ \E c \in Requests, op \in ContainerActions : ContainerAction(h, c, op)
    \/ \E i \in images : RemoveImage(h, i)
    \/ \E v \in Volumes : CreateVolume(h, v) \/ RemoveVolume(h, v)
    \/ \E n \in networks : RemoveNetwork(h, n)
    \/ Prune(h)
    \/ Call(h) \/ Refused(h) \/ CallTimesOut(h) \/ Audit(h) \/ AuditFails(h)

Next ==
    \/ \E ref \in Refs : StartPull(ref)
    \/ \E p \in pulls, status \in {"done", "failed"} : EndPull(p, status)
    \/ \E h \in Requests : Handlers(h)
    \/ Stop

Ends(p) == \E status \in {"done", "failed"} : EndPull(p, status)

Spec == Init /\ [][Next]_vars /\ \A p \in PullIds : WF_vars(Ends(p))

-----------------------------------------------------------------------------
(* Properties.                                                             *)

\* The job of pull p is in the list.
Listed(p) == \E k \in DOMAIN jobs : jobs[k].id = p.id

\* Type invariant: the list is never longer than its limit, and what the engine has is of
\* the kind it was asked for (StartPull, Run).
TypeOK ==
    /\ jobs \in Seq([id : Nat, image : Images, status : {"running", "done", "failed"}])
    /\ Len(jobs) <= Limit
    /\ seq \in 0..started /\ started \in 0..MaxPulls
    /\ pulls \subseteq PullIds
    /\ images \subseteq Images
    /\ boxes \in [Requests -> [state : {"absent", "created", "running", "paused", "exited"},
                               body : Bodies \cup {Nothing}]]
    /\ volumes \subseteq Volumes
    /\ networks \subseteq Networks
    /\ log \subseteq Requests
    /\ faults \in 0..MaxFaults

\* What the registry says of a job is so: it is running exactly as long as its own
\* download, even when another pull of the same image was dropped from the list and
\* ends meanwhile; and of two downloads of one image at least one was dropped
\* (StartPull and its goroutine).
RegistryIsTrue ==
    /\ \A k \in DOMAIN jobs :
          jobs[k].status = "running" <=> [id |-> jobs[k].id, image |-> jobs[k].image] \in pulls
    /\ \A p, q \in pulls : p # q /\ Listed(p) /\ Listed(q) => p.image # q.image

\* No job is shown as running for ever: the download ends, the job is dropped or the
\* panel stops (StartPull, pull).
PullsFinish ==
    \A n \in 1..MaxPulls :
        []<>(~\E k \in DOMAIN jobs : jobs[k].id = n /\ jobs[k].status = "running")

\* Every container that was made by a request, and every other change that the engine
\* has confirmed, is in the audit log when the request is answered, also when the
\* container was created and then did not start; and nothing else is.  Only an answer
\* or a row that is lost, or a stop of the panel, may leave a change unrecorded (Run,
\* dockerRunContainer, dockerContainerAction, dockerAudit).
ChangesAreAudited ==
    \A h \in Requests :
        /\ req[h].pc = "done" /\ (Present(h) \/ req[h].answer = "ok") =>
              h \in log \/ req[h].lost
        /\ h \in log => req[h].made
=============================================================================
