------------------------------- MODULE HostProofs -------------------------------
(***************************************************************************)
(* Machine-checked proofs about the two components that change the host    *)
(* outside the panel's own database: Docker, for every length of the list  *)
(* of pulls, every number of pulls and requests and every set of           *)
(* references, and Updater, for every number of releases, failures and     *)
(* crashes.  The two share no variable; each theorem is of one             *)
(* specification.                                                          *)
(*                                                                         *)
(* A pull may outlive its job in the list, so the registry's invariant     *)
(* says what ties a job to its download (Tied) and that neither numbers    *)
(* nor running jobs of an image occur twice (Once).                        *)
(***************************************************************************)
EXTENDS Docker, Updater, TLAPS

Jobs == [id : Nat, image : Images, status : {"running", "done", "failed"}]
Downloads == [id : Nat, image : Images]

RegistryType ==
    /\ jobs \in Seq(Jobs)
    /\ seq \in Nat
    /\ pulls \subseteq Downloads

\* No number is used twice, and only one listed job of an image runs.
Once ==
    /\ \A k \in DOMAIN jobs : jobs[k].id <= seq
    /\ \A p \in pulls : p.id <= seq
    /\ \A k, l \in DOMAIN jobs : jobs[k].id = jobs[l].id => k = l
    /\ \A p, q \in pulls : p.id = q.id => p = q
    /\ \A k, l \in DOMAIN jobs :
          jobs[k].status = "running" /\ jobs[l].status = "running"
          /\ jobs[k].image = jobs[l].image => k = l

\* A listed job is running exactly as long as its own download, which is of its image.
Tied ==
    /\ \A k \in DOMAIN jobs :
          jobs[k].status = "running" <=> [id |-> jobs[k].id, image |-> jobs[k].image] \in pulls
    /\ \A k \in DOMAIN jobs, p \in pulls : jobs[k].id = p.id => jobs[k].image = p.image

IInv == RegistryType /\ Once /\ Tied

-----------------------------------------------------------------------------
(* The list.                                                               *)

\* What Trim keeps, in its old order.
LEMMA TrimKeeps ==
    ASSUME NEW S, NEW s \in Seq(S)
    PROVE  /\ Trim(s) \in Seq(S)
           /\ \E d \in Nat : \A k \in DOMAIN Trim(s) :
                 k + d \in DOMAIN s /\ Trim(s)[k] = s[k + d]
<1>1. CASE Len(s) > Limit
  <2> DEFINE d == Len(s) - Limit
             t == SubSeq(s, d + 1, Len(s))
  <2>1. d \in Nat /\ Limit \in Nat /\ Len(s) \in Nat /\ d + Limit = Len(s)
    BY <1>1, BoundsAssumption
  <2>2. Trim(s) = t
    BY <1>1 DEF Trim
  <2>3. t \in Seq(S) /\ Len(t) = Limit
    BY <2>1
  <2>4. ASSUME NEW k \in 1..Limit
        PROVE  k + d \in 1..Len(s) /\ t[k] = s[k + d]
    BY <2>1
  <2>5. DOMAIN t = 1..Limit /\ DOMAIN s = 1..Len(s)
    BY <2>3
  <2> HIDE DEF t, d
  <2> QED
    BY <2>1, <2>2, <2>3, <2>4, <2>5
<1>2. CASE ~(Len(s) > Limit)
  <2>1. Trim(s) = s
    BY <1>2 DEF Trim
  <2>2. \A k \in DOMAIN s : k + 0 = k
    OBVIOUS
  <2> QED
    BY <2>1, <2>2
<1> QED
  BY <1>1, <1>2

LEMMA TaggedType ==
    ASSUME NEW ref \in Refs
    PROVE  Tagged(ref) \in Images
BY RefsAssumption DEF Tagged, Images, Names, Tags

LEMMA ListedJobs ==
    ASSUME NEW s \in Seq(Jobs), NEW k \in DOMAIN s
    PROVE  s[k] \in Jobs
OBVIOUS

LEMMA JobFields ==
    ASSUME NEW j \in Jobs
    PROVE  j.id \in Nat /\ j.image \in Images /\ j.status \in {"running", "done", "failed"}
BY DEF Jobs

-----------------------------------------------------------------------------
(* The steps.                                                              *)

LEMMA InitIInv == Init => IInv
BY DEF Init, IInv, RegistryType, Once, Tied

LEMMA StartPullKeeps ==
    ASSUME IInv, NEW ref \in Refs, StartPull(ref)
    PROVE  IInv'
<1> DEFINE image == Tagged(ref)
           new == Job(seq + 1, image)
           s == Append(jobs, new)
           p == [id |-> seq + 1, image |-> image]
<1>1. image \in Images /\ seq \in Nat /\ jobs \in Seq(Jobs) /\ pulls \subseteq Downloads
  BY TaggedType DEF IInv, RegistryType
<1>2. /\ new \in Jobs /\ new.id = seq + 1 /\ new.image = image /\ new.status = "running"
      /\ p \in Downloads /\ p.id = seq + 1 /\ p.image = image
  BY <1>1 DEF Job, Jobs, Downloads
<1>3. /\ seq' = seq + 1 /\ jobs' = Trim(s) /\ pulls' = pulls \cup {p}
      /\ \A k \in DOMAIN jobs : ~(jobs[k].image = image /\ jobs[k].status = "running")
  BY DEF StartPull
<1> HIDE DEF image
<1>4. /\ s \in Seq(Jobs) /\ Len(s) = Len(jobs) + 1 /\ Len(jobs) \in Nat
      /\ DOMAIN jobs = 1..Len(jobs) /\ DOMAIN s = 1..(Len(jobs) + 1)
      /\ s[Len(jobs) + 1] = new
      /\ \A k \in 1..Len(jobs) : s[k] = jobs[k]
  BY <1>1, <1>2
<1> HIDE DEF new, s, p
<1>5. PICK d \in Nat : \A k \in DOMAIN jobs' : k + d \in DOMAIN s /\ jobs'[k] = s[k + d]
  <2>1. s \in Seq(Jobs) /\ jobs' = Trim(s)
    BY <1>3, <1>4
  <2>2. \E d \in Nat : \A k \in DOMAIN Trim(s) :
           k + d \in DOMAIN s /\ Trim(s)[k] = s[k + d]
    BY <2>1, TrimKeeps
  <2> QED
    BY <2>1, <2>2, Zenon
<1>6. jobs' \in Seq(Jobs)
  <2>1. s \in Seq(Jobs) /\ jobs' = Trim(s)
    BY <1>3, <1>4
  <2>2. Trim(s) \in Seq(Jobs)
    BY <2>1, TrimKeeps
  <2> QED
    BY <2>1, <2>2
<1>7. ASSUME NEW k \in DOMAIN jobs'
      PROVE  /\ k \in Nat
             /\ \/ k + d = Len(jobs) + 1 /\ jobs'[k] = new
                \/ k + d \in DOMAIN jobs /\ jobs'[k] = jobs[k + d]
  BY <1>4, <1>5, <1>6
<1>8. \A k \in DOMAIN jobs : jobs[k] \in Jobs /\ jobs[k].id \in Nat /\ jobs[k].id <= seq
  BY <1>1, ListedJobs, JobFields DEF IInv, Once
<1>9. \A q \in pulls : q.id \in Nat /\ q.id <= seq
  BY <1>1 DEF IInv, Once, Downloads
<1>10. RegistryType'
  BY <1>1, <1>2, <1>3, <1>6 DEF RegistryType
<1>11. Once'
  <2>1. \A k \in DOMAIN jobs' : jobs'[k].id <= seq'
    BY <1>1, <1>2, <1>3, <1>7, <1>8
  <2>2. \A q \in pulls' : q.id <= seq'
    BY <1>1, <1>2, <1>3, <1>9
  <2>3. ASSUME NEW k \in DOMAIN jobs', NEW l \in DOMAIN jobs', jobs'[k].id = jobs'[l].id
        PROVE  k = l
    <3>1. /\ k \in Nat /\ l \in Nat
          /\ \/ k + d = Len(jobs) + 1 /\ jobs'[k].id = seq + 1
             \/ k + d \in DOMAIN jobs /\ jobs'[k] = jobs[k + d]
          /\ \/ l + d = Len(jobs) + 1 /\ jobs'[l].id = seq + 1
             \/ l + d \in DOMAIN jobs /\ jobs'[l] = jobs[l + d]
      BY <1>2, <1>7
    <3>2. CASE k + d \in DOMAIN jobs /\ l + d \in DOMAIN jobs
               /\ jobs'[k] = jobs[k + d] /\ jobs'[l] = jobs[l + d]
      <4>1. k + d = l + d
        BY <2>3, <3>2 DEF IInv, Once
      <4> QED
        BY <3>1, <4>1
    <3>3. CASE k + d = Len(jobs) + 1 /\ l + d = Len(jobs) + 1
      BY <1>4, <3>1, <3>3
    <3>4. CASE \/ /\ jobs'[k].id = seq + 1
                  /\ l + d \in DOMAIN jobs /\ jobs'[l] = jobs[l + d]
               \/ /\ jobs'[l].id = seq + 1
                  /\ k + d \in DOMAIN jobs /\ jobs'[k] = jobs[k + d]
      BY <1>1, <1>8, <2>3, <3>4
    <3> QED
      BY <3>1, <3>2, <3>3, <3>4
  <2>4. \A q, r \in pulls' : q.id = r.id => q = r
    BY <1>1, <1>2, <1>3, <1>9 DEF IInv, Once
  <2>5. ASSUME NEW k \in DOMAIN jobs', NEW l \in DOMAIN jobs',
               jobs'[k].status = "running", jobs'[l].status = "running",
               jobs'[k].image = jobs'[l].image
        PROVE  k = l
    <3>1. /\ k \in Nat /\ l \in Nat
          /\ \/ k + d = Len(jobs) + 1 /\ jobs'[k].image = image
             \/ k + d \in DOMAIN jobs /\ jobs'[k] = jobs[k + d]
          /\ \/ l + d = Len(jobs) + 1 /\ jobs'[l].image = image
             \/ l + d \in DOMAIN jobs /\ jobs'[l] = jobs[l + d]
      BY <1>2, <1>7
    <3>2. CASE k + d \in DOMAIN jobs /\ l + d \in DOMAIN jobs
               /\ jobs'[k] = jobs[k + d] /\ jobs'[l] = jobs[l + d]
      <4>1. k + d = l + d
        BY <2>5, <3>2 DEF IInv, Once
      <4> QED
        BY <3>1, <4>1
    <3>3. CASE k + d = Len(jobs) + 1 /\ l + d = Len(jobs) + 1
      BY <1>4, <3>1, <3>3
    <3>4. CASE \/ /\ jobs'[k].image = image
                  /\ l + d \in DOMAIN jobs /\ jobs'[l] = jobs[l + d]
               \/ /\ jobs'[l].image = image
                  /\ k + d \in DOMAIN jobs /\ jobs'[k] = jobs[k + d]
      BY <1>3, <2>5, <3>4
    <3> QED
      BY <3>1, <3>2, <3>3, <3>4
  <2> QED
    BY <2>1, <2>2, <2>3, <2>4, <2>5 DEF Once
<1>12. Tied'
  <2> SUFFICES ASSUME NEW k \in DOMAIN jobs'
               PROVE  /\ jobs'[k].status = "running" <=>
                            [id |-> jobs'[k].id, image |-> jobs'[k].image] \in pulls'
                      /\ \A q \in pulls' : jobs'[k].id = q.id => jobs'[k].image = q.image
    BY DEF Tied
  <2>1. CASE jobs'[k] = new
    <3>1. [id |-> new.id, image |-> new.image] = p
      BY <1>2 DEF p
    <3> QED
      BY <1>1, <1>2, <1>3, <1>9, <2>1, <3>1
  <2>2. CASE k + d \in DOMAIN jobs /\ jobs'[k] = jobs[k + d]
    <3>1. [id |-> jobs'[k].id, image |-> jobs'[k].image] # p
      BY <1>1, <1>2, <1>8, <2>2 DEF p
    <3> QED
      BY <1>1, <1>2, <1>3, <1>8, <2>2, <3>1 DEF IInv, Tied
  <2> QED
    BY <1>7, <2>1, <2>2
<1> QED
  BY <1>10, <1>11, <1>12 DEF IInv

LEMMA EndPullKeeps ==
    ASSUME IInv, NEW p \in pulls, NEW status \in {"done", "failed"}, EndPull(p, status)
    PROVE  IInv'
<1>1. /\ jobs \in Seq(Jobs) /\ seq' = seq /\ seq \in Nat /\ pulls \subseteq Downloads
      /\ pulls' = pulls \ {p}
      /\ jobs' = [k \in DOMAIN jobs |-> Finished(jobs[k], p, status)]
  BY DEF IInv, RegistryType, EndPull
<1>2. ASSUME NEW k \in DOMAIN jobs
      PROVE  /\ jobs[k] \in Jobs /\ jobs'[k] \in Jobs
             /\ jobs'[k].id = jobs[k].id /\ jobs'[k].image = jobs[k].image
             /\ jobs'[k].status = IF jobs[k].id = p.id THEN status ELSE jobs[k].status
  <2>1. jobs[k] \in Jobs
    BY <1>1, ListedJobs
  <2>2. jobs'[k] = Finished(jobs[k], p, status)
    BY <1>1
  <2> QED
    BY <2>1, <2>2 DEF Finished, IsJob, Jobs
<1>3. DOMAIN jobs' = DOMAIN jobs /\ jobs' \in Seq(Jobs)
  <2>1. DOMAIN jobs = 1..Len(jobs) /\ Len(jobs) \in Nat
    BY <1>1
  <2>2. jobs' \in [1..Len(jobs) -> Jobs]
    BY <1>1, <1>2, <2>1
  <2> QED
    BY <1>1, <2>1, <2>2
<1>4. RegistryType'
  BY <1>1, <1>3 DEF RegistryType
<1>5. Once'
  BY <1>1, <1>2, <1>3 DEF IInv, Once
<1>6. Tied'
  <2> SUFFICES ASSUME NEW k \in DOMAIN jobs
               PROVE  /\ jobs'[k].status = "running" <=>
                            [id |-> jobs[k].id, image |-> jobs[k].image] \in pulls'
                      /\ \A q \in pulls' : jobs'[k].id = q.id => jobs'[k].image = q.image
    BY <1>2, <1>3 DEF Tied
  <2>1. p \in Downloads /\ p = [id |-> p.id, image |-> p.image]
    BY <1>1 DEF Downloads
  <2>2. CASE jobs[k].id = p.id
    <3>1. jobs[k].image = p.image
      BY <2>2 DEF IInv, Tied
    <3>2. [id |-> jobs[k].id, image |-> jobs[k].image] = p
      BY <2>1, <2>2, <3>1
    <3> QED
      BY <1>1, <1>2, <2>2, <3>1, <3>2 DEF IInv, Tied
  <2>3. CASE jobs[k].id # p.id
    <3>1. [id |-> jobs[k].id, image |-> jobs[k].image] # p
      BY <2>1, <2>3
    <3> QED
      BY <1>1, <1>2, <2>3, <3>1 DEF IInv, Tied
  <2> QED
    BY <2>2, <2>3
<1> QED
  BY <1>4, <1>5, <1>6 DEF IInv

LEMMA QuietKeeps == ASSUME IInv, UNCHANGED registry PROVE IInv'
BY DEF IInv, RegistryType, Once, Tied, registry

LEMMA HandlersAreQuiet ==
    ASSUME NEW h \in Requests, Handlers(h)
    PROVE  UNCHANGED registry
BY DEF Handlers, RunContainer, ContainerAction, RemoveImage, CreateVolume, RemoveVolume,
       RemoveNetwork, Prune, Receive, Call, Refused, CallTimesOut, Audit, AuditFails

LEMMA StepKeeps == ASSUME IInv, [Next]_vars PROVE IInv'
<1>1. CASE Stop
  BY <1>1 DEF Stop, IInv, RegistryType, Once, Tied
<1>2. CASE UNCHANGED vars
  BY <1>2, QuietKeeps DEF vars, registry
<1> QED
  BY <1>1, <1>2, StartPullKeeps, EndPullKeeps, HandlersAreQuiet, QuietKeeps DEF Next

\* The registry is true for every length of the list and every number of pulls
\* (StartPull and its goroutine).
THEOREM RegistryStaysTrue == Spec => []RegistryIsTrue
<1>1. IInv => RegistryIsTrue
  <2> SUFFICES ASSUME IInv, NEW p \in pulls, NEW q \in pulls, Listed(p), Listed(q),
                      p.image = q.image
               PROVE  p = q
    BY DEF IInv, Tied, RegistryIsTrue
  <2>1. PICK k \in DOMAIN jobs : jobs[k].id = p.id
    BY DEF Listed
  <2>2. PICK l \in DOMAIN jobs : jobs[l].id = q.id
    BY DEF Listed
  <2>3. jobs[k].image = p.image /\ jobs[l].image = q.image
    BY <2>1, <2>2 DEF IInv, Tied
  <2>4. /\ p = [id |-> jobs[k].id, image |-> jobs[k].image]
        /\ q = [id |-> jobs[l].id, image |-> jobs[l].image]
    BY <2>1, <2>2, <2>3 DEF IInv, RegistryType, Downloads
  <2>5. jobs[k].status = "running" /\ jobs[l].status = "running"
    BY <2>4 DEF IInv, Tied
  <2>6. k = l
    BY <2>3, <2>5 DEF IInv, Once
  <2> QED
    BY <2>4, <2>6
<1> QED
  BY <1>1, InitIInv, StepKeeps, PTL DEF Spec

-----------------------------------------------------------------------------
(* The requests and their audit.                                           *)

Ops ==
    ContainerActions
    \cup {"create", "prune.containers", "prune.networks", "image.remove",
          "image.force-remove", "volume.create", "volume.remove", "network.remove", Nothing}
Targets == Bodies \cup Requests \cup Images \cup Volumes \cup Networks \cup {Nothing}
Handled ==
    [pc : {"new", "call", "audit", "done"}, op : Ops, target : Targets,
     made : BOOLEAN, lost : BOOLEAN, answer : {"none", "ok", "failed"}]

RequestType ==
    /\ images \subseteq Images
    /\ networks \subseteq Networks
    /\ boxes = [c \in Requests |-> boxes[c]]
    /\ req \in [Requests -> Handled]

\* What a request has made, or may have made when its answer is lost, and where it is on
\* its way to the audit log.
Recorded(r, h) ==
    /\ r.pc \in {"new", "call"} => ~r.lost
    /\ r.pc = "new" => ~r.made
    /\ r.pc = "audit" => r.made
    /\ r.answer = "ok" => r.made
    /\ Present(h) => r.made \/ r.lost
    /\ h \in log => r.made
    /\ r.pc = "done" /\ r.made => h \in log \/ r.lost

AuditInv == RequestType /\ \A h \in Requests : Recorded(req[h], h)

\* No call makes a container of another request.
LEMMA CallsMakeOwn ==
  ASSUME RequestType, NEW h \in Requests, Does(h) \/ HalfRestart(h),
         NEW d \in Requests, Present(d)'
  PROVE  Present(d) \/ d = h
<1>1. CASE Create(h)
  BY <1>1 DEF Create, Present, RequestType
<1>2. CASE Act(h)
  BY <1>2 DEF Act, Become, Present, RequestType
<1>3. CASE PruneContainers(h)
  BY <1>3 DEF PruneContainers, Present, NoBox
<1>4. CASE NetworkRemove(h) \/ ImageRemove(h) \/ VolumeCreate(h) \/ VolumeRemove(h)
  BY <1>4 DEF NetworkRemove, ImageRemove, VolumeCreate, VolumeRemove, Present
<1>5. CASE HalfRestart(h)
  BY <1>5 DEF HalfRestart, Become, Present, RequestType
<1> QED
  BY <1>1, <1>2, <1>3, <1>4, <1>5 DEF Does

LEMMA CallsKeepTypes ==
  ASSUME RequestType, NEW h \in Requests, Does(h) \/ HalfRestart(h)
  PROVE  /\ images' \subseteq Images /\ networks' \subseteq Networks
         /\ boxes' = [c \in Requests |-> boxes'[c]]
<1>1. CASE Create(h)
  BY <1>1 DEF Create, RequestType
<1>2. CASE Act(h)
  BY <1>2 DEF Act, Become, RequestType
<1>3. CASE PruneContainers(h)
  BY <1>3 DEF PruneContainers, RequestType
<1>4. CASE NetworkRemove(h) \/ ImageRemove(h) \/ VolumeCreate(h) \/ VolumeRemove(h)
  BY <1>4 DEF NetworkRemove, ImageRemove, VolumeCreate, VolumeRemove, RequestType
<1>5. CASE HalfRestart(h)
  BY <1>5 DEF HalfRestart, Become, RequestType
<1> QED
  BY <1>1, <1>2, <1>3, <1>4, <1>5 DEF Does

\* One request moves on; what the others hold and have made stays.
LEMMA OneMoves ==
  ASSUME AuditInv, NEW h \in Requests, NEW r \in Handled,
         req' = [req EXCEPT ![h] = r],
         log' = log \/ log' = log \cup {h},
         images' \subseteq Images, networks' \subseteq Networks,
         boxes' = [c \in Requests |-> boxes'[c]],
         \A d \in Requests : Present(d)' => Present(d) \/ d = h,
         Recorded(r, h)'
  PROVE  AuditInv'
<1>1. req \in [Requests -> Handled]
  BY DEF AuditInv, RequestType
<1>2. req'[h] = r /\ \A d \in Requests : d # h => req'[d] = req[d]
  BY <1>1
<1>3. RequestType'
  BY <1>1 DEF RequestType
<1>4. ASSUME NEW d \in Requests, d # h PROVE Recorded(req[d], d)'
  BY <1>2, <1>4 DEF AuditInv, Recorded
<1>5. Recorded(req[h], h)'
  BY <1>2
<1> QED
  BY <1>3, <1>4, <1>5 DEF AuditInv

LEMMA ReceiveRecorded ==
  ASSUME AuditInv, NEW h \in Requests, NEW op \in Ops, NEW target \in Targets,
         Receive(h, op, target)
  PROVE  AuditInv'
<1>1. RequestType /\ req \in [Requests -> Handled] /\ req[h] \in Handled /\ Recorded(req[h], h)
  BY DEF AuditInv, RequestType
<1>2. PICK r \in Handled :
         /\ req' = [req EXCEPT ![h] = r]
         /\ r.pc = "call" /\ r.made = req[h].made /\ r.lost = req[h].lost
         /\ r.answer = req[h].answer
  <2> DEFINE s == [req[h] EXCEPT !.pc = "call", !.op = op, !.target = target]
  <2>1. /\ s \in Handled /\ s.pc = "call" /\ s.made = req[h].made /\ s.lost = req[h].lost
        /\ s.answer = req[h].answer
    BY <1>1 DEF Handled
  <2>2. req' = [req EXCEPT ![h] = s]
    BY <1>1 DEF Receive
  <2> QED
    BY <2>1, <2>2
<1>3. /\ UNCHANGED <<images, boxes, volumes, networks, log>> /\ req[h].pc = "new"
      /\ images \subseteq Images /\ networks \subseteq Networks
      /\ boxes = [c \in Requests |-> boxes[c]]
  BY DEF Receive, engine, AuditInv, RequestType
<1>4. Recorded(r, h)'
  BY <1>1, <1>2, <1>3 DEF Recorded, Present
<1> QED
  BY <1>2, <1>3, <1>4, OneMoves DEF Present

\* The request of h after a call that failed once something was made.
Waiting(h, lost) ==
    [req[h] EXCEPT !.pc = "audit", !.lost = @ \/ lost, !.answer = "failed"]

LEMMA HandledKeeps ==
  ASSUME RequestType, NEW h \in Requests, NEW lost \in BOOLEAN,
         NEW answer \in {"none", "ok", "failed"}
  PROVE  /\ LET e == Ended(h, lost, answer)
            IN  /\ e \in Handled /\ e.pc = "done" /\ e.made = req[h].made
                /\ e.answer = answer
                /\ lost => e.lost
                /\ ~lost => e.lost = req[h].lost
         /\ LET f == Waiting(h, lost)
            IN  /\ f \in Handled /\ f.pc = "audit" /\ f.made = req[h].made
                /\ f.answer = "failed"
                /\ lost => f.lost
                /\ ~lost => f.lost = req[h].lost
<1> DEFINE l == req[h].lost \/ lost
<1>1. req[h] \in Handled /\ Nothing \in Ops /\ Nothing \in Targets
  BY DEF RequestType, Ops, Targets
<1>2. req[h].lost \in BOOLEAN
  BY <1>1 DEF Handled
<1>3. /\ l \in BOOLEAN
      /\ lost => l = TRUE
      /\ ~lost => l = req[h].lost
  BY <1>2
<1>4. /\ Ended(h, lost, answer) = [req[h] EXCEPT !.pc = "done", !.op = Nothing,
                                      !.target = Nothing, !.lost = l, !.answer = answer]
      /\ Waiting(h, lost) = [req[h] EXCEPT !.pc = "audit", !.lost = l, !.answer = "failed"]
  BY DEF Ended, Waiting
<1> HIDE DEF l
<1>5. /\ LET e == Ended(h, lost, answer)
         IN  /\ e \in Handled /\ e.pc = "done" /\ e.made = req[h].made
             /\ e.answer = answer /\ e.lost = l
      /\ LET f == Waiting(h, lost)
         IN  /\ f \in Handled /\ f.pc = "audit" /\ f.made = req[h].made
             /\ f.answer = "failed" /\ f.lost = l
  BY <1>1, <1>3, <1>4 DEF Handled
<1> QED
  BY <1>3, <1>5

\* The same of a request that ends with or without a loss, for a constant outcome.
LEMMA LostEnds ==
  ASSUME RequestType, NEW h \in Requests, NEW answer \in {"none", "ok", "failed"}
  PROVE  /\ Ended(h, TRUE, answer) \in Handled
         /\ Ended(h, TRUE, answer).pc = "done"
         /\ Ended(h, TRUE, answer).made = req[h].made
         /\ Ended(h, TRUE, answer).answer = answer
         /\ Ended(h, TRUE, answer).lost
<1>1. req[h] \in Handled /\ Nothing \in Ops /\ Nothing \in Targets
  BY DEF RequestType, Ops, Targets
<1>2. Ended(h, TRUE, answer) = [req[h] EXCEPT !.pc = "done", !.op = Nothing,
                                    !.target = Nothing, !.lost = TRUE, !.answer = answer]
  BY DEF Ended
<1> QED
  BY <1>1, <1>2 DEF Handled

LEMMA KeptEnds ==
  ASSUME RequestType, NEW h \in Requests, NEW answer \in {"none", "ok", "failed"}
  PROVE  /\ Ended(h, FALSE, answer) \in Handled
         /\ Ended(h, FALSE, answer).pc = "done"
         /\ Ended(h, FALSE, answer).made = req[h].made
         /\ Ended(h, FALSE, answer).answer = answer
<1>1. req[h] \in Handled /\ Nothing \in Ops /\ Nothing \in Targets
  BY DEF RequestType, Ops, Targets
<1> DEFINE l == req[h].lost \/ FALSE
<1>2. l \in BOOLEAN
  OBVIOUS
<1>3. Ended(h, FALSE, answer) = [req[h] EXCEPT !.pc = "done", !.op = Nothing,
                                     !.target = Nothing, !.lost = l, !.answer = answer]
  BY DEF Ended
<1> HIDE DEF l
<1> QED
  BY <1>1, <1>2, <1>3 DEF Handled

\* A request ends without a row only if it has made nothing or something was lost.
LEMMA FailRecorded ==
  ASSUME AuditInv, NEW h \in Requests, NEW lost \in BOOLEAN, req[h].pc = "call",
         Fail(h, lost), log' = log,
         images' \subseteq Images, networks' \subseteq Networks,
         boxes' = [c \in Requests |-> boxes'[c]],
         \A d \in Requests : Present(d)' => Present(d) \/ (d = h /\ lost)
  PROVE  AuditInv'
<1>1. RequestType /\ req \in [Requests -> Handled] /\ req[h] \in Handled /\ Recorded(req[h], h)
  BY DEF AuditInv, RequestType
<1>2. PICK r \in Handled :
         /\ req' = [req EXCEPT ![h] = r]
         /\ r.pc = (IF req[h].made THEN "audit" ELSE "done")
         /\ r.made = req[h].made /\ r.answer = "failed"
         /\ lost => r.lost
         /\ ~lost => r.lost = req[h].lost
  <2>1. CASE req[h].made
    <3> DEFINE r == Waiting(h, lost)
    <3>1. req' = [req EXCEPT ![h] = r]
      BY <1>1, <2>1 DEF Fail, Waiting
    <3>2. /\ r.pc = "audit"
          /\ r \in Handled /\ r.made = req[h].made /\ r.answer = "failed"
          /\ lost => r.lost
          /\ ~lost => r.lost = req[h].lost
      BY <1>1, HandledKeeps
    <3> HIDE DEF r
    <3> QED
      BY <2>1, <3>1, <3>2
  <2>2. CASE ~req[h].made
    <3> DEFINE r == Ended(h, lost, "failed")
    <3>1. req' = [req EXCEPT ![h] = r]
      BY <2>2 DEF Fail
    <3>2. /\ r.pc = "done"
          /\ r \in Handled /\ r.made = req[h].made /\ r.answer = "failed"
          /\ lost => r.lost
          /\ ~lost => r.lost = req[h].lost
      BY <1>1, HandledKeeps
    <3> HIDE DEF r
    <3> QED
      BY <2>2, <3>1, <3>2
  <2> QED
    BY <2>1, <2>2
<1>3. Recorded(r, h)'
  BY <1>1, <1>2 DEF Recorded
<1> QED
  BY <1>2, <1>3, OneMoves

LEMMA CallRecorded == ASSUME AuditInv, NEW h \in Requests, Call(h) PROVE AuditInv'
<1>1. RequestType /\ req \in [Requests -> Handled] /\ req[h] \in Handled /\ Recorded(req[h], h)
  BY DEF AuditInv, RequestType
<1>2. PICK r \in Handled :
         /\ req' = [req EXCEPT ![h] = r]
         /\ r.pc \in {"call", "audit"} /\ r.made /\ r.lost = req[h].lost
  <2> DEFINE s == [req[h] EXCEPT !.pc = IF WantsStart(h) THEN "call" ELSE "audit",
                                 !.op = IF WantsStart(h) THEN "start" ELSE @,
                                 !.target = IF WantsStart(h) THEN h ELSE @,
                                 !.made = TRUE, !.answer = "ok"]
  <2>1. /\ s \in Handled /\ s.pc \in {"call", "audit"} /\ s.made /\ s.lost = req[h].lost
    BY <1>1 DEF Handled, Ops, Targets, ContainerActions
  <2>2. req' = [req EXCEPT ![h] = s]
    BY <1>1 DEF Call, Succeed
  <2> HIDE DEF s
  <2> QED
    BY <2>1, <2>2
<1>3. log' = log /\ req[h].pc = "call" /\ Does(h)
  BY DEF Call
<1>4. Recorded(r, h)'
  BY <1>1, <1>2, <1>3 DEF Recorded
<1> QED
  BY <1>2, <1>3, <1>4, OneMoves, CallsMakeOwn, CallsKeepTypes DEF AuditInv

LEMMA FailuresRecorded ==
  ASSUME AuditInv, NEW h \in Requests, Refused(h) \/ CallTimesOut(h)
  PROVE  AuditInv'
<1>1. /\ images \subseteq Images /\ networks \subseteq Networks
      /\ boxes = [c \in Requests |-> boxes[c]]
  BY DEF AuditInv, RequestType
<1>2. CASE Refused(h)
  <2>1. req[h].pc = "call" /\ Fail(h, FALSE) /\ log' = log
    BY <1>2 DEF Refused
  <2>2. CASE HalfRestart(h)
    <3>1. Present(h)' => Present(h)
      BY <1>1, <2>2 DEF HalfRestart, Become, Present
    <3> QED
      BY <2>1, <2>2, <3>1, FailRecorded, CallsMakeOwn, CallsKeepTypes DEF AuditInv
  <2>3. CASE UNCHANGED engine
    BY <1>1, <2>1, <2>3, FailRecorded DEF engine, Present
  <2> QED
    BY <1>2, <2>2, <2>3 DEF Refused
<1>3. CASE CallTimesOut(h)
  <2>1. req[h].pc = "call" /\ Fail(h, TRUE) /\ log' = log
    BY <1>3 DEF CallTimesOut
  <2>2. CASE Does(h) \/ HalfRestart(h)
    BY <2>1, <2>2, FailRecorded, CallsMakeOwn, CallsKeepTypes DEF AuditInv
  <2>3. CASE UNCHANGED engine
    BY <1>1, <2>1, <2>3, FailRecorded DEF engine, Present
  <2> QED
    BY <1>3, <2>2, <2>3 DEF CallTimesOut
<1> QED
  BY <1>2, <1>3

LEMMA AuditRecorded ==
  ASSUME AuditInv, NEW h \in Requests, Audit(h) \/ AuditFails(h)
  PROVE  AuditInv'
<1>1. RequestType /\ req \in [Requests -> Handled] /\ req[h] \in Handled /\ Recorded(req[h], h)
  BY DEF AuditInv, RequestType
<1>2. /\ UNCHANGED <<images, boxes, volumes, networks>> /\ req[h].pc = "audit"
      /\ images \subseteq Images /\ networks \subseteq Networks
      /\ boxes = [c \in Requests |-> boxes[c]]
  BY DEF Audit, AuditFails, engine, AuditInv, RequestType
<1>3. req[h].answer \in {"none", "ok", "failed"}
  BY <1>1 DEF Handled
<1>4. CASE Audit(h)
  <2>1. PICK r \in Handled :
           /\ req' = [req EXCEPT ![h] = r]
           /\ r.pc = "done" /\ r.made = req[h].made /\ r.answer = req[h].answer
    <3> DEFINE s == Ended(h, FALSE, req[h].answer)
    <3>1. s \in Handled /\ s.pc = "done" /\ s.made = req[h].made /\ s.answer = req[h].answer
      BY <1>1, <1>3, KeptEnds
    <3>2. req' = [req EXCEPT ![h] = s]
      BY <1>4 DEF Audit
    <3> HIDE DEF s
    <3> QED
      BY <3>1, <3>2
  <2>2. log' = log \cup {h}
    BY <1>4 DEF Audit
  <2>3. Recorded(r, h)'
    BY <1>1, <1>2, <2>1, <2>2 DEF Recorded
  <2> QED
    BY <1>2, <2>1, <2>2, <2>3, OneMoves DEF Present
<1>5. CASE AuditFails(h)
  <2>1. PICK r \in Handled :
           /\ req' = [req EXCEPT ![h] = r]
           /\ r.pc = "done" /\ r.made = req[h].made /\ r.answer = req[h].answer /\ r.lost
    <3> DEFINE s == Ended(h, TRUE, req[h].answer)
    <3>1. /\ s \in Handled /\ s.pc = "done" /\ s.made = req[h].made
          /\ s.answer = req[h].answer /\ s.lost
      BY <1>1, <1>3, LostEnds
    <3>2. req' = [req EXCEPT ![h] = s]
      BY <1>5 DEF AuditFails
    <3> HIDE DEF s
    <3> QED
      BY <3>1, <3>2
  <2>2. log' = log
    BY <1>5 DEF AuditFails
  <2>3. Recorded(r, h)'
    BY <1>1, <1>2, <2>1, <2>2 DEF Recorded
  <2> QED
    BY <1>2, <2>1, <2>2, <2>3, OneMoves DEF Present
<1> QED
  BY <1>4, <1>5

\* A stop ends what is under way, and its answer is lost.
LEMMA StopRecorded == ASSUME AuditInv, Stop PROVE AuditInv'
<1>1. RequestType /\ req \in [Requests -> Handled]
  BY DEF AuditInv, RequestType
<1>2. /\ UNCHANGED <<images, boxes, volumes, networks, log>>
      /\ req' = [h \in Requests |-> IF req[h].pc \in {"new", "done"} THEN req[h]
                                    ELSE Ended(h, TRUE, "failed")]
  BY DEF Stop, engine
<1>3. ASSUME NEW h \in Requests PROVE req'[h] \in Handled /\ Recorded(req[h], h)'
  <2>1. req[h] \in Handled /\ Recorded(req[h], h)
    BY DEF AuditInv, RequestType
  <2>2. CASE req[h].pc \in {"new", "done"}
    <3>1. req'[h] = req[h]
      BY <1>2, <2>2
    <3> QED
      BY <1>2, <2>1, <3>1 DEF Recorded, Present
  <2>3. CASE req[h].pc \notin {"new", "done"}
    <3> DEFINE s == Ended(h, TRUE, "failed")
    <3>1. req'[h] = s
      BY <1>2, <2>3
    <3>2. /\ s \in Handled /\ s.pc = "done" /\ s.made = req[h].made
          /\ s.answer = "failed" /\ s.lost
      BY <1>1, LostEnds
    <3> HIDE DEF s
    <3> QED
      BY <1>2, <2>1, <3>1, <3>2 DEF Recorded, Present
  <2> QED
    BY <2>2, <2>3
<1>4. req' \in [Requests -> Handled]
  BY <1>2, <1>3
<1>5. RequestType'
  BY <1>1, <1>2, <1>4 DEF RequestType
<1> QED
  BY <1>3, <1>5 DEF AuditInv

\* Pulls add images and touch no request.
LEMMA PullsRecorded ==
  ASSUME IInv, AuditInv,
         \/ \E ref \in Refs : StartPull(ref)
         \/ \E p \in pulls, status \in {"done", "failed"} : EndPull(p, status)
  PROVE  AuditInv'
<1>1. /\ images' \subseteq Images
      /\ UNCHANGED <<boxes, networks, req, log>>
  BY DEF StartPull, EndPull, engine, IInv, RegistryType, Downloads, AuditInv, RequestType
<1> QED
  BY <1>1 DEF AuditInv, RequestType, Recorded, Present

LEMMA HandlersRecorded ==
  ASSUME AuditInv, NEW h \in Requests, Handlers(h)
  PROVE  AuditInv'
<1>1. images \subseteq Images /\ networks \subseteq Networks
  BY DEF AuditInv, RequestType
<1>2. ASSUME NEW b \in Bodies, RunContainer(h, b) PROVE AuditInv'
  <2>1. "create" \in Ops /\ b \in Targets
    BY DEF Ops, Targets
  <2> QED
    BY <1>2, <2>1, ReceiveRecorded DEF RunContainer
<1>3. ASSUME NEW c \in Requests, NEW op \in ContainerActions, ContainerAction(h, c, op)
      PROVE  AuditInv'
  <2>1. op \in Ops /\ c \in Targets
    BY DEF Ops, Targets
  <2> QED
    BY <1>3, <2>1, ReceiveRecorded DEF ContainerAction
<1>4. ASSUME NEW i \in images, RemoveImage(h, i) PROVE AuditInv'
  <2>1. {"image.remove", "image.force-remove"} \subseteq Ops /\ i \in Targets
    BY <1>1 DEF Ops, Targets
  <2> QED
    BY <1>4, <2>1, ReceiveRecorded DEF RemoveImage
<1>5. ASSUME NEW v \in Volumes, CreateVolume(h, v) \/ RemoveVolume(h, v) PROVE AuditInv'
  <2>1. "volume.create" \in Ops /\ "volume.remove" \in Ops /\ v \in Targets
    BY DEF Ops, Targets
  <2> QED
    BY <1>5, <2>1, ReceiveRecorded DEF CreateVolume, RemoveVolume
<1>6. ASSUME NEW n \in networks, RemoveNetwork(h, n) PROVE AuditInv'
  <2>1. "network.remove" \in Ops /\ n \in Targets
    BY <1>1 DEF Ops, Targets
  <2> QED
    BY <1>6, <2>1, ReceiveRecorded DEF RemoveNetwork
<1>7. ASSUME Prune(h) PROVE AuditInv'
  <2>1. {"prune.containers", "prune.networks"} \subseteq Ops /\ Nothing \in Targets
    BY DEF Ops, Targets
  <2> QED
    BY <1>7, <2>1, ReceiveRecorded DEF Prune
<1> QED
  BY <1>2, <1>3, <1>4, <1>5, <1>6, <1>7, CallRecorded, FailuresRecorded, AuditRecorded
  DEF Handlers

\* The audit log tells of every container and of every change the engine confirmed, unless
\* an answer, a row or the panel was lost on the way (Run, dockerRunContainer,
\* dockerContainerAction, dockerAudit).
THEOREM ConfirmedChangesAreAudited == Spec => []ChangesAreAudited
<1>1. Init => AuditInv
  BY DEF Init, AuditInv, RequestType, Recorded, Handled, Ops, Targets, Present, NoBox
<1>2. IInv /\ AuditInv /\ [Next]_vars => AuditInv'
  <2> SUFFICES ASSUME IInv, AuditInv, [Next]_vars PROVE AuditInv'
    OBVIOUS
  <2>1. CASE UNCHANGED vars
    BY <2>1 DEF vars, engine, AuditInv, RequestType, Recorded, Present
  <2> QED
    BY <2>1, PullsRecorded, HandlersRecorded, StopRecorded DEF Next
<1>3. AuditInv => ChangesAreAudited
  BY DEF AuditInv, Recorded, ChangesAreAudited
<1> QED
  BY <1>1, <1>2, <1>3, InitIInv, StepKeeps, PTL DEF Spec

-----------------------------------------------------------------------------
(* The types of Docker, all of them together.                              *)

BoxStates == {"absent", "created", "running", "paused", "exited"}
Containers == [state : BoxStates, body : Bodies \cup {Nothing}]

\* A call is given what its operation works on.
WellAimed(r) ==
    r.pc = "call" =>
        /\ r.op = "create" => r.target \in Bodies
        /\ r.op \in ContainerActions => r.target \in Requests
        /\ r.op = "volume.create" => r.target \in Volumes

DockerInv == IInv /\ AuditInv /\ TypeOK /\ \A h \in Requests : WellAimed(req[h])

LEMMA AfterStates ==
  ASSUME NEW op \in ContainerActions, NEW state \in BoxStates
  PROVE  After(op, state) \in BoxStates \cup {"refused"}
BY DEF After, ContainerActions, BoxStates

LEMMA CallsFit ==
  ASSUME boxes \in [Requests -> Containers], volumes \subseteq Volumes,
         NEW h \in Requests, req[h].pc = "call", WellAimed(req[h]),
         Does(h) \/ HalfRestart(h)
  PROVE  boxes' \in [Requests -> Containers] /\ volumes' \subseteq Volumes
<1>1. NoBox \in Containers
  BY DEF NoBox, Containers, BoxStates
<1>2. CASE Create(h)
  <2>1. req[h].target \in Bodies
    BY <1>2 DEF Create, WellAimed
  <2>2. [state |-> "created", body |-> req[h].target] \in Containers
    BY <2>1 DEF Containers, BoxStates
  <2>3. req[h].target.volume \in Volumes \cup {Nothing}
    BY <2>1, BodiesAssumption
  <2> QED
    BY <1>2, <2>2, <2>3 DEF Create
<1>3. CASE Act(h)
  <2> DEFINE c == req[h].target
             state == After(req[h].op, boxes[c].state)
  <2>1. c \in Requests /\ req[h].op \in ContainerActions
    BY <1>3 DEF Act, WellAimed
  <2>2. boxes[c] \in Containers /\ boxes[c].state \in BoxStates
    BY <2>1 DEF Containers
  <2>3. state \in BoxStates
    BY <1>3, <2>1, <2>2, AfterStates DEF Act
  <2>4. /\ boxes' = [boxes EXCEPT ![c] = IF state = "absent" THEN NoBox
                                         ELSE [boxes[c] EXCEPT !.state = state]]
        /\ volumes' = volumes
    BY <1>3 DEF Act, Become
  <2> HIDE DEF c, state
  <2>5. [boxes[c] EXCEPT !.state = state] \in Containers
    BY <2>2, <2>3 DEF Containers
  <2> QED
    BY <1>1, <2>1, <2>4, <2>5
<1>4. CASE PruneContainers(h)
  BY <1>1, <1>4 DEF PruneContainers
<1>5. CASE NetworkRemove(h) \/ ImageRemove(h) \/ VolumeRemove(h)
  BY <1>5 DEF NetworkRemove, ImageRemove, VolumeRemove
<1>6. CASE VolumeCreate(h)
  BY <1>6 DEF VolumeCreate, WellAimed
<1>7. CASE HalfRestart(h)
  <2>1. req[h].target \in Requests
    BY <1>7 DEF HalfRestart, WellAimed, ContainerActions
  <2>2. [boxes[req[h].target] EXCEPT !.state = "exited"] \in Containers
    BY <2>1 DEF Containers, BoxStates
  <2> QED
    BY <1>7, <2>1, <2>2 DEF HalfRestart, Become
<1> QED
  BY <1>2, <1>3, <1>4, <1>5, <1>6, <1>7 DEF Does

\* A request that is received fits if its operation and its target do; one that goes on
\* starts its own container, or calls no more.
LEMMA RequestsFit ==
  ASSUME AuditInv, \A g \in Requests : WellAimed(req[g]), NEW h \in Requests,
         \/ Call(h) \/ Refused(h) \/ CallTimesOut(h) \/ Audit(h) \/ AuditFails(h)
  PROVE  \A g \in Requests : WellAimed(req'[g])
<1>1. req \in [Requests -> Handled] /\ req[h] \in Handled
  BY DEF AuditInv, RequestType
<1>2. PICK r :
         /\ req' = [req EXCEPT ![h] = r]
         /\ \/ r.pc \in {"audit", "done"}
            \/ r.op = "start" /\ r.target = h
  <2>1. CASE Succeed(h)
    <3> DEFINE s == [req[h] EXCEPT
                       !.pc = IF WantsStart(h) THEN "call" ELSE "audit",
                       !.op = IF WantsStart(h) THEN "start" ELSE @,
                       !.target = IF WantsStart(h) THEN h ELSE @,
                       !.made = TRUE, !.answer = "ok"]
    <3>1. req' = [req EXCEPT ![h] = s]
      BY <1>1, <2>1 DEF Succeed
    <3>2. s.pc = "audit" \/ (s.op = "start" /\ s.target = h)
      BY <1>1 DEF Handled
    <3> HIDE DEF s
    <3> QED
      BY <3>1, <3>2
  <2>2. ASSUME NEW lost \in BOOLEAN, NEW answer, req' = [req EXCEPT ![h] = Ended(h, lost, answer)]
        PROVE  \E r : req' = [req EXCEPT ![h] = r] /\ r.pc \in {"audit", "done"}
    <3>1. Ended(h, lost, answer).pc = "done"
      BY <1>1 DEF Ended, Handled
    <3> QED
      BY <2>2, <3>1
  <2>3. ASSUME NEW lost \in BOOLEAN, Fail(h, lost)
        PROVE  \E r : req' = [req EXCEPT ![h] = r] /\ r.pc \in {"audit", "done"}
    <3>1. CASE req[h].made
      <4>1. req' = [req EXCEPT ![h] = Waiting(h, lost)]
        BY <1>1, <2>3, <3>1 DEF Fail, Waiting
      <4>2. Waiting(h, lost).pc = "audit"
        BY <1>1 DEF Waiting, Handled
      <4> QED
        BY <4>1, <4>2
    <3>2. CASE ~req[h].made
      BY <2>2, <2>3, <3>2 DEF Fail
    <3> QED
      BY <3>1, <3>2
  <2>4. CASE Call(h)
    BY <2>1, <2>4 DEF Call
  <2>5. CASE Refused(h) \/ CallTimesOut(h)
    BY <2>3, <2>5 DEF Refused, CallTimesOut
  <2>6. CASE Audit(h) \/ AuditFails(h)
    BY <2>2, <2>6 DEF Audit, AuditFails
  <2> QED
    BY <2>4, <2>5, <2>6
<1>3. req'[h] = r /\ \A g \in Requests : g # h => req'[g] = req[g]
  BY <1>1, <1>2
<1>4. WellAimed(r)
  BY <1>2 DEF WellAimed, ContainerActions
<1> QED
  BY <1>3, <1>4

LEMMA ReceivedFit ==
  ASSUME AuditInv, \A g \in Requests : WellAimed(req[g]), NEW h \in Requests,
         NEW op, NEW target, Receive(h, op, target),
         op = "create" => target \in Bodies,
         op \in ContainerActions => target \in Requests,
         op = "volume.create" => target \in Volumes
  PROVE  \A g \in Requests : WellAimed(req'[g])
<1>1. req \in [Requests -> Handled] /\ req[h] \in Handled
  BY DEF AuditInv, RequestType
<1>2. /\ req'[h].op = op /\ req'[h].target = target
      /\ \A g \in Requests : g # h => req'[g] = req[g]
  BY <1>1 DEF Receive, Handled
<1> QED
  BY <1>2 DEF WellAimed

LEMMA HandlersFit ==
  ASSUME AuditInv, \A g \in Requests : WellAimed(req[g]), NEW h \in Requests, Handlers(h)
  PROVE  \A g \in Requests : WellAimed(req'[g])
<1>1. ASSUME NEW b \in Bodies, RunContainer(h, b) PROVE \A g \in Requests : WellAimed(req'[g])
  BY <1>1, ReceivedFit DEF RunContainer, ContainerActions
<1>2. ASSUME NEW c \in Requests, NEW op \in ContainerActions, ContainerAction(h, c, op)
      PROVE  \A g \in Requests : WellAimed(req'[g])
  BY <1>2, ReceivedFit DEF ContainerAction, ContainerActions
<1>3. ASSUME NEW i \in images, RemoveImage(h, i) PROVE \A g \in Requests : WellAimed(req'[g])
  BY <1>3, ReceivedFit DEF RemoveImage, ContainerActions
<1>4. ASSUME NEW v \in Volumes, CreateVolume(h, v) \/ RemoveVolume(h, v)
      PROVE  \A g \in Requests : WellAimed(req'[g])
  BY <1>4, ReceivedFit DEF CreateVolume, RemoveVolume, ContainerActions
<1>5. ASSUME NEW n \in networks, RemoveNetwork(h, n) PROVE \A g \in Requests : WellAimed(req'[g])
  BY <1>5, ReceivedFit DEF RemoveNetwork, ContainerActions
<1>6. ASSUME Prune(h) PROVE \A g \in Requests : WellAimed(req'[g])
  BY <1>6, ReceivedFit DEF Prune, ContainerActions
<1> QED
  BY <1>1, <1>2, <1>3, <1>4, <1>5, <1>6, RequestsFit DEF Handlers

\* A list that is cut is no longer than the limit.
LEMMA TrimIsShort ==
  ASSUME NEW S, NEW s \in Seq(S)
  PROVE  Len(Trim(s)) <= Limit
<1>1. Limit \in Nat /\ Limit > 0 /\ Len(s) \in Nat
  BY BoundsAssumption
<1>2. CASE Len(s) > Limit
  <2>1. Trim(s) = SubSeq(s, Len(s) - Limit + 1, Len(s))
    BY <1>2 DEF Trim
  <2>2. Len(SubSeq(s, Len(s) - Limit + 1, Len(s))) = Limit
    BY <1>1, <1>2
  <2> QED
    BY <1>1, <2>1, <2>2
<1>3. CASE ~(Len(s) > Limit)
  BY <1>1, <1>3 DEF Trim
<1> QED
  BY <1>2, <1>3

LEMMA PullsTyped ==
  ASSUME DockerInv,
         \/ \E ref \in Refs : StartPull(ref)
         \/ \E p \in pulls, status \in {"done", "failed"} : EndPull(p, status)
         \/ Stop,
         IInv'
  PROVE  TypeOK'
<1>1. jobs' \in Seq(Jobs)
  BY DEF IInv, RegistryType
<1>2. MaxPulls \in Nat /\ Limit \in Nat /\ MaxFaults \in Nat
  BY BoundsAssumption
<1>3. TypeOK
  BY DEF DockerInv
<1>4. ASSUME NEW ref \in Refs, StartPull(ref) PROVE TypeOK'
  <2>1. Tagged(ref) \in Images
    BY TaggedType
  <2>2. Len(jobs') <= Limit
    <3> DEFINE new == Job(seq + 1, Tagged(ref))
    <3>1. jobs \in Seq(Jobs) /\ seq \in Nat
      BY DEF DockerInv, IInv, RegistryType
    <3>2. new \in Jobs
      BY <2>1, <3>1 DEF Job, Jobs
    <3>3. jobs' = Trim(Append(jobs, new))
      BY <1>4 DEF StartPull
    <3> HIDE DEF new
    <3>4. Append(jobs, new) \in Seq(Jobs)
      BY <3>1, <3>2
    <3> QED
      BY <3>3, <3>4, TrimIsShort
  <2>3. /\ seq' \in 0..started' /\ started' \in 0..MaxPulls
        /\ pulls' \subseteq PullIds
    BY <1>2, <1>3, <1>4, <2>1 DEF TypeOK, StartPull, PullIds
  <2>4. UNCHANGED <<images, boxes, volumes, networks, log, faults>>
    BY <1>4 DEF StartPull, engine
  <2> QED
    BY <1>1, <1>3, <2>2, <2>3, <2>4 DEF TypeOK, Jobs
<1>5. ASSUME NEW p \in pulls, NEW status \in {"done", "failed"}, EndPull(p, status)
      PROVE  TypeOK'
  <2>1. Len(jobs') <= Limit
    <3>1. /\ jobs \in Seq(Jobs) /\ DOMAIN jobs' = DOMAIN jobs /\ Len(jobs) <= Limit
      BY <1>3, <1>5 DEF EndPull, DockerInv, IInv, RegistryType, TypeOK
    <3> QED
      BY <1>1, <3>1
  <2>2. /\ images' \subseteq Images /\ pulls' \subseteq PullIds
    BY <1>3, <1>5 DEF EndPull, TypeOK, PullIds
  <2>3. UNCHANGED <<seq, boxes, volumes, networks, log, started, faults>>
    BY <1>5 DEF EndPull, bounds
  <2> QED
    BY <1>1, <1>3, <2>1, <2>2, <2>3 DEF TypeOK, Jobs
<1>6. CASE Stop
  <2>1. /\ Len(jobs') <= Limit /\ seq' \in 0..started /\ pulls' \subseteq PullIds
        /\ faults' \in 0..MaxFaults
        /\ UNCHANGED <<images, boxes, volumes, networks, log, started>>
    BY <1>2, <1>3, <1>6 DEF Stop, Fault, TypeOK, engine
  <2> QED
    BY <1>1, <1>3, <2>1 DEF TypeOK, Jobs
<1> QED
  BY <1>4, <1>5, <1>6

\* A request that is received touches only itself.
LEMMA HandlersSorted ==
  ASSUME NEW h \in Requests, Handlers(h)
  PROVE  \/ Refused(h) \/ Call(h)
         \/ CallTimesOut(h)
         \/ Audit(h)
         \/ AuditFails(h)
         \/ UNCHANGED <<engine, log, bounds>>
BY DEF Handlers, RunContainer, ContainerAction, RemoveImage, CreateVolume, RemoveVolume,
   RemoveNetwork, Prune, Receive

LEMMA HandlersTyped ==
  ASSUME DockerInv, NEW h \in Requests, Handlers(h), AuditInv'
  PROVE  TypeOK'
<1>1. TypeOK /\ WellAimed(req[h]) /\ MaxFaults \in Nat
  BY BoundsAssumption DEF DockerInv
<1>2. UNCHANGED <<jobs, seq, pulls, started>>
  BY HandlersAreQuiet, HandlersSorted
  DEF Call, Refused, CallTimesOut, Audit, AuditFails, registry, bounds
<1>3. images' \subseteq Images /\ networks' \subseteq Networks
  BY DEF AuditInv, RequestType
<1>4. log' \subseteq Requests /\ faults' \in 0..MaxFaults
  <2>1. CASE Refused(h) \/ Call(h)
    BY <1>1, <2>1 DEF Refused, Call, bounds, TypeOK
  <2>2. CASE CallTimesOut(h)
    BY <1>1, <2>2 DEF CallTimesOut, Fault, TypeOK
  <2>3. CASE Audit(h)
    BY <1>1, <2>3 DEF Audit, bounds, TypeOK
  <2>4. CASE AuditFails(h)
    BY <1>1, <2>4 DEF AuditFails, Fault, TypeOK
  <2>5. CASE UNCHANGED <<engine, log, bounds>>
    BY <1>1, <2>5 DEF bounds, TypeOK
  <2> QED
    BY <2>1, <2>2, <2>3, <2>4, <2>5, HandlersSorted
<1>5. \/ req[h].pc = "call" /\ (Does(h) \/ HalfRestart(h))
      \/ UNCHANGED engine
  BY HandlersSorted DEF Call, Refused, CallTimesOut, Audit, AuditFails
<1>6. boxes \in [Requests -> Containers] /\ volumes \subseteq Volumes
  BY <1>1 DEF TypeOK, Containers, BoxStates
<1>7. boxes' \in [Requests -> Containers] /\ volumes' \subseteq Volumes
  BY <1>1, <1>5, <1>6, CallsFit DEF engine
<1> QED
  BY <1>1, <1>2, <1>3, <1>4, <1>7 DEF TypeOK, Containers, BoxStates

LEMMA DockerInvKept == DockerInv /\ [Next]_vars => DockerInv'
<1> SUFFICES ASSUME DockerInv, [Next]_vars PROVE DockerInv'
  OBVIOUS
<1>1. IInv'
  BY StepKeeps DEF DockerInv
<1>2. CASE \E h \in Requests : Handlers(h)
  BY <1>1, <1>2, HandlersRecorded, HandlersTyped, HandlersFit DEF DockerInv
<1>3. CASE \/ \E ref \in Refs : StartPull(ref)
           \/ \E p \in pulls, status \in {"done", "failed"} : EndPull(p, status)
  <2>1. AuditInv' /\ TypeOK'
    BY <1>1, <1>3, PullsRecorded, PullsTyped DEF DockerInv
  <2>2. UNCHANGED req
    BY <1>3 DEF StartPull, EndPull
  <2> QED
    BY <1>1, <2>1, <2>2 DEF DockerInv
<1>4. CASE Stop
  <2>1. AuditInv' /\ TypeOK'
    BY <1>1, <1>4, StopRecorded, PullsTyped DEF DockerInv
  <2>2. ASSUME NEW h \in Requests PROVE WellAimed(req'[h])
    <3>1. req[h] \in Handled /\ WellAimed(req[h])
      BY DEF DockerInv, AuditInv, RequestType
    <3>2. Ended(h, TRUE, "failed").pc = "done"
      BY <3>1 DEF Ended, Handled
    <3>3. req'[h] = req[h] \/ req'[h] = Ended(h, TRUE, "failed")
      BY <1>4 DEF Stop
    <3> QED
      BY <3>1, <3>2, <3>3 DEF WellAimed
  <2> QED
    BY <1>1, <2>1, <2>2 DEF DockerInv
<1>5. CASE UNCHANGED vars
  BY <1>1, <1>5 DEF DockerInv, AuditInv, RequestType, Recorded, Present, TypeOK, vars,
     registry, engine
<1> QED
  BY <1>2, <1>3, <1>4, <1>5 DEF Next

\* The engine's objects, the list of pulls and the requests keep their types: the list
\* never exceeds its limit, a pull is of an image with a tag, and a call is made with the
\* kind of object that it is for (StartPull, Run, dockerContainerAction).
THEOREM DockerTypeCorrect == Spec => []TypeOK
<1>1. Init => DockerInv
  <2> SUFFICES ASSUME Init PROVE DockerInv
    OBVIOUS
  <2>1. IInv
    BY InitIInv
  <2>2. AuditInv
    BY DEF Init, AuditInv, RequestType, Recorded, Handled, Ops, Targets, Present, NoBox
  <2>3. TypeOK
    BY BoundsAssumption DEF Init, TypeOK, NoBox
  <2>4. \A h \in Requests : WellAimed(req[h])
    BY DEF Init, WellAimed
  <2> QED
    BY <2>1, <2>2, <2>3, <2>4 DEF DockerInv
<1>2. DockerInv => TypeOK
  BY DEF DockerInv
<1> QED
  BY <1>1, <1>2, DockerInvKept, PTL DEF Spec

-----------------------------------------------------------------------------
(* The update: what the prover needs to know of it.                        *)

\* What is left of the lists at any time.
SavedTails ==
    {Saved, <<"db", "wal", "sudoers", "unit">>, <<"wal", "sudoers", "unit">>,
     <<"sudoers", "unit">>, <<"unit">>, <<>>}
InstalledTails == {Installed, <<"sudoers", "unit">>, <<"unit">>, <<>>}

\* The files a list names.
Listing(s) == {s[i] : i \in DOMAIN s}

\* The WAL in g is the database's own, and the binary in g can serve the database.
Sound(g) == g["wal"] \in {0, g["db"]} /\ g["db"] <= g["binary"]

\* f is restored in g: it is as before, or it was not there and is optional.
Restored(f) == file[f] = before[f] \/ (f \in Optional /\ before[f] = 0)

\* The lists are worked through in order.
Worklist ==
    /\ step = "backup" => todo \in SavedTails
    /\ step = "install" => todo \in InstalledTails
    /\ step = "restore" => todo \in SavedTails /\ (~ready => todo = <<>>)
    /\ step \in {"install", "start", "health"} => ready

\* Releases go forward until the new binary is there.
Forward == step \in {"stop", "backup", "install"} => file["binary"] <= release

\* The service runs what is installed, and only while nothing is exchanged.
Served ==
    running # 0 =>
        /\ running = file["binary"]
        /\ step \in {"idle", "stop", "health", "undo"}
        /\ step = "undo" => ready

\* Outside the rollback the installed binary fits the database; the files the update
\* found were sound, too.
Fitting ==
    /\ step # "restore" => Sound(file)
    /\ step \notin {"idle", "stop"} => Sound(before)

\* The backup grows to what was there before, and what is restored is exact; if there
\* is no complete backup, nothing has changed.
Exact ==
    /\ step = "backup" => \A f \in Parts \ Listing(todo) : backup[f] = before[f]
    /\ step \notin {"idle", "stop", "backup"} /\ ready => backup = before
    /\ step = "backup" \/ (step \in {"undo", "restore", "restart"} /\ ~ready) => file = before
    /\ step = "restore" /\ ready => \A f \in Parts \ Listing(todo) : Restored(f)
    /\ step = "restart" => \A f \in Parts : Restored(f)

\* The inductive invariant: a rollback that failed or was interrupted leaves nothing of it
\* but the types.
UpdateInv ==
    /\ UpdateTypeOK
    /\ Worklist
    /\ ~spoiled => Forward /\ Served /\ Fitting /\ Exact

-----------------------------------------------------------------------------
(* The lists.                                                              *)

Tails == SavedTails \cup InstalledTails

\* A list that is worked through names parts, each once.
LEMMA ListSteps ==
  ASSUME NEW s \in Tails
  PROVE  /\ s \in Seq(Parts)
         /\ s # <<>> => /\ Head(s) \in Parts
                        /\ Tail(s) \in Seq(Parts)
                        /\ Head(s) \in Listing(s)
                        /\ Listing(Tail(s)) = Listing(s) \ {Head(s)}
<1> USE DEF Parts, Optional, Listing
<1>1. CASE s = Saved
  BY <1>1 DEF Saved
<1>2. CASE s = Installed
  BY <1>2 DEF Installed
<1>3. CASE s = <<"db", "wal", "sudoers", "unit">>
  BY <1>3
<1>4. CASE s = <<"wal", "sudoers", "unit">>
  BY <1>4
<1>5. CASE s = <<"sudoers", "unit">>
  BY <1>5
<1>6. CASE s = <<"unit">>
  BY <1>6
<1>7. CASE s = <<>>
  BY <1>7
<1> QED
  BY <1>1, <1>2, <1>3, <1>4, <1>5, <1>6, <1>7 DEF Tails, SavedTails, InstalledTails

\* What is left of a list is one of its tails; the WAL follows the database.
LEMMA TailsOfLists ==
  /\ \A s \in SavedTails : s # <<>> => Tail(s) \in SavedTails
  /\ \A s \in SavedTails : s # <<>> /\ Head(s) = "db" => Tail(Tail(s)) \in SavedTails
  /\ \A s \in InstalledTails : s # <<>> => Tail(s) \in InstalledTails
BY DEF SavedTails, InstalledTails, Saved, Installed

LEMMA WholeLists ==
  /\ Listing(Saved) = Parts
  /\ Listing(<<>>) = {}
  /\ Saved \in SavedTails /\ Installed \in InstalledTails /\ <<>> \in SavedTails
BY DEF Listing, Saved, Parts, Optional, SavedTails, InstalledTails

-----------------------------------------------------------------------------
(* Types and lists.                                                        *)

\* The next file of a list is a part, and what follows is a list.
LEMMA NextFile ==
  ASSUME NEW S \in {SavedTails, InstalledTails}, NEW s \in S, s # <<>>
  PROVE  /\ Head(s) \in Parts
         /\ Tail(s) \in S /\ Tail(s) \in Seq(Parts)
         /\ Listing(Tail(s)) = Listing(s) \ {Head(s)}
         /\ Head(s) \in Listing(s)
BY ListSteps, TailsOfLists DEF Tails

LEMMA ContentsKept ==
  /\ NoFiles \in Contents
  /\ \A g \in Contents :
        /\ \A f \in Parts : g[f] \in 0..MaxRelease
        /\ \A f \in Parts, n \in 0..MaxRelease : [g EXCEPT ![f] = n] \in Contents
  /\ "binary" \in Parts /\ "db" \in Parts /\ "wal" \in Parts /\ "unit" \in Parts
  /\ 0 \in 0..MaxRelease
BY ReleasesAssumption DEF Contents, NoFiles, Parts, Optional

LEMMA TypesBegin == UpdateInit => UpdateTypeOK /\ Worklist
<1> SUFFICES ASSUME UpdateInit PROVE UpdateTypeOK /\ Worklist
  OBVIOUS
<1>1. file \in Contents
  <2>1. PICK w \in {0, 1}, s \in {0, 1} :
           file = [f \in Parts |-> CASE f = "wal" -> w [] f = "sudoers" -> s [] OTHER -> 1]
    BY DEF UpdateInit
  <2>2. 0 \in 0..MaxRelease /\ 1 \in 0..MaxRelease
    BY ReleasesAssumption
  <2> QED
    BY <2>1, <2>2 DEF Contents
<1>2. <<>> \in Seq(Parts) /\ NoFiles \in Contents
  BY ContentsKept
<1>3. running \in 0..MaxRelease /\ loaded \in 0..MaxRelease /\ release \in 0..MaxRelease
  BY ReleasesAssumption DEF UpdateInit
<1>4. failures \in 0..MaxFailures /\ crashes \in 0..MaxCrashes
  BY ReleasesAssumption DEF UpdateInit
<1> QED
  BY <1>1, <1>2, <1>3, <1>4 DEF UpdateInit, UpdateTypeOK, Worklist, Steps

LEMMA StopKeeps ==
  ASSUME UpdateTypeOK, StopService
  PROVE  file' \in Contents /\ running' \in 0..MaxRelease /\ loaded' \in 0..MaxRelease
BY ContentsKept DEF StopService, UpdateTypeOK

LEMMA UpdateTypesKept ==
  ASSUME UpdateTypeOK, Worklist, [UpdateNext]_updateVars
  PROVE  UpdateTypeOK' /\ Worklist'
<1> USE ReleasesAssumption
    DEF Worklist, Contents, Go, discVars, serviceVars, planVars, boundVars, auxVars
<1>0. /\ Saved \in SavedTails /\ Installed \in InstalledTails /\ <<>> \in SavedTails
      /\ Saved \in Seq(Parts) /\ Installed \in Seq(Parts) /\ <<>> \in Seq(Parts)
  BY WholeLists, ListSteps DEF Tails
<1>1. CASE Serve
  <2> DEFINE schema == Newer(file["db"], running)
  <2>1. file \in Contents /\ file["db"] \in 0..MaxRelease /\ running \in 0..MaxRelease
    BY ContentsKept DEF UpdateTypeOK
  <2>2. schema \in 0..MaxRelease
    BY <2>1 DEF Newer
  <2>3. file' = [[file EXCEPT !["db"] = schema] EXCEPT !["wal"] = schema]
    BY <1>1 DEF Serve
  <2> HIDE DEF schema
  <2>4. file' \in Contents
    BY <2>1, <2>2, <2>3, ContentsKept
  <2> QED
    BY <1>1, <2>4 DEF Serve, UpdateTypeOK
<1>2. CASE Prepare
  <2>1. file["binary"] \in 0..MaxRelease /\ backup' \in Contents
    BY <1>2, ContentsKept DEF Prepare, UpdateTypeOK
  <2>2. release' \in 0..MaxRelease
    BY <1>2, <2>1 DEF Prepare
  <2> QED
    BY <1>0, <1>2, <2>1, <2>2 DEF Prepare, UpdateTypeOK, Steps
<1>3. CASE TakeDown
  BY <1>0, <1>3, StopKeeps DEF TakeDown, UpdateTypeOK, Steps
<1>4. CASE Backup
  <2>1. Head(todo) \in Parts /\ Tail(todo) \in SavedTails /\ Tail(todo) \in Seq(Parts)
    BY <1>4, NextFile DEF Backup
  <2> QED
    BY <1>4, <2>1 DEF Backup, UpdateTypeOK, Steps
<1>5. CASE BackupDone
  BY <1>0, <1>5 DEF BackupDone, UpdateTypeOK, Steps
<1>6. CASE Install
  <2>1. Head(todo) \in Parts /\ Tail(todo) \in InstalledTails /\ Tail(todo) \in Seq(Parts)
    BY <1>6, NextFile DEF Install
  <2> QED
    BY <1>6, <2>1 DEF Install, UpdateTypeOK, Steps
<1>7. CASE Reload \/ StartNew \/ Healthy \/ Unhealthy
  BY <1>0, <1>7
     DEF Reload, StartNew, Healthy, Unhealthy, UpdateTypeOK, Steps, Parts, Optional
<1>8. CASE StopFails \/ StepFails
  <2>1. CASE StopFails
    <3>1. file' \in Contents /\ running' \in 0..MaxRelease /\ loaded' \in 0..MaxRelease
      BY <2>1, StopKeeps DEF StopFails, UpdateTypeOK
    <3>2. failures' \in 0..MaxFailures
      BY <2>1 DEF StopFails, UpdateTypeOK
    <3> QED
      BY <1>0, <2>1, <3>1, <3>2 DEF StopFails, UpdateTypeOK, Steps
  <2>2. CASE StepFails
    <3>1. file["binary"] \in 0..MaxRelease /\ file["unit"] \in 0..MaxRelease
      BY ContentsKept DEF UpdateTypeOK
    <3>2. running' \in 0..MaxRelease /\ loaded' \in 0..MaxRelease
      BY <2>2, <3>1 DEF StepFails, UpdateTypeOK
    <3> QED
      BY <1>0, <2>2, <3>2 DEF StepFails, UpdateTypeOK, Steps
  <2> QED
    BY <1>8, <2>1, <2>2
<1>9. CASE Undo
  <2>1. file' \in Contents /\ running' \in 0..MaxRelease /\ loaded' \in 0..MaxRelease
    BY <1>9, StopKeeps DEF Undo
  <2>2. todo' \in SavedTails /\ todo' \in Seq(Parts) /\ (~ready => todo' = <<>>)
    BY <1>0, <1>9 DEF Undo, UndoFiles
  <2> QED
    BY <1>9, <2>1, <2>2 DEF Undo, UpdateTypeOK, Steps
<1>10. CASE Restore
  <2>1. Head(todo) \in Parts /\ Tail(todo) \in SavedTails /\ Tail(todo) \in Seq(Parts)
    BY <1>10, NextFile DEF Restore
  <2>2. ready
    BY <1>10 DEF Restore
  <2> QED
    BY <1>10, <2>1, <2>2 DEF Restore, UpdateTypeOK, Steps
<1>11. CASE RestoreDone \/ Restart
  BY <1>0, <1>11 DEF RestoreDone, Restart, UpdateTypeOK, Steps, Parts, Optional
<1>12. CASE UndoFails
  <2>1. CASE step = "restore" /\ todo # <<>>
    <3>1. /\ Tail(todo) \in SavedTails
          /\ Head(todo) = "db" => Tail(Tail(todo)) \in SavedTails
      BY <2>1, TailsOfLists
    <3>2. todo' \in SavedTails /\ todo' \in Seq(Parts)
      BY <1>12, <2>1, <3>1, ListSteps DEF UndoFails, Tails
    <3>3. ready /\ ready' = ready
      BY <1>12, <2>1 DEF UndoFails
    <3>4. /\ UNCHANGED serviceVars /\ step' = "restore"
          /\ file' = file \/ \E f \in {"db", "wal"} : file' = [file EXCEPT ![f] = 0]
      BY <1>12, <2>1 DEF UndoFails
    <3>5. file' \in Contents
      BY <3>4, ContentsKept DEF UpdateTypeOK
    <3> QED
      BY <1>12, <2>1, <3>2, <3>3, <3>4, <3>5 DEF UndoFails, UpdateTypeOK, Steps
  <2>2. CASE step = "undo"
    <3>1. todo' \in SavedTails /\ todo' \in Seq(Parts) /\ (~ready => todo' = <<>>)
      BY <1>0, <1>12, <2>2 DEF UndoFails, UndoFiles
    <3>2. file' \in Contents /\ running' \in 0..MaxRelease /\ loaded' \in 0..MaxRelease
      BY <1>12, <2>2, StopKeeps DEF UndoFails, UpdateTypeOK
    <3> QED
      BY <1>12, <2>2, <3>1, <3>2 DEF UndoFails, UpdateTypeOK, Steps
  <2>3. CASE (step = "restore" /\ todo = <<>>) \/ step = "restart"
    <3>1. todo' = <<>> /\ file' = file /\ step' \in {"restart", "idle"}
      BY <1>12, <2>3 DEF UndoFails
    <3>2. file["binary"] \in 0..MaxRelease /\ file["unit"] \in 0..MaxRelease
      BY ContentsKept DEF UpdateTypeOK
    <3>3. running' \in 0..MaxRelease /\ loaded' \in 0..MaxRelease
      BY <1>12, <2>3, <3>2 DEF UndoFails, UpdateTypeOK
    <3> QED
      BY <1>0, <1>12, <3>1, <3>3 DEF UndoFails, UpdateTypeOK, Steps
  <2> QED
    BY <1>12, <2>1, <2>2, <2>3 DEF UndoFails
<1>13. CASE Crash
  <2>1. file' \in Contents
    <3>1. file' = file \/ \E f \in {"db", "wal"} : file' = [file EXCEPT ![f] = 0]
      BY <1>13 DEF Crash
    <3> QED
      BY <3>1, ContentsKept DEF UpdateTypeOK
  <2>2. running' \in 0..MaxRelease /\ loaded' \in 0..MaxRelease
    <3>1. \/ running' = running /\ loaded' = loaded
          \/ running' = file["binary"] /\ loaded' = file["unit"]
      BY <1>13 DEF Crash
    <3>2. /\ running \in 0..MaxRelease /\ loaded \in 0..MaxRelease
          /\ file["binary"] \in 0..MaxRelease /\ file["unit"] \in 0..MaxRelease
      BY ContentsKept DEF UpdateTypeOK
    <3> QED
      BY <3>1, <3>2, Zenon
  <2>3. /\ step' = "idle" /\ todo' = <<>> /\ crashes' \in 0..MaxCrashes
        /\ spoiled' \in BOOLEAN /\ UNCHANGED <<backup, planVars, failures, before>>
    BY <1>13 DEF Crash, UpdateTypeOK
  <2> QED
    BY <1>0, <2>1, <2>2, <2>3 DEF UpdateTypeOK, Steps
<1>14. CASE UNCHANGED updateVars
  BY <1>14 DEF updateVars, UpdateTypeOK
<1> QED
  BY <1>1, <1>2, <1>3, <1>4, <1>5, <1>6, <1>7, <1>8, <1>9, <1>10, <1>11, <1>12, <1>13,
     <1>14
  DEF UpdateNext, performUpdate

-----------------------------------------------------------------------------
(* What holds until a rollback fails or is interrupted.                    *)

Intact == Forward /\ Served /\ Fitting /\ Exact

\* The service may migrate the database it serves; that is not during a backup or the
\* rollback.
LEMMA ServeKeeps ==
  ASSUME UpdateTypeOK, Worklist, Intact, Serve
  PROVE  Intact'
<1> DEFINE schema == Newer(file["db"], running)
<1>1. /\ running = file["binary"] /\ step \in {"idle", "stop", "health", "undo"}
      /\ step = "undo" => ready
      /\ Sound(file)
  BY DEF Intact, Served, Fitting, Serve
<1>2. schema = running
  <2>1. file["db"] \in 0..MaxRelease /\ running \in 0..MaxRelease
    BY ContentsKept DEF UpdateTypeOK
  <2> QED
    BY <1>1, <2>1 DEF Newer, Sound
<1>3. /\ file'["db"] = running /\ file'["wal"] = running /\ file'["binary"] = running
      /\ file \in Contents
  BY <1>1, <1>2 DEF Serve, UpdateTypeOK, Contents, Parts
<1>4. Sound(file')
  <2>1. running \in 0..MaxRelease
    BY DEF UpdateTypeOK
  <2> QED
    BY <1>3, <2>1 DEF Sound
<1>5. UNCHANGED <<backup, running, loaded, step, todo, release, ships, ready, before, spoiled>>
  BY DEF Serve, serviceVars, planVars, auxVars
<1> QED
  BY <1>1, <1>3, <1>4, <1>5 DEF Intact, Forward, Served, Fitting, Exact

\* Stopping the service removes the WAL or leaves it.
LEMMA StopSound ==
  ASSUME UpdateTypeOK, StopService, Sound(file)
  PROVE  Sound(file') /\ file'["binary"] = file["binary"] /\ running' = 0
<1>1. file \in Contents /\ file["db"] \in 0..MaxRelease
  BY ContentsKept DEF UpdateTypeOK
<1> QED
  BY <1>1 DEF StopService, Sound, Contents, Parts

LEMMA PrepareKeeps ==
  ASSUME UpdateTypeOK, Worklist, Intact, Prepare \/ TakeDown
  PROVE  Intact'
<1>1. CASE Prepare
  <2>1. /\ step' = "stop" /\ step = "idle" /\ file["binary"] <= release'
        /\ UNCHANGED <<file, running, before>>
    <3>1. file["binary"] \in 0..MaxRelease
      BY ContentsKept DEF UpdateTypeOK
    <3> QED
      BY <1>1, <3>1, ReleasesAssumption DEF Prepare, Go, serviceVars, auxVars
  <2> QED
    BY <2>1 DEF Intact, Forward, Served, Fitting, Exact
<1>2. CASE TakeDown
  <2>1. /\ step' = "backup" /\ step = "stop" /\ todo' = Saved /\ before' = file'
        /\ release' = release
    BY <1>2 DEF TakeDown, Go, planVars
  <2>2. Sound(file') /\ file'["binary"] = file["binary"] /\ running' = 0
    BY <1>2, <2>1, StopSound DEF TakeDown, Intact, Fitting
  <2>3. Listing(todo') = Parts
    BY <2>1, WholeLists
  <2> QED
    BY <2>1, <2>2, <2>3 DEF Intact, Forward, Served, Fitting, Exact
<1> QED
  BY <1>1, <1>2

LEMMA BackupKeeps ==
  ASSUME UpdateTypeOK, Worklist, Intact, Backup \/ BackupDone
  PROVE  Intact'
<1>1. /\ step = "backup" /\ running = 0 /\ file = before /\ Sound(file)
      /\ UNCHANGED <<file, running, release, before>>
  BY DEF Backup, BackupDone, Intact, Served, Fitting, Exact, discVars, serviceVars,
         planVars, auxVars
<1>2. CASE Backup
  <2>1. /\ step' = "backup" /\ todo' = Tail(todo) /\ ready' = ready
        /\ backup' = [backup EXCEPT ![Head(todo)] = file[Head(todo)]]
        /\ todo # <<>> /\ todo \in SavedTails
    BY <1>2 DEF Backup, Go, planVars, Worklist
  <2>2. Listing(todo') = Listing(todo) \ {Head(todo)} /\ Head(todo) \in Parts
    BY <2>1, NextFile
  <2>3. \A f \in Parts \ Listing(todo') : backup'[f] = before'[f]
    BY <1>1, <2>1, <2>2 DEF Intact, Exact, UpdateTypeOK, Contents
  <2> QED
    BY <1>1, <2>1, <2>3 DEF Intact, Forward, Served, Fitting, Exact
<1>3. CASE BackupDone
  <2>1. step' = "install" /\ backup' = backup /\ todo = <<>>
    BY <1>3 DEF BackupDone, Go, discVars
  <2>2. backup = before
    BY <1>1, <2>1, WholeLists DEF Intact, Exact, UpdateTypeOK, Contents
  <2> QED
    BY <1>1, <2>1, <2>2 DEF Intact, Forward, Served, Fitting, Exact
<1> QED
  BY <1>2, <1>3

\* A newer binary still fits the database.
LEMMA InstallKeeps ==
  ASSUME UpdateTypeOK, Worklist, Intact,
         Install \/ Reload \/ StartNew \/ Healthy \/ Unhealthy
  PROVE  Intact'
<1>1. /\ step \in {"install", "start", "health"} /\ ready /\ Sound(file) /\ Sound(before)
      /\ backup = before
      /\ UNCHANGED <<backup, ready, release, before>>
  BY DEF Install, Reload, StartNew, Healthy, Unhealthy, Intact, Fitting, Exact, Worklist,
         discVars, planVars, auxVars
<1>2. CASE Install
  <2>1. /\ step' = "install" /\ running' = running /\ running = 0
        /\ file["binary"] <= release
        /\ \/ file' = file
           \/ \E f \in {"binary", "sudoers", "unit"} : file' = [file EXCEPT ![f] = release]
    <3>1. todo # <<>> => Head(todo) \in {"binary", "sudoers", "unit"}
      BY <1>2 DEF Install, Worklist, InstalledTails, Installed
    <3> QED
      BY <1>2, <3>1 DEF Install, Go, serviceVars, Intact, Forward, Served
  <2>2. Sound(file') /\ file'["binary"] <= release
    <3>1. /\ file \in Contents /\ release \in 0..MaxRelease
          /\ file["binary"] \in 0..MaxRelease /\ file["db"] \in 0..MaxRelease
      BY ContentsKept DEF UpdateTypeOK
    <3> QED
      BY <1>1, <2>1, <3>1 DEF Sound, Contents, Parts, Optional
  <2> QED
    BY <1>1, <2>1, <2>2 DEF Intact, Forward, Served, Fitting, Exact
<1>3. CASE Reload \/ StartNew
  <2>1. /\ step' \in {"start", "health"} /\ file' = file
        /\ step' = "health" => running' = file["binary"]
        /\ step' = "start" => running' = running /\ running = 0
    BY <1>3 DEF Reload, StartNew, Go, discVars, Intact, Served
  <2> QED
    BY <1>1, <2>1 DEF Intact, Forward, Served, Fitting, Exact
<1>4. CASE Healthy \/ Unhealthy
  <2>1. step' \in {"idle", "undo"} /\ step = "health" /\ UNCHANGED <<file, running>>
    BY <1>4 DEF Healthy, Unhealthy, Go, discVars, serviceVars
  <2> QED
    BY <1>1, <2>1 DEF Intact, Forward, Served, Fitting, Exact
<1> QED
  BY <1>2, <1>3, <1>4

LEMMA StopFailsKeeps ==
  ASSUME UpdateTypeOK, Worklist, Intact, StopFails
  PROVE  Intact'
<1>1. /\ step = "stop" /\ step' = "idle" /\ Sound(file)
      /\ UNCHANGED <<backup, release, ready, before>>
  BY DEF StopFails, Go, planVars, auxVars, Intact, Fitting
<1>2. CASE StopService
  <2>1. Sound(file') /\ file'["binary"] = file["binary"] /\ running' = 0
    BY <1>1, <1>2, StopSound
  <2> QED
    BY <1>1, <2>1 DEF Intact, Forward, Served, Fitting, Exact
<1>3. CASE UNCHANGED <<file, serviceVars>>
  BY <1>1, <1>3 DEF serviceVars, Intact, Forward, Served, Fitting, Exact
<1> QED
  BY <1>2, <1>3 DEF StopFails

LEMMA StepFailsKeeps ==
  ASSUME UpdateTypeOK, Worklist, Intact, StepFails
  PROVE  Intact'
<1>1. /\ step \in {"backup", "install", "start"}
      /\ step' = "undo"
      /\ running' = running \/ (step = "start" /\ running' = file["binary"])
      /\ UNCHANGED <<file, backup, release, ready, before>>
  BY DEF StepFails, Go, discVars, planVars, auxVars
<1>2. step = "backup" => ~ready
  BY DEF UpdateTypeOK
<1>3. step \in {"install", "start"} => ready
  BY DEF Worklist
<1> QED
  BY <1>1, <1>2, <1>3 DEF Intact, Forward, Served, Fitting, Exact

\* The rollback restores what the backup holds, or there is nothing to restore.
LEMMA UndoKeeps ==
  ASSUME UpdateTypeOK, Worklist, Intact, Undo
  PROVE  Intact'
<1>1. /\ step = "undo" /\ step' = "restore" /\ Sound(before)
      /\ UNCHANGED <<backup, release, ready, before>>
  BY DEF Undo, Go, planVars, auxVars, Intact, Fitting
<1>2. running' = 0
  BY DEF Undo, StopService
<1>3. CASE ready
  <2>1. Listing(todo') = Parts
    BY <1>3, WholeLists DEF Undo, Go, UndoFiles
  <2> QED
    BY <1>1, <1>2, <1>3, <2>1 DEF Intact, Forward, Served, Fitting, Exact
<1>4. CASE ~ready
  <2>1. running = 0 /\ file = before
    BY <1>1, <1>4 DEF Intact, Served, Exact
  <2>2. file' = file
    BY <2>1 DEF Undo, StopService
  <2> QED
    BY <1>1, <1>2, <1>4, <2>1, <2>2 DEF Intact, Forward, Served, Fitting, Exact
<1> QED
  BY <1>3, <1>4

LEMMA RestoreKeeps ==
  ASSUME UpdateTypeOK, Worklist, Intact, Restore
  PROVE  Intact'
<1> DEFINE f == Head(todo)
<1>1. /\ step = "restore" /\ step' = "restore" /\ running = 0 /\ running' = 0
      /\ todo # <<>> /\ todo \in SavedTails /\ todo' = Tail(todo) /\ ready
      /\ Sound(before) /\ backup = before
      /\ UNCHANGED <<backup, release, ready, before>>
  BY DEF Restore, Go, planVars, serviceVars, auxVars, Worklist, Intact, Served, Fitting, Exact
<1>2. f \in Parts /\ Listing(todo') = Listing(todo) \ {f}
  BY <1>1, NextFile
<1>3. file' = IF f \in Optional /\ before[f] = 0 THEN file ELSE [file EXCEPT ![f] = before[f]]
  BY <1>1 DEF Restore
<1>4. \A g \in Parts \ Listing(todo') : Restored(g)'
  BY <1>1, <1>2, <1>3 DEF Restored, Intact, Exact, UpdateTypeOK, Contents
<1> QED
  BY <1>1, <1>4 DEF Intact, Forward, Served, Fitting, Exact

LEMMA RestartKeeps ==
  ASSUME UpdateTypeOK, Worklist, Intact, RestoreDone \/ Restart
  PROVE  Intact'
<1>1. /\ Sound(before) /\ UNCHANGED <<file, backup, release, ready, before>>
  BY DEF RestoreDone, Restart, discVars, planVars, auxVars, Intact, Fitting
<1>2. CASE RestoreDone
  <2>1. /\ step = "restore" /\ step' = "restart" /\ todo = <<>> /\ running = 0 /\ running' = 0
    BY <1>2 DEF RestoreDone, Go, Intact, Served
  <2>2. \A f \in Parts : Restored(f)
    BY <2>1, WholeLists DEF Intact, Exact, Restored
  <2>3. Sound(file)
    BY <1>1, <2>2 DEF Sound, Restored, Parts, Optional
  <2> QED
    BY <1>1, <2>1, <2>2, <2>3 DEF Intact, Forward, Served, Fitting, Exact, Restored
<1>3. CASE Restart
  <2>1. step = "restart" /\ step' = "idle" /\ running' = file["binary"] /\ Sound(file)
    BY <1>3 DEF Restart, Go, Intact, Fitting
  <2> QED
    BY <1>1, <2>1 DEF Intact, Forward, Served, Fitting, Exact
<1> QED
  BY <1>2, <1>3

\* A crash before the rollback leaves a sound installation.
LEMMA CrashKeeps ==
  ASSUME UpdateTypeOK, Worklist, Intact, Crash, ~spoiled'
  PROVE  Intact'
<1>1. /\ step \notin {"undo", "restore", "restart"} /\ step' = "idle" /\ file' = file
      /\ running' = running \/ running' = file["binary"]
  BY DEF Crash, Go, serviceVars
<1> QED
  BY <1>1 DEF Intact, Forward, Served, Fitting, Exact

LEMMA UpdateInvKept == UpdateInv /\ [UpdateNext]_updateVars => UpdateInv'
<1> SUFFICES ASSUME UpdateInv, [UpdateNext]_updateVars PROVE UpdateInv'
  OBVIOUS
<1>1. UpdateTypeOK /\ Worklist /\ UpdateTypeOK' /\ Worklist'
  BY UpdateTypesKept DEF UpdateInv
<1>2. ASSUME ~spoiled' PROVE Intact'
  <2>1. ~spoiled /\ ~UndoFails
    <3>1. \/ performUpdate \/ Serve \/ StopFails \/ StepFails
          \/ UNCHANGED updateVars
          => spoiled' = spoiled
      BY DEF performUpdate, Prepare, TakeDown, Backup, BackupDone, Install, Reload, StartNew,
             Healthy, Unhealthy, Undo, Restore, RestoreDone, Restart, Serve, StopFails,
             StepFails, updateVars, auxVars
    <3>2. Crash /\ spoiled => spoiled'
      BY Zenon DEF Crash
    <3>3. UndoFails => spoiled'
      BY Zenon DEF UndoFails
    <3>4. \/ performUpdate \/ Serve \/ StopFails \/ StepFails \/ UNCHANGED updateVars
          \/ Crash \/ UndoFails
      BY DEF UpdateNext
    <3>5. ~UndoFails
      BY <1>2, <3>3, Zenon
    <3>6. CASE spoiled' = spoiled
      BY <1>2, <3>5, <3>6
    <3>7. CASE Crash
      BY <1>2, <3>2, <3>5, <3>7, Zenon
    <3> QED
      BY <3>1, <3>4, <3>5, <3>6, <3>7
  <2>2. Intact
    BY <2>1 DEF UpdateInv, Intact
  <2>3. CASE UNCHANGED updateVars
    BY <2>2, <2>3
       DEF updateVars, discVars, serviceVars, planVars, auxVars, Intact, Forward, Served,
           Fitting, Exact, Restored
  <2> QED
    BY <1>1, <1>2, <2>1, <2>2, <2>3, ServeKeeps, PrepareKeeps, BackupKeeps, InstallKeeps,
       StopFailsKeeps, StepFailsKeeps, UndoKeeps, RestoreKeeps, RestartKeeps, CrashKeeps
    DEF UpdateNext, performUpdate
<1> QED
  BY <1>1, <1>2 DEF UpdateInv, Intact

LEMMA UpdateInvBegins == UpdateInit => UpdateInv
<1> SUFFICES ASSUME UpdateInit PROVE Intact
  BY TypesBegin DEF UpdateInv, Intact
<1>1. /\ file["binary"] = 1 /\ file["db"] = 1 /\ file["wal"] \in {0, 1}
      /\ step = "idle" /\ running = 1
  BY DEF UpdateInit, Parts, Optional
<1> QED
  BY <1>1 DEF Intact, Forward, Served, Fitting, Exact, Sound

THEOREM UpdateInvariance == UpdateSpec => []UpdateInv
  BY UpdateInvBegins, UpdateInvKept, PTL DEF UpdateSpec

\* Type correctness of every reachable state of the update.
THEOREM UpdateTypeCorrect == UpdateSpec => []UpdateTypeOK
  BY UpdateInvariance, PTL DEF UpdateInv

\* A running service is the one installed, on a database that no newer release has
\* migrated and with that database's own WAL, whichever steps of whichever updates fail,
\* unless a rollback itself failed or was interrupted (performUpdate).
THEOREM DatabaseFits == UpdateSpec => []ServedDatabaseFits
<1>1. UpdateInv => ServedDatabaseFits
  BY DEF UpdateInv, Served, Fitting, Sound, ServedDatabaseFits, Fits
<1> QED
  BY <1>1, UpdateInvariance, PTL

\* A rollback that does not fail leaves the files as the update found them, but for a
\* sudoers file or a unit that was not there before, which stays installed
\* (restoreDatabaseBackup, restoreAuxFile and the deferred function of performUpdate).
THEOREM RollbacksAreExact == UpdateSpec => []RollbackIsExact
<1>1. UpdateInv => RollbackIsExact
  BY DEF UpdateInv, Exact, Restored, RollbackIsExact
<1> QED
  BY <1>1, UpdateInvariance, PTL
=============================================================================
