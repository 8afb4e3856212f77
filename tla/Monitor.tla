------------------------------- MODULE Monitor -------------------------------
(***************************************************************************)
(* The monitor (monitor.Monitor) and the alert states it drives.  One      *)
(* goroutine checks the containers, then the systemd units, then the       *)
(* resources: it lists what there is, compares each object with what it    *)
(* remembers and enqueues alerts and recoveries.  Its memory is lost when  *)
(* the panel stops; the alert states are in the database.                  *)
(*                                                                         *)
(* What a list says is chosen when it is taken: the server may be in any   *)
(* state, objects come and go, the settings ignore or watch them.  A value *)
(* is kept as what its threshold tells apart.  An Enqueue fails if a       *)
(* statement does or while its rule is disabled; either leaves the states. *)
(* Instant events have no state and are left out.                          *)
(***************************************************************************)
EXTENDS Integers, FiniteSets

CONSTANTS Container,     \* Docker containers
          Unit,          \* systemd units
          Disk,          \* mount points
          Host,          \* CPU, memory and swap: resources without a subject
          MaxRestarts,   \* bound: stops of the panel
          MaxFaults      \* bound: events that are not enqueued, seeds that fail

Resource == Disk \cup Host
Object == Container \cup Unit \cup Resource

ASSUME MonitorAssumption ==
    /\ MaxRestarts \in Nat /\ MaxFaults \in Nat
    /\ Container \cap Unit = {} /\ Disk \cap Host = {}
    /\ (Container \cup Unit) \cap Resource = {}

VARIABLES
    at,           \* what is checked now
    todo,         \* the listed objects it has not looked at
    view,         \* what the list at hand says of each object
    containers,   \* the state of each container at the previous check
    alerted,      \* the alerts that are outstanding, as the monitor remembers
    over,         \* consecutive checks above a resource threshold
    active,       \* the alerts whose state is active in the database
    quiet,        \* those in their cooldown
    lost,         \* auxiliary: active alerts whose recovery cannot be sent
    restarts, faults

memory == <<containers, alerted, over>>
states == <<active, quiet, lost>>
vars == <<at, todo, view, memory, states, restarts, faults>>

Parts == {"docker", "services", "resources"}
Objects(part) ==
    CASE part = "docker" -> Container [] part = "services" -> Unit [] OTHER -> Resource

\* `flag`: a running container is unhealthy, a unit is watched.
Absent == [state |-> "absent", flag |-> FALSE]
\* "paused" stands for every other state, "exited" for "dead" too.
BoxStates == {"running", "restarting", "paused", "exited"}
UnitStates == {"active", "inactive", "failed"}
\* At the limit or above, less than 5 points below it, lower.
Levels == {"high", "near", "low"}
Seen(part) ==
    CASE part = "docker" -> [state : BoxStates, flag : {FALSE}]
                                \cup [state : {"running"}, flag : {TRUE}]
      [] part = "services" -> [state : UnitStates, flag : BOOLEAN]
      [] OTHER -> [state : Levels, flag : {FALSE}]

\* An alert is an event key and an object.
Alert == ({"stopped", "unhealthy"} \X Container)
    \cup ({"failed", "inactive"} \X Unit)
    \cup ({"high"} \X Resource)

NoView == [o \in Object |-> Absent]
NoContainers == [c \in Container |-> "absent"]
NoCounts == [r \in Resource |-> 0]

Init ==
    /\ at = "down"
    /\ todo = {}
    /\ view = NoView
    /\ containers = NoContainers
    /\ alerted = {}
    /\ over = NoCounts
    /\ active = {} /\ quiet = {} /\ lost = {}
    /\ restarts = 0 /\ faults = 0

-----------------------------------------------------------------------------
(* notifications.Service.Enqueue, as far as the alert states go.           *)

\* Mutant: the cooldown is not looked at.
OpensAlways(raised) == raised

\* The raised alerts that become active: not those in their cooldown.
Opens(raised) == raised \ quiet

\* Alerts are raised and recoveries sent, but for those in `failed`.
Enqueue(raised, recoveries) ==
    \E failed \in SUBSET (raised \cup recoveries) :
        LET resolved == (active \cap recoveries) \ failed
        IN  /\ faults + Cardinality(failed) <= MaxFaults
            /\ faults' = faults + Cardinality(failed)
            /\ active' = (active \cup (Opens(raised) \ failed)) \ resolved
            /\ quiet' = quiet \cup resolved
            /\ lost' = (lost \ raised) \cup (active \cap recoveries \cap failed)

\* raise and resolve: a recovery is sent if its alert is outstanding.
RaiseAndResolve(raised, fine) ==
    /\ alerted' = (alerted \cup raised) \ fine
    /\ Enqueue(raised, alerted \cap fine)

\* A cooldown passes, if there is any.
CooldownEnds(a) ==
    /\ a \in quiet
    /\ quiet' = quiet \ {a}
    /\ UNCHANGED <<at, todo, view, memory, active, lost, restarts, faults>>

-----------------------------------------------------------------------------
(* Check.                                                                  *)

Following(part) ==
    CASE part = "docker" -> "services" [] part = "services" -> "resources" [] OTHER -> "idle"

\* The next check begins: the interval is over, or settings were saved.
Begin ==
    /\ at = "idle"
    /\ at' = "docker"
    /\ UNCHANGED <<todo, view, memory, states, restarts, faults>>

\* What there is of a kind is listed.
List(part) ==
    /\ at = part
    /\ todo = {}
    /\ \E found \in [Objects(part) -> Seen(part) \cup {Absent}] :
          /\ view' = [o \in Object |-> IF o \in Objects(part) THEN found[o] ELSE Absent]
          /\ todo' = {o \in Objects(part) : found[o] # Absent}
          /\ at' = IF todo' = {} THEN Following(part) ELSE part
          /\ containers' = IF part = "docker" /\ todo' = {} THEN NoContainers ELSE containers
    /\ UNCHANGED <<alerted, over, states, restarts, faults>>

\* The settings leave the kind out, or the list cannot be had.
Skip(part) ==
    /\ at = part
    /\ todo = {}
    /\ at' = Following(part)
    /\ UNCHANGED <<todo, view, memory, states, restarts, faults>>

\* Object o has been looked at.
Done(o) ==
    /\ todo' = todo \ {o}
    /\ at' = IF todo' = {} THEN Following(at) ELSE at
    /\ view' = IF todo' = {} THEN NoView ELSE view
    /\ UNCHANGED restarts

\* checkDocker, for one container.
CheckContainer(c) ==
    /\ at = "docker" /\ c \in todo
    /\ LET state == view[c].state
           ill == view[c].flag
           stopped == state = "exited" /\ containers[c] \in {"running", "restarting"}
       IN  RaiseAndResolve(
               (IF stopped THEN {<<"stopped", c>>} ELSE {})
                   \cup (IF state = "running" /\ ill THEN {<<"unhealthy", c>>} ELSE {}),
               (IF state = "running" THEN {<<"stopped", c>>} ELSE {})
                   \cup (IF state = "running" /\ ~ill THEN {<<"unhealthy", c>>} ELSE {}))
    /\ Done(c)
    /\ containers' = IF todo' = {} THEN [d \in Container |-> view[d].state] ELSE containers
    /\ UNCHANGED over

\* checkServices, for one unit.
CheckUnit(u) ==
    /\ at = "services" /\ u \in todo
    /\ LET state == view[u].state
           watched == view[u].flag
       IN  RaiseAndResolve(
               (IF state = "failed" THEN {<<"failed", u>>} ELSE {})
                   \cup (IF state = "inactive" /\ watched THEN {<<"inactive", u>>} ELSE {}),
               (IF state # "failed" THEN {<<"failed", u>>} ELSE {})
                   \cup (IF state = "active" /\ watched THEN {<<"inactive", u>>} ELSE {}))
    /\ Done(u)
    /\ UNCHANGED <<containers, over>>

\* Mutant: a check well below the limit takes one check above it back.
CountedDown(count, level) ==
    CASE level = "high" -> (IF count = 0 THEN 1 ELSE 2)
      [] level = "low" /\ count > 0 -> count - 1
      [] OTHER -> count

\* How many checks were above the limit; from 2 on it makes no difference.
Counted(count, level) ==
    CASE level = "high" -> (IF count = 0 THEN 1 ELSE 2)
      [] level = "low" -> 0
      [] OTHER -> count

\* threshold, for one resource.
CheckResource(r) ==
    /\ at = "resources" /\ r \in todo
    /\ LET count == Counted(over[r], view[r].state)
           high == {<<"high", r>>}
       IN  /\ over' = [over EXCEPT ![r] = count]
           /\ RaiseAndResolve(IF count >= 2 THEN high ELSE {}, IF count = 0 THEN high ELSE {})
    /\ Done(r)
    /\ UNCHANGED containers

-----------------------------------------------------------------------------
(* The panel stops and starts.                                             *)

Stop ==
    /\ at # "down"
    /\ restarts < MaxRestarts
    /\ restarts' = restarts + 1
    /\ at' = "down"
    /\ todo' = {}
    /\ view' = NoView
    /\ containers' = NoContainers /\ alerted' = {} /\ over' = NoCounts
    /\ UNCHANGED <<states, faults>>

\* Mutant: nothing is restored.
RestoredNothing == {}

\* What the table of subject states remembers; resources of the host have none.
Restored == {a \in active : a[2] \notin Host}

\* seed, whose query may fail.
Seed ==
    /\ at = "down"
    /\ at' = "docker"
    /\ \/ /\ alerted' = Restored
          /\ lost' = active \cap ({"high"} \X Host)
          /\ UNCHANGED faults
       \/ /\ faults < MaxFaults
          /\ faults' = faults + 1
          /\ lost' = active
          /\ UNCHANGED alerted
    /\ UNCHANGED <<todo, view, containers, over, active, quiet, restarts>>

-----------------------------------------------------------------------------
Check ==
    \/ Begin
    \/ \E part \in Parts : List(part) \/ Skip(part)
    \/ \E c \in Container : CheckContainer(c)
    \/ \E u \in Unit : CheckUnit(u)
    \/ \E r \in Resource : CheckResource(r)

Next ==
    \/ Seed \/ Check \/ Stop
    \/ \E a \in Alert : CooldownEnds(a)

Spec == Init /\ [][Next]_vars

-----------------------------------------------------------------------------
(* Properties.                                                             *)

\* Type invariant; an alert in its cooldown is not active, and what is still to be
\* looked at was listed.
TypeOK ==
    /\ at \in Parts \cup {"down", "idle"}
    /\ DOMAIN view = Object
    /\ \A o \in Object :
          view[o] = Absent \/ (at \in Parts /\ o \in Objects(at) /\ view[o] \in Seen(at))
    /\ \A o \in todo : at \in Parts /\ o \in Objects(at) /\ view[o] # Absent
    /\ todo = {} => view = NoView
    /\ containers \in [Container -> BoxStates \cup {"absent"}]
    /\ alerted \subseteq Alert
    /\ over \in [Resource -> 0..2]
    /\ active \subseteq Alert /\ quiet \subseteq Alert /\ lost \subseteq active
    /\ active \cap quiet = {}
    /\ restarts \in 0..MaxRestarts /\ faults \in 0..MaxFaults

\* While the monitor runs it remembers every alert that is active in the database,
\* also after restarts, so that it can send its recovery.  `lost` are a recovery
\* that was not enqueued (resolve forgets the alert first), a failed seed, and the
\* host's resources after a restart: seed reads the subjects' states only.
OpenAlertsKnown == at # "down" => active \ lost \subseteq alerted

\* What the list says of the object an alert is about.
Fine(a) ==
    LET o == view[a[2]]
    IN  \/ a[1] = "stopped" /\ o.state = "running"
        \/ a[1] = "unhealthy" /\ o.state = "running" /\ ~o.flag
        \/ a[1] = "failed" /\ o.state \in {"active", "inactive"}
        \/ a[1] = "inactive" /\ o.state = "active" /\ o.flag
        \/ a[1] = "high" /\ o.state = "low"

\* A step that looks at the object.
LookedAt(a) == at' # "down" /\ a[2] \in todo \ todo'

\* A check that sees an object well leaves no alert about it active, across restarts
\* of the panel, but for those that are lost (resolve, threshold, seed).
WellIsResolved ==
    [][\A a \in Alert : LookedAt(a) /\ Fine(a) => a \notin active' \ lost']_vars

\* "seed restores which subjects are still alerting so recoveries are sent after a panel
\* restart" (monitor.go:139): a check that sees an object well leaves no alert about it
\* active, whichever run of the panel raised it.
RecoveredAfterRestart ==
    [][\A a \in Alert : LookedAt(a) /\ Fine(a) => a \notin active']_vars
=============================================================================
