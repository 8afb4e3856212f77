---------------------------- MODULE MonitorProofs ----------------------------
(***************************************************************************)
(* Machine-checked proofs about Monitor, for any containers, units and     *)
(* resources and every bound: type correctness, that the monitor knows the *)
(* active alerts, and that a check which sees an object well resolves its  *)
(* alerts.  The inductive invariant adds that a lost alert is not          *)
(* outstanding: a recovery is therefore only sent for one that is not lost.*)
(***************************************************************************)
EXTENDS Monitor, FiniteSetTheorems, TLAPS

LostApart ==
    /\ lost \cap alerted = {}
    /\ at = "down" => alerted = {}

\* The inductive invariant.
IInv == TypeOK /\ LostApart /\ OpenAlertsKnown

-----------------------------------------------------------------------------
(* raise and resolve.                                                      *)

\* What raising and resolving does to the alert states.
LEMMA AlertsOK ==
    ASSUME IInv, at # "down", NEW raised \in SUBSET Alert, NEW fine \in SUBSET Alert,
           raised \cap fine = {}, IsFiniteSet(raised), IsFiniteSet(fine),
           RaiseAndResolve(raised, fine)
    PROVE  /\ alerted' \subseteq Alert /\ active' \subseteq Alert /\ quiet' \subseteq Alert
           /\ lost' \subseteq active' /\ active' \cap quiet' = {}
           /\ faults' \in 0..MaxFaults
           /\ lost' \cap alerted' = {}
           /\ active' \ lost' \subseteq alerted'
           /\ \A a \in fine : a \notin active' \ lost'
<1> DEFINE recoveries == alerted \cap fine
<1>1. PICK failed \in SUBSET (raised \cup recoveries) :
        LET resolved == (active \cap recoveries) \ failed
        IN  /\ faults + Cardinality(failed) <= MaxFaults
            /\ faults' = faults + Cardinality(failed)
            /\ active' = (active \cup (Opens(raised) \ failed)) \ resolved
            /\ quiet' = quiet \cup resolved
            /\ lost' = (lost \ raised) \cup (active \cap recoveries \cap failed)
  BY DEF RaiseAndResolve, Enqueue
<1>2. alerted' = (alerted \cup raised) \ fine
  BY DEF RaiseAndResolve
<1>3. /\ alerted \subseteq Alert /\ active \subseteq Alert /\ quiet \subseteq Alert
      /\ lost \subseteq active /\ active \cap quiet = {} /\ lost \cap alerted = {}
      /\ active \ lost \subseteq alerted
  BY DEF IInv, TypeOK, LostApart, OpenAlertsKnown
<1>4. faults' \in 0..MaxFaults
  <2>1. IsFiniteSet(recoveries)
    BY FS_Intersection
  <2>2. IsFiniteSet(raised \cup recoveries)
    BY <2>1, FS_Union
  <2>3. Cardinality(failed) \in Nat
    BY <2>2, FS_Subset, FS_CardinalityType
  <2>4. faults \in Nat /\ MaxFaults \in Nat
    BY MonitorAssumption DEF IInv, TypeOK
  <2> QED BY <1>1, <2>3, <2>4
<1> HIDE DEF recoveries
<1>5. /\ active' = (active \cup ((raised \ quiet) \ failed)) \ ((active \cap recoveries) \ failed)
      /\ quiet' = quiet \cup ((active \cap recoveries) \ failed)
      /\ lost' = (lost \ raised) \cup (active \cap recoveries \cap failed)
  BY <1>1 DEF Opens
<1>6. recoveries = alerted \cap fine
  BY DEF recoveries
<1> QED BY <1>2, <1>3, <1>4, <1>5, <1>6

-----------------------------------------------------------------------------
(* Type correctness and the invariant.                                     *)

ViewOK(a, t, v) ==
    /\ DOMAIN v = Object
    /\ \A o \in Object : v[o] = Absent \/ (a \in Parts /\ o \in Objects(a) /\ v[o] \in Seen(a))
    /\ \A o \in t : a \in Parts /\ o \in Objects(a) /\ v[o] # Absent
    /\ t = {} => v = NoView

LEMMA ObjectsOK ==
    /\ \A part \in Parts : Objects(part) \subseteq Object
    /\ \A part \in Parts : Following(part) \in Parts \cup {"idle"}
    /\ Container = Objects("docker") /\ Unit = Objects("services") /\ Resource = Objects("resources")
  BY DEF Parts, Objects, Object, Following

LEMMA NoViewOK == \A a : ViewOK(a, {}, NoView)
  BY DEF ViewOK, NoView

LEMMA DoneOK ==
    ASSUME IInv, at \in Parts, NEW o, Done(o)
    PROVE  /\ at' \in Parts \cup {"idle"} /\ ViewOK(at', todo', view')
           /\ restarts' \in 0..MaxRestarts
<1>1. ViewOK(at, todo, view) /\ restarts \in 0..MaxRestarts
  BY DEF IInv, TypeOK, ViewOK
<1>2. CASE todo' = {}
  BY <1>1, <1>2, NoViewOK, ObjectsOK DEF Done
<1>3. CASE todo' # {}
  BY <1>1, <1>3 DEF Done, ViewOK
<1> QED BY <1>2, <1>3

\* The state of a container in the list.
LEMMA BoxSeen ==
    ASSUME IInv, at = "docker", NEW c \in Container
    PROVE  view[c].state \in BoxStates \cup {"absent"}
<1>1. view[c] = Absent \/ view[c] \in Seen("docker")
  BY DEF IInv, TypeOK, Object
<1>2. Absent.state = "absent" /\ \A x \in Seen("docker") : x.state \in BoxStates
  BY DEF Absent, Seen, BoxStates
<1> QED BY <1>1, <1>2

\* What is left to show of a step that looks at an object.
LEMMA LookOK ==
    ASSUME IInv, at \in Parts, NEW raised \in SUBSET Alert, NEW fine \in SUBSET Alert,
           raised \cap fine = {}, IsFiniteSet(raised), IsFiniteSet(fine),
           RaiseAndResolve(raised, fine), NEW o, Done(o),
           containers' \in [Container -> BoxStates \cup {"absent"}], over' \in [Resource -> 0..2]
    PROVE  IInv' /\ \A a \in fine : a \notin active' \ lost'
<1>1. at # "down"
  BY DEF Parts
<1>2. /\ alerted' \subseteq Alert /\ active' \subseteq Alert /\ quiet' \subseteq Alert
      /\ lost' \subseteq active' /\ active' \cap quiet' = {}
      /\ faults' \in 0..MaxFaults
      /\ lost' \cap alerted' = {}
      /\ active' \ lost' \subseteq alerted'
      /\ \A a \in fine : a \notin active' \ lost'
  BY <1>1, AlertsOK
<1>3. at' \in Parts \cup {"idle"} /\ ViewOK(at', todo', view') /\ restarts' \in 0..MaxRestarts
  BY DoneOK
<1>4. TypeOK'
  BY <1>2, <1>3 DEF TypeOK, ViewOK
<1>5. at' # "down"
  BY <1>3 DEF Parts
<1> QED BY <1>2, <1>4, <1>5 DEF IInv, LostApart, OpenAlertsKnown

\* A set of at most two things.
LEMMA PairFinite == ASSUME NEW a, NEW b, NEW S \in SUBSET {a, b} PROVE IsFiniteSet(S)
<1>1. IsFiniteSet({a}) /\ IsFiniteSet({b})
  BY FS_Singleton
<1>2. IsFiniteSet({a} \cup {b}) /\ {a, b} = {a} \cup {b}
  BY <1>1, FS_Union
<1> QED BY <1>2, FS_Subset

\* What the actions that look at an object do: the invariant is kept, and the alerts
\* about the object, if it is seen well, are resolved.
LEMMA ContainerOK ==
    ASSUME IInv, NEW c \in Container, CheckContainer(c)
    PROVE  IInv' /\ \A a \in Alert : a[2] = c /\ Fine(a) => a \notin active' \ lost'
<1> DEFINE state == view[c].state
           ill == view[c].flag
           stopped == state = "exited" /\ containers[c] \in {"running", "restarting"}
           raised == (IF stopped THEN {<<"stopped", c>>} ELSE {})
                     \cup (IF state = "running" /\ ill THEN {<<"unhealthy", c>>} ELSE {})
           fine == (IF state = "running" THEN {<<"stopped", c>>} ELSE {})
                   \cup (IF state = "running" /\ ~ill THEN {<<"unhealthy", c>>} ELSE {})
<1>1. RaiseAndResolve(raised, fine) /\ Done(c) /\ at = "docker" /\ at \in Parts /\ UNCHANGED over
  BY DEF CheckContainer, Parts
<1>2. raised \in SUBSET Alert /\ fine \in SUBSET Alert /\ raised \cap fine = {}
  BY DEF Alert
<1>3. IsFiniteSet(raised) /\ IsFiniteSet(fine)
  <2>1. raised \in SUBSET {<<"stopped", c>>, <<"unhealthy", c>>}
        /\ fine \in SUBSET {<<"stopped", c>>, <<"unhealthy", c>>}
    OBVIOUS
  <2> QED BY <2>1, PairFinite
<1>4. containers' \in [Container -> BoxStates \cup {"absent"}] /\ over' \in [Resource -> 0..2]
  <2>1. containers' = IF todo' = {} THEN [d \in Container |-> view[d].state] ELSE containers
    BY DEF CheckContainer
  <2>2. \A d \in Container : view[d].state \in BoxStates \cup {"absent"}
    BY <1>1, BoxSeen
  <2>3. containers \in [Container -> BoxStates \cup {"absent"}] /\ over \in [Resource -> 0..2]
    BY DEF IInv, TypeOK
  <2> QED BY <1>1, <2>1, <2>2, <2>3
<1>5. ASSUME NEW a \in Alert, a[2] = c, Fine(a) PROVE a \in fine
  <2>1. c \notin Unit /\ c \notin Resource
    BY MonitorAssumption
  <2>2. a \in {"stopped", "unhealthy"} \X Container
    BY <1>5, <2>1 DEF Alert
  <2>3. a = <<a[1], c>> /\ a[1] \in {"stopped", "unhealthy"}
    BY <1>5, <2>2
  <2>4. state = "running" /\ (a[1] = "unhealthy" => ~ill)
    BY <1>5, <2>3 DEF Fine
  <2> QED BY <2>3, <2>4
<1> HIDE DEF raised, fine
<1>6. IInv' /\ \A a \in fine : a \notin active' \ lost'
  BY <1>1, <1>2, <1>3, <1>4, LookOK
<1> QED BY <1>5, <1>6

LEMMA UnitOK ==
    ASSUME IInv, NEW u \in Unit, CheckUnit(u)
    PROVE  IInv' /\ \A a \in Alert : a[2] = u /\ Fine(a) => a \notin active' \ lost'
<1> DEFINE state == view[u].state
           watched == view[u].flag
           raised == (IF state = "failed" THEN {<<"failed", u>>} ELSE {})
                     \cup (IF state = "inactive" /\ watched THEN {<<"inactive", u>>} ELSE {})
           fine == (IF state # "failed" THEN {<<"failed", u>>} ELSE {})
                   \cup (IF state = "active" /\ watched THEN {<<"inactive", u>>} ELSE {})
<1>1. RaiseAndResolve(raised, fine) /\ Done(u) /\ at \in Parts /\ UNCHANGED <<containers, over>>
  BY DEF CheckUnit, Parts
<1>2. raised \in SUBSET Alert /\ fine \in SUBSET Alert /\ raised \cap fine = {}
  BY DEF Alert
<1>3. IsFiniteSet(raised) /\ IsFiniteSet(fine)
  <2>1. raised \in SUBSET {<<"failed", u>>, <<"inactive", u>>}
        /\ fine \in SUBSET {<<"failed", u>>, <<"inactive", u>>}
    OBVIOUS
  <2> QED BY <2>1, PairFinite
<1>4. containers' \in [Container -> BoxStates \cup {"absent"}] /\ over' \in [Resource -> 0..2]
  BY <1>1 DEF IInv, TypeOK
<1>5. ASSUME NEW a \in Alert, a[2] = u, Fine(a) PROVE a \in fine
  <2>1. u \notin Container /\ u \notin Resource
    BY MonitorAssumption
  <2>2. a \in {"failed", "inactive"} \X Unit
    BY <1>5, <2>1 DEF Alert
  <2>3. a = <<a[1], u>> /\ a[1] \in {"failed", "inactive"}
    BY <1>5, <2>2
  <2>4. (a[1] = "failed" => state # "failed") /\ (a[1] = "inactive" => state = "active" /\ watched)
    BY <1>5, <2>3 DEF Fine
  <2> QED BY <2>3, <2>4
<1> HIDE DEF raised, fine
<1>6. IInv' /\ \A a \in fine : a \notin active' \ lost'
  BY <1>1, <1>2, <1>3, <1>4, LookOK
<1> QED BY <1>5, <1>6

LEMMA ResourceOK ==
    ASSUME IInv, NEW r \in Resource, CheckResource(r)
    PROVE  IInv' /\ \A a \in Alert : a[2] = r /\ Fine(a) => a \notin active' \ lost'
<1> DEFINE count == Counted(over[r], view[r].state)
           raised == IF count >= 2 THEN {<<"high", r>>} ELSE {}
           fine == IF count = 0 THEN {<<"high", r>>} ELSE {}
<1>1. /\ RaiseAndResolve(raised, fine) /\ Done(r) /\ at \in Parts /\ UNCHANGED containers
      /\ over' = [over EXCEPT ![r] = count]
  BY DEF CheckResource, Parts
<1>2. raised \in SUBSET Alert /\ fine \in SUBSET Alert /\ raised \cap fine = {}
  BY DEF Alert
<1>3. IsFiniteSet(raised) /\ IsFiniteSet(fine)
  BY FS_Singleton, FS_EmptySet
<1>4. containers' \in [Container -> BoxStates \cup {"absent"}] /\ over' \in [Resource -> 0..2]
  <2>1. over \in [Resource -> 0..2] /\ containers \in [Container -> BoxStates \cup {"absent"}]
    BY DEF IInv, TypeOK
  <2>2. count \in 0..2
    BY <2>1 DEF Counted
  <2> QED BY <1>1, <2>1, <2>2
<1>5. ASSUME NEW a \in Alert, a[2] = r, Fine(a) PROVE a \in fine
  <2>1. r \notin Container /\ r \notin Unit
    BY MonitorAssumption
  <2>2. a \in {"high"} \X Resource
    BY <1>5, <2>1 DEF Alert
  <2>3. a = <<"high", r>> /\ view[r].state = "low"
    BY <1>5, <2>2 DEF Fine
  <2>4. count = 0
    BY <2>3 DEF Counted
  <2> QED BY <2>3, <2>4
<1> HIDE DEF raised, fine, count
<1>6. IInv' /\ \A a \in fine : a \notin active' \ lost'
  BY <1>1, <1>2, <1>3, <1>4, LookOK
<1> QED BY <1>5, <1>6

LEMMA ListOK ==
    ASSUME IInv, NEW part \in Parts, List(part)
    PROVE  IInv'
<1>1. PICK found \in [Objects(part) -> Seen(part) \cup {Absent}] :
        /\ view' = [o \in Object |-> IF o \in Objects(part) THEN found[o] ELSE Absent]
        /\ todo' = {o \in Objects(part) : found[o] # Absent}
  BY DEF List
<1>2. /\ at = part /\ at' = (IF todo' = {} THEN Following(part) ELSE part)
      /\ containers' = IF part = "docker" /\ todo' = {} THEN NoContainers ELSE containers
      /\ UNCHANGED <<alerted, over, states, restarts, faults>>
  BY DEF List
<1>3. ViewOK(at', todo', view')
  <2>1. CASE todo' = {}
    <3>1. \A o \in Objects(part) : found[o] = Absent
      BY <1>1, <2>1
    <3>2. view' = NoView
      BY <1>1, <3>1 DEF NoView
    <3> QED BY <2>1, <3>2, NoViewOK
  <2>2. CASE todo' # {}
    <3>1. \A o \in Objects(part) : o \in Object
      BY ObjectsOK
    <3>2. at' = part
      BY <1>2, <2>2
    <3>3. DOMAIN view' = Object
          /\ \A o \in Object : view'[o] = (IF o \in Objects(part) THEN found[o] ELSE Absent)
      BY <1>1
    <3>4. \A o \in Objects(part) : found[o] \in Seen(part) \cup {Absent}
      OBVIOUS
    <3> QED BY <1>1, <2>2, <3>1, <3>2, <3>3, <3>4 DEF ViewOK
  <2> QED BY <2>1, <2>2
<1>4. at' \in Parts \cup {"idle"}
  BY <1>2, ObjectsOK
<1>5. containers' \in [Container -> BoxStates \cup {"absent"}]
  BY <1>2 DEF IInv, TypeOK, NoContainers
<1>6. TypeOK'
  BY <1>2, <1>3, <1>4, <1>5 DEF IInv, TypeOK, ViewOK, states
<1>7. at # "down" /\ at' # "down"
  BY <1>2, <1>4 DEF Parts
<1> QED BY <1>2, <1>6, <1>7 DEF IInv, LostApart, OpenAlertsKnown, states

LEMMA BetweenOK ==
    ASSUME IInv, Begin \/ (\E part \in Parts : Skip(part)) \/ (\E a \in Alert : CooldownEnds(a))
    PROVE  IInv'
<1>1. ViewOK(at, todo, view)
  BY DEF IInv, TypeOK, ViewOK
<1>2. CASE Begin \/ \E part \in Parts : Skip(part)
  <2>1. todo = {} /\ UNCHANGED <<todo, view>>
    BY <1>1, <1>2 DEF Begin, Skip, ViewOK, Parts
  <2>2. at # "down" /\ at' \in Parts \cup {"idle"}
    BY <1>2, ObjectsOK DEF Begin, Skip, Parts
  <2>3. view = NoView
    BY <1>1, <2>1 DEF ViewOK
  <2>4. ViewOK(at', todo', view')
    BY <2>1, <2>3, NoViewOK
  <2>5. UNCHANGED <<memory, states, restarts, faults>>
    BY <1>2 DEF Begin, Skip
  <2>6. TypeOK'
    BY <2>2, <2>4, <2>5 DEF IInv, TypeOK, ViewOK, memory, states
  <2>7. at' # "down"
    BY <2>2 DEF Parts
  <2> QED BY <2>2, <2>5, <2>6, <2>7 DEF IInv, LostApart, OpenAlertsKnown, memory, states
<1>3. CASE \E a \in Alert : CooldownEnds(a)
  <2>1. quiet' \subseteq quiet /\ UNCHANGED <<at, todo, view, memory, active, lost, restarts, faults>>
    BY <1>3 DEF CooldownEnds
  <2>2. TypeOK'
    BY <2>1 DEF IInv, TypeOK, memory
  <2> QED BY <2>1, <2>2 DEF IInv, LostApart, OpenAlertsKnown, memory
<1> QED BY <1>2, <1>3

\* The panel stops, and starts anew.
LEMMA RestartOK ==
    ASSUME IInv, Stop \/ Seed
    PROVE  IInv'
<1>1. MaxRestarts \in Nat /\ MaxFaults \in Nat
  BY MonitorAssumption
<1>2. CASE Stop
  <2>1. /\ at' = "down" /\ todo' = {} /\ view' = NoView /\ containers' = NoContainers
        /\ alerted' = {} /\ over' = NoCounts /\ restarts' = restarts + 1 /\ restarts < MaxRestarts
        /\ UNCHANGED <<states, faults>>
    BY <1>2 DEF Stop
  <2>2. ViewOK(at', todo', view')
    BY <2>1, NoViewOK
  <2>3. containers' \in [Container -> BoxStates \cup {"absent"}] /\ over' \in [Resource -> 0..2]
    BY <2>1 DEF NoContainers, NoCounts
  <2>4. TypeOK'
    BY <1>1, <2>1, <2>2, <2>3 DEF IInv, TypeOK, ViewOK, states
  <2> QED BY <2>1, <2>4 DEF IInv, LostApart, OpenAlertsKnown
<1>3. CASE Seed
  <2>1. /\ at = "down" /\ at' = "docker"
        /\ UNCHANGED <<todo, view, containers, over, active, quiet, restarts>>
    BY <1>3 DEF Seed
  <2>2. \/ /\ alerted' = Restored /\ lost' = active \cap ({"high"} \X Host) /\ UNCHANGED faults
        \/ /\ lost' = active /\ UNCHANGED alerted /\ faults < MaxFaults /\ faults' = faults + 1
    BY <1>3 DEF Seed
  <2>3. ViewOK(at, todo, view) /\ at \notin Parts /\ at' \in Parts
    BY <2>1 DEF IInv, TypeOK, ViewOK, Parts
  <2>4. todo = {} /\ view = NoView
    BY <2>3 DEF ViewOK
  <2>5. ViewOK(at', todo', view')
    BY <2>1, <2>4, NoViewOK
  <2>6. /\ alerted' \subseteq Alert /\ lost' \subseteq active' /\ faults' \in 0..MaxFaults
        /\ lost' \cap alerted' = {} /\ active' \ lost' \subseteq alerted'
    <3>1. \A a \in Alert : a[2] \in Host => a \in {"high"} \X Host
      BY MonitorAssumption DEF Alert, Resource
    <3>2. active \subseteq Alert /\ alerted = {} /\ faults \in 0..MaxFaults
      BY <2>1 DEF IInv, TypeOK, LostApart
    <3>3. \A a \in {"high"} \X Host : a[2] \in Host
      OBVIOUS
    <3> QED BY <1>1, <2>1, <2>2, <3>1, <3>2, <3>3 DEF Restored
  <2>7. TypeOK'
    BY <2>1, <2>3, <2>5, <2>6 DEF IInv, TypeOK, ViewOK
  <2> QED BY <2>1, <2>6, <2>7 DEF IInv, LostApart, OpenAlertsKnown
<1> QED BY <1>2, <1>3

LEMMA InitOK == Init => IInv
<1> SUFFICES ASSUME Init PROVE IInv
  OBVIOUS
<1>1. ViewOK(at, todo, view)
  BY NoViewOK DEF Init
<1>2. containers \in [Container -> BoxStates \cup {"absent"}] /\ over \in [Resource -> 0..2]
  BY DEF Init, NoContainers, NoCounts
<1>3. TypeOK
  BY <1>1, <1>2, MonitorAssumption DEF Init, TypeOK, ViewOK
<1> QED BY <1>3 DEF Init, IInv, LostApart, OpenAlertsKnown

\* Every step keeps the invariant, and resolves what it sees well.
LEMMA StepOK ==
    ASSUME IInv, [Next]_vars
    PROVE  IInv' /\ \A a \in Alert : LookedAt(a) /\ Fine(a) => a \notin active' \ lost'
<1> DEFINE Resolves == \A a \in Alert : LookedAt(a) /\ Fine(a) => a \notin active' \ lost'
<1>1. ASSUME NEW o \in Object, CheckContainer(o) \/ CheckUnit(o) \/ CheckResource(o)
      PROVE  \A a \in Alert : LookedAt(a) => a[2] = o
  BY <1>1 DEF CheckContainer, CheckUnit, CheckResource, Done, LookedAt
<1>2. ASSUME NEW c \in Container, CheckContainer(c) PROVE IInv' /\ Resolves
  BY <1>1, <1>2, ContainerOK DEF Object
<1>3. ASSUME NEW u \in Unit, CheckUnit(u) PROVE IInv' /\ Resolves
  BY <1>1, <1>3, UnitOK DEF Object
<1>4. ASSUME NEW r \in Resource, CheckResource(r) PROVE IInv' /\ Resolves
  BY <1>1, <1>4, ResourceOK DEF Object
<1>5. ASSUME NEW part \in Parts, List(part) PROVE IInv' /\ Resolves
  BY <1>5, ListOK DEF List, LookedAt
<1>6. CASE Begin \/ (\E part \in Parts : Skip(part)) \/ (\E a \in Alert : CooldownEnds(a))
  <2>1. UNCHANGED todo
    BY <1>6 DEF Begin, Skip, CooldownEnds
  <2> QED BY <1>6, <2>1, BetweenOK DEF LookedAt
<1>7. CASE Stop \/ Seed
  <2>1. at' = "down" \/ UNCHANGED todo
    BY <1>7 DEF Stop, Seed
  <2> QED BY <1>7, <2>1, RestartOK DEF LookedAt
<1>8. CASE UNCHANGED vars
  <2>1. IInv'
    BY <1>8 DEF IInv, TypeOK, LostApart, OpenAlertsKnown, vars, memory, states
  <2> QED BY <1>8, <2>1 DEF vars, LookedAt
<1> QED BY <1>2, <1>3, <1>4, <1>5, <1>6, <1>7, <1>8 DEF Next, Check

-----------------------------------------------------------------------------
(* The theorems.                                                           *)

\* The invariant is inductive.
THEOREM Invariance == Spec => []IInv
  BY InitOK, StepOK, PTL DEF Spec

\* Type correctness; an alert in its cooldown is not active.
THEOREM TypeCorrect == Spec => []TypeOK
<1>1. IInv => TypeOK
  BY DEF IInv
<1> QED BY <1>1, Invariance, PTL

\* The monitor knows every active alert that is not lost, also after a restart.
THEOREM ActiveAlertsKnown == Spec => []OpenAlertsKnown
<1>1. IInv => OpenAlertsKnown
  BY DEF IInv
<1> QED BY <1>1, Invariance, PTL

\* Seeing an object well resolves its alerts.
THEOREM SeenWellIsResolved == Spec => WellIsResolved
<1>1. IInv /\ [Next]_vars =>
        [\A a \in Alert : LookedAt(a) /\ Fine(a) => a \notin active' \ lost']_vars
  BY StepOK
<1> QED BY <1>1, Invariance, PTL DEF Spec, WellIsResolved
=============================================================================
