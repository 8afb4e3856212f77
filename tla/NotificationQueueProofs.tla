----------------------- MODULE NotificationQueueProofs -----------------------
(***************************************************************************)
(* The notification queue keeps its types, implements the outbox, and      *)
(* keeps its history, its summaries and its alerts true, for any number    *)
(* of subjects, recipients, retries and events.                            *)
(***************************************************************************)
EXTENDS NotificationQueue, TLAPS

\* What the refinement proof carries along.
IInv == TypeOK /\ InFlight

USE SubjectsAssumption, RecipientsAssumption, BoundsAssumption
USE DEF EventIds, Jobs, Kinds, EventStatuses, DeliveryStatuses, WorkerSteps,
        alertVars, rowVars, workVars, outsideVars

Rows == [subject : Subjects \cup {NoSubject}, kind : Kinds,
         status : EventStatuses, resolved : BOOLEAN]

Dels == [status : DeliveryStatuses, attempts : 0..(MaxRetry + 1), due : BOOLEAN]

\* A new event is a row and its deliveries are fresh.
LEMMA CreateEventTypes ==
    ASSUME NEW rows \in [EventIds -> Rows], NEW dels \in [Jobs -> Dels],
           NEW s \in Subjects \cup {NoSubject},
           NEW kind \in {"alert", "repeat", "recovery", "instant"},
           NEW R \in SUBSET Recipients,
           count \in 0..MaxEvents,
           CreateEvent(rows, dels, s, kind, R)
    PROVE  /\ count' \in 0..MaxEvents
           /\ count' = count + 1
           /\ count + 1 \in EventIds
           /\ event' \in [EventIds -> Rows]
           /\ delivery' \in [Jobs -> Dels]
<1>1. count' \in 0..MaxEvents /\ count' = count + 1 /\ count + 1 \in EventIds
  BY DEF CreateEvent
<1>2. event' \in [EventIds -> Rows]
  BY <1>1 DEF CreateEvent, Rows
<1>3. delivery' \in [Jobs -> Dels]
  BY <1>1 DEF CreateEvent, CreateDeliveries, Dels
<1>4. QED BY <1>1, <1>2, <1>3

\* Closing events keeps rows rows and deliveries deliveries.
LEMMA ClosingTypes ==
    ASSUME TypeOK, NEW E
    PROVE  Resolved(E) \in [EventIds -> Rows] /\ Cancelled(E) \in [Jobs -> Dels]
<1>1. event \in [EventIds -> Rows] /\ delivery \in [Jobs -> Dels]
  BY DEF TypeOK, Rows, Dels
<1>2. ASSUME NEW r \in Rows
      PROVE  [r EXCEPT !.status = "resolved", !.resolved = TRUE] \in Rows
  BY DEF Rows
<1>3. ASSUME NEW d \in Dels PROVE [d EXCEPT !.status = "cancelled"] \in Dels
  BY DEF Dels
<1> HIDE DEF EventIds, Jobs, EventStatuses, DeliveryStatuses, Kinds
<1>4. Resolved(E) \in [EventIds -> Rows]
  <2>1. ASSUME NEW e \in EventIds
        PROVE  (IF e \in E THEN [event[e] EXCEPT !.status = "resolved", !.resolved = TRUE]
                           ELSE event[e]) \in Rows
    <3>1. event[e] \in Rows BY <1>1
    <3>2. QED BY <3>1, <1>2
  <2>2. QED BY <2>1 DEF Resolved
<1>5. Cancelled(E) \in [Jobs -> Dels]
  <2>1. ASSUME NEW j \in Jobs
        PROVE  (IF j[1] \in E /\ delivery[j].status = "pending"
                THEN [delivery[j] EXCEPT !.status = "cancelled"]
                ELSE delivery[j]) \in Dels
    <3>1. delivery[j] \in Dels BY <1>1
    <3>2. QED BY <3>1, <1>3
  <2>2. QED BY <2>1 DEF Cancelled
<1>6. QED BY <1>4, <1>5

\* The initial state satisfies the inductive invariant.
LEMMA InitIInv == Init => IInv
<1> SUFFICES ASSUME Init PROVE IInv OBVIOUS
<1>1. TypeOK BY DEF Init, TypeOK, NoEvent, NoDelivery, NoJob
<1>2. InFlight BY DEF Init, InFlight, NoDelivery
<1>3. QED BY <1>1, <1>2 DEF IInv

\* Enqueue, in all its outcomes, keeps the types.
LEMMA EnqueueTypes ==
    ASSUME TypeOK, NEW s \in Subjects, NEW R \in SUBSET Recipients, Enqueue(s, R)
    PROVE  TypeOK'
<1> USE DEF MarkActive
<1>0. event \in [EventIds -> Rows] /\ delivery \in [Jobs -> Dels]
  BY DEF TypeOK, Rows, Dels
<1>1. ASSUME RaiseFirst(s, R) PROVE TypeOK'
  <2>1. CreateEvent(event, delivery, s, "alert", R) BY <1>1 DEF RaiseFirst
  <2>2. /\ count' \in 0..MaxEvents /\ count + 1 \in EventIds
        /\ event' \in [EventIds -> Rows] /\ delivery' \in [Jobs -> Dels]
    BY <1>0, <2>1, CreateEventTypes DEF TypeOK
  <2>3. QED BY <1>1, <2>2 DEF RaiseFirst, TypeOK, Rows, Dels
<1>2. ASSUME RaiseAgain(s) PROVE TypeOK'
  BY <1>2 DEF RaiseAgain, TypeOK, FirstAlerts
<1>3. ASSUME Repeat(s, R) PROVE TypeOK'
  <2>1. CreateEvent(event, delivery, s, "repeat", R) BY <1>3 DEF Repeat
  <2>2. /\ count' \in 0..MaxEvents /\ count + 1 \in EventIds
        /\ event' \in [EventIds -> Rows] /\ delivery' \in [Jobs -> Dels]
    BY <1>0, <2>1, CreateEventTypes DEF TypeOK
  <2>3. QED BY <1>3, <2>2 DEF Repeat, TypeOK, Rows, Dels
<1>4. ASSUME NEW send \in BOOLEAN, Recover(s, R, send) PROVE TypeOK'
  <2> DEFINE E == ClosedBy(s)
  <2>1. Resolved(E) \in [EventIds -> Rows] /\ Cancelled(E) \in [Jobs -> Dels]
    BY ClosingTypes
  <2>0. silent' \subseteq Subjects
    BY <1>4 DEF Recover, Reached, TypeOK
  <2> HIDE DEF E
  <2>2. CASE /\ CreateEvent(Resolved(E), Cancelled(E), s, "recovery", R)
             /\ last' = [last EXCEPT ![s] = count + 1]
    <3>1. /\ count' \in 0..MaxEvents /\ count + 1 \in EventIds
          /\ event' \in [EventIds -> Rows] /\ delivery' \in [Jobs -> Dels]
      BY <2>1, <2>2, CreateEventTypes DEF TypeOK
    <3>2. QED BY <1>4, <2>0, <2>2, <3>1 DEF Recover, TypeOK, Rows, Dels
  <2>3. CASE event' = Resolved(E) /\ delivery' = Cancelled(E) /\ UNCHANGED <<last, count>>
    BY <1>4, <2>0, <2>1, <2>3 DEF Recover, TypeOK, Rows, Dels
  <2>4. QED BY <1>4, <2>2, <2>3 DEF Recover, E
<1>5. QED BY <1>1, <1>2, <1>3, <1>4 DEF Enqueue

\* A row written by the worker.
LEMMA SetDeliveryTypes ==
    ASSUME TypeOK, NEW j \in Jobs, NEW d \in Dels, SetDelivery(j, d)
    PROVE  /\ delivery' \in [Jobs -> Dels]
           /\ delivery'[j] = d
           /\ \A i \in Jobs : i # j => delivery'[i] = delivery[i]
<1>1. delivery \in [Jobs -> Dels] BY DEF TypeOK, Dels
<1>2. QED BY <1>1 DEF SetDelivery

\* So does every other step.
LEMMA StepTypes == IInv /\ [Next]_vars => TypeOK'
<1> SUFFICES ASSUME TypeOK, InFlight, [Next]_vars PROVE TypeOK' BY DEF IInv
<1>0. \A j \in Jobs : delivery[j] \in Dels BY DEF TypeOK, Dels
<1>1. ASSUME NEW s \in Subjects, NEW R \in SUBSET Recipients, Enqueue(s, R) PROVE TypeOK'
  BY <1>1, EnqueueTypes
<1>2. ASSUME NEW R \in SUBSET Recipients, Instant(R) PROVE TypeOK'
  <2>1. CreateEvent(event, delivery, NoSubject, "instant", R) BY <1>2 DEF Instant
  <2>2. event \in [EventIds -> Rows] /\ delivery \in [Jobs -> Dels]
    BY DEF TypeOK, Rows, Dels
  <2>3. /\ count' \in 0..MaxEvents
        /\ event' \in [EventIds -> Rows] /\ delivery' \in [Jobs -> Dels]
    BY <2>1, <2>2, CreateEventTypes DEF TypeOK
  <2>4. QED BY <1>2, <2>3 DEF Instant, TypeOK, Rows, Dels
<1>3. ASSUME NEW s \in Subjects, Elapse(s) PROVE TypeOK'
  BY <1>3 DEF Elapse, TypeOK
<1>4. CASE Start
  <2>1. delivery' = [j \in Jobs |-> RecoverRow(delivery[j])] BY <1>4 DEF Start
  <2>2. ASSUME NEW d \in Dels PROVE RecoverRow(d) \in Dels BY DEF RecoverRow, Dels
  <2>3. \A j \in Jobs : RecoverRow(delivery[j]) \in Dels BY <1>0, <2>2
  <2>4. delivery' \in [Jobs -> Dels]
    <3> HIDE DEF Jobs
    <3> QED BY <2>1, <2>3
  <2>5. QED BY <1>4, <2>4 DEF Start, TypeOK, Dels
<1>5. CASE StartUnrecovered BY <1>5 DEF StartUnrecovered, TypeOK
<1>6. CASE Select BY <1>6 DEF Select, TypeOK
<1>7. CASE Claim
  <2>1. CASE UNCHANGED delivery BY <1>7, <2>1 DEF Claim, Leave, TypeOK
  <2>2. CASE /\ delivery[job].status = "pending"
             /\ SetDelivery(job, [delivery[job] EXCEPT !.status = "sending"])
             /\ worker' = "send"
             /\ UNCHANGED job
    <3>1. CASE job \in Jobs
      <4>1. [delivery[job] EXCEPT !.status = "sending"] \in Dels BY <1>0, <3>1 DEF Dels
      <4>2. delivery' \in [Jobs -> Dels] BY <2>2, <3>1, <4>1, SetDeliveryTypes
      <4>3. QED BY <1>7, <2>2, <4>2 DEF Claim, TypeOK, Dels
    <3>2. CASE job \notin Jobs
      <4>1. delivery' = delivery BY <2>2, <3>2 DEF SetDelivery, TypeOK
      <4>2. QED BY <1>7, <2>2, <4>1 DEF Claim, TypeOK
    <3>3. QED BY <3>1, <3>2
  <2>3. QED BY <1>7, <2>1, <2>2 DEF Claim
<1>8. CASE SendOK
  <2>1. job \in Jobs BY <1>8 DEF SendOK, InFlight
  <2>2. accepted' \in [Jobs -> Nat] BY <1>8, <2>1 DEF SendOK, TypeOK
  <2>3. QED BY <1>8, <2>2 DEF SendOK, TypeOK
<1>9. CASE SendFails
  <2>1. job \in Jobs BY <1>9 DEF SendFails, InFlight
  <2>2. accepted' \in [Jobs -> Nat] /\ doubts' \in 0..MaxDoubts
    BY <1>9, <2>1 DEF SendFails, TypeOK
  <2>3. QED BY <1>9, <2>2 DEF SendFails, TypeOK
<1>10. CASE RecordDelivered
  <2> DEFINE d == [status |-> "delivered", attempts |-> delivery[job].attempts + 1, due |-> FALSE]
  <2>1. job \in Jobs /\ delivery[job].attempts <= MaxRetry
    BY <1>10 DEF RecordDelivered, InFlight, Live
  <2>2. d \in Dels BY <1>0, <2>1 DEF Dels
  <2>3. SetDelivery(job, d) BY <1>10 DEF RecordDelivered
  <2> HIDE DEF d
  <2>4. delivery' \in [Jobs -> Dels] BY <2>1, <2>2, <2>3, SetDeliveryTypes
  <2>5. QED BY <1>10, <2>4 DEF RecordDelivered, TypeOK, Dels
<1>11. CASE RecordFailure
  <2>0. PICK retryCount \in RetryCounts :
            SetDelivery(job, [status |-> IF GivesUp(delivery[job].attempts + 1, retryCount)
                                         THEN "failed" ELSE "pending",
                              attempts |-> delivery[job].attempts + 1, due |-> FALSE])
    BY <1>11 DEF RecordFailure
  <2> DEFINE n == delivery[job].attempts + 1
             d == [status |-> IF GivesUp(n, retryCount) THEN "failed" ELSE "pending",
                   attempts |-> n, due |-> FALSE]
  <2>1. job \in Jobs /\ delivery[job].attempts <= MaxRetry
    BY <1>11 DEF RecordFailure, InFlight, Live
  <2>2. d \in Dels BY <1>0, <2>1 DEF Dels
  <2>3. SetDelivery(job, d) BY <2>0
  <2> HIDE DEF d
  <2>4. delivery' \in [Jobs -> Dels] BY <2>1, <2>2, <2>3, SetDeliveryTypes
  <2>5. QED BY <1>11, <2>4 DEF RecordFailure, TypeOK, Dels
<1>12. CASE UpdateStatus
  <2>1. Summary(job[1]) \in EventStatuses BY DEF Summary
  <2>2. event \in [EventIds -> Rows] BY DEF TypeOK, Rows
  <2> DEFINE k == job[1]
             x == IF event[k].status = "resolved" THEN event[k].status ELSE Summary(k)
  <2>5. event' = [event EXCEPT ![k].status = x] BY <1>12 DEF UpdateStatus
  <2>6. k \in EventIds => x \in EventStatuses BY <2>1, <2>2 DEF Rows
  <2> HIDE DEF k, x
  <2>3. event' \in [EventIds -> Rows]
    <3>1. CASE k \in EventIds BY <2>5, <2>6, <2>2, <3>1 DEF Rows
    <3>2. CASE k \notin EventIds BY <2>5, <2>2, <3>2
    <3>3. QED BY <3>1, <3>2
  <2>4. QED BY <1>12, <2>3 DEF UpdateStatus, Leave, TypeOK, Rows
<1>13. CASE DbFault BY <1>13 DEF DbFault, Leave, TypeOK
<1>14. CASE Stop BY <1>14 DEF Stop, Leave, TypeOK
<1>15. ASSUME NEW j \in Jobs, BackoffEnds(j) PROVE TypeOK'
  <2>1. delivery[j] \in Dels BY <1>0
  <2>2. [delivery[j] EXCEPT !.due = TRUE] \in Dels BY <2>1 DEF Dels
  <2>3. delivery' \in [Jobs -> Dels]
    BY <1>15, <2>2, SetDeliveryTypes DEF BackoffEnds
  <2>4. QED BY <1>15, <2>3 DEF BackoffEnds, TypeOK, Dels
<1>16. CASE UNCHANGED vars BY <1>16 DEF vars, TypeOK
<1>17. QED
  BY <1>1, <1>2, <1>3, <1>4, <1>5, <1>6, <1>7, <1>8, <1>9, <1>10, <1>11, <1>12,
     <1>13, <1>14, <1>15, <1>16 DEF Next, ProcessOnce

-----------------------------------------------------------------------------
(* What a step does to the statuses, which is all the outbox sees.         *)

\* Statuses a transaction of Enqueue may change: a new delivery appears, or a
\* pending one is cancelled; rows of existing events keep their status else.
Transacted ==
    /\ count' \in Nat
    /\ count' >= count
    /\ \A j \in Jobs :
        \/ delivery'[j] = delivery[j]
        \/ /\ j[1] = count + 1
           /\ count' = count + 1
           /\ delivery'[j] = [status |-> "pending", attempts |-> 0, due |-> TRUE]
        \/ /\ delivery[j].status = "pending"
           /\ delivery'[j].status = "cancelled"

\* createEvent on top of the rows that were there.
LEMMA CreateTransacts ==
    ASSUME TypeOK, NEW rows, NEW s, NEW kind, NEW R \in SUBSET Recipients,
           CreateEvent(rows, delivery, s, kind, R)
    PROVE  Transacted
  BY DEF TypeOK, CreateEvent, CreateDeliveries, Transacted

\* A recovery cancels what is pending and may add its own message.
LEMMA RecoverTransacts ==
    ASSUME TypeOK, NEW s \in Subjects, NEW R \in SUBSET Recipients, NEW send \in BOOLEAN,
           Recover(s, R, send)
    PROVE  Transacted
<1> DEFINE E == ClosedBy(s)
<1>1. \A j \in Jobs : \/ Cancelled(E)[j] = delivery[j]
                      \/ /\ delivery[j].status = "pending"
                         /\ Cancelled(E)[j].status = "cancelled"
  BY DEF TypeOK, Cancelled
<1> HIDE DEF E
<1>2. CASE CreateEvent(Resolved(E), Cancelled(E), s, "recovery", R)
  <2>1. count' = count + 1 /\ count \in Nat BY <1>2 DEF CreateEvent, TypeOK
  <2>2. \A j \in Jobs :
          \/ delivery'[j] = Cancelled(E)[j]
          \/ /\ j[1] = count + 1
             /\ delivery'[j] = [status |-> "pending", attempts |-> 0, due |-> TRUE]
    BY <1>2 DEF CreateEvent, CreateDeliveries
  <2>3. QED BY <1>1, <2>1, <2>2 DEF Transacted
<1>3. CASE delivery' = Cancelled(E) /\ count' = count
  BY <1>1, <1>3 DEF Transacted, TypeOK
<1>4. QED BY <1>2, <1>3 DEF Recover, E

\* Every outcome of Enqueue is such a transaction and leaves the worker alone.
LEMMA EnqueueTransacts ==
    ASSUME TypeOK, NEW s \in Subjects, NEW R \in SUBSET Recipients, Enqueue(s, R)
    PROVE  Transacted /\ UNCHANGED <<workVars, outsideVars>>
<1>1. ASSUME RaiseFirst(s, R) PROVE Transacted /\ UNCHANGED <<workVars, outsideVars>>
  BY <1>1, CreateTransacts DEF RaiseFirst
<1>2. ASSUME RaiseAgain(s) PROVE Transacted /\ UNCHANGED <<workVars, outsideVars>>
  BY <1>2 DEF RaiseAgain, Transacted, TypeOK
<1>3. ASSUME Repeat(s, R) PROVE Transacted /\ UNCHANGED <<workVars, outsideVars>>
  BY <1>3, CreateTransacts DEF Repeat
<1>4. ASSUME NEW send \in BOOLEAN, Recover(s, R, send)
      PROVE  Transacted /\ UNCHANGED <<workVars, outsideVars>>
  BY <1>4, RecoverTransacts DEF Recover
<1>5. QED BY <1>1, <1>2, <1>3, <1>4 DEF Enqueue

\* A transaction takes nothing from the worker.
LEMMA TransactKeepsInFlight ==
    ASSUME IInv, Transacted, UNCHANGED <<workVars, outsideVars>>
    PROVE  InFlight'
<1>0. /\ count \in Nat
      /\ count' \in Nat
      /\ count <= count'
      /\ \A j \in Jobs : j[1] \in Nat
  BY DEF IInv, TypeOK, Transacted
<1>1. ASSUME NEW j \in Jobs, delivery'[j].status # "none" PROVE j[1] <= count'
  <2>1. CASE delivery[j].status # "none"
    BY <1>0, <2>1 DEF IInv, InFlight
  <2>2. CASE delivery[j].status = "none"
    BY <1>0, <1>1, <2>2 DEF Transacted
  <2>3. QED BY <2>1, <2>2
<1>2. \A j \in Jobs : delivery'[j].status \in {"pending", "sending"}
                          => delivery'[j].attempts <= MaxRetry
  BY DEF IInv, InFlight, Transacted, Live
<1>3. worker \in {"send", "accepted", "rejected"}
        => job \in Jobs /\ delivery'[job].status = "sending"
  <2> SUFFICES ASSUME worker \in {"send", "accepted", "rejected"}
               PROVE  job \in Jobs /\ delivery'[job].status = "sending"
    OBVIOUS
  <2>1. job \in Jobs /\ delivery[job].status = "sending" BY DEF IInv, InFlight
  <2>2. job[1] <= count /\ job[1] # count + 1
    BY <1>0, <2>1 DEF IInv, InFlight
  <2>3. QED BY <2>1, <2>2 DEF Transacted
<1>4. QED BY <1>1, <1>2, <1>3 DEF IInv, InFlight, Live

\* The worker owns the delivery it sends.
LEMMA StepInFlight == IInv /\ [Next]_vars => InFlight'
<1> SUFFICES ASSUME IInv, [Next]_vars PROVE InFlight' OBVIOUS
<1> USE DEF IInv, Live
<1>0. delivery \in [Jobs -> Dels] BY DEF TypeOK, Dels
<1>1. ASSUME NEW s \in Subjects, NEW R \in SUBSET Recipients, Enqueue(s, R) PROVE InFlight'
  BY <1>1, EnqueueTransacts, TransactKeepsInFlight
<1>2. ASSUME NEW R \in SUBSET Recipients, Instant(R) PROVE InFlight'
  BY <1>2, CreateTransacts, TransactKeepsInFlight DEF Instant
<1>3. ASSUME NEW s \in Subjects, Elapse(s) PROVE InFlight'
  BY <1>3 DEF Elapse, InFlight
<1>4. CASE Start BY <1>0, <1>4 DEF Start, RecoverRow, InFlight, Dels
<1>5. CASE StartUnrecovered BY <1>5 DEF StartUnrecovered, InFlight
<1>6. CASE Select BY <1>6 DEF Select, InFlight
<1>7. CASE Claim
  <2>1. CASE UNCHANGED delivery /\ worker' = "idle"
    BY <1>7, <2>1 DEF Claim, InFlight
  <2>2. CASE /\ delivery[job].status = "pending"
             /\ SetDelivery(job, [delivery[job] EXCEPT !.status = "sending"])
             /\ worker' = "send"
             /\ UNCHANGED job
    <3>1. job \in Jobs
      BY <1>7 DEF InFlight, Claim
    <3>2. [delivery[job] EXCEPT !.status = "sending"].attempts = delivery[job].attempts
      BY <1>0, <3>1 DEF Dels
    <3>3. [delivery[job] EXCEPT !.status = "sending"].status = "sending"
      BY <1>0, <3>1 DEF Dels
    <3>4. QED
      BY <1>0, <1>7, <2>2, <3>1, <3>2, <3>3 DEF Claim, SetDelivery, InFlight
  <2>3. QED BY <1>7, <2>1, <2>2 DEF Claim, Leave
<1>8. CASE SendOK BY <1>8 DEF SendOK, InFlight, TypeOK
<1>9. CASE SendFails BY <1>9 DEF SendFails, InFlight
<1>10. CASE RecordDelivered
  BY <1>0, <1>10 DEF RecordDelivered, SetDelivery, InFlight
<1>11. CASE RecordFailure
  <2>1. PICK retryCount \in RetryCounts :
            SetDelivery(job, [status |-> IF GivesUp(delivery[job].attempts + 1, retryCount)
                                         THEN "failed" ELSE "pending",
                              attempts |-> delivery[job].attempts + 1, due |-> FALSE])
    BY <1>11 DEF RecordFailure
  <2>2. retryCount \in Nat /\ retryCount <= MaxRetry BY DEF RetryCounts
  <2>3. QED
    BY <1>0, <1>11, <2>1, <2>2 DEF RecordFailure, GivesUp, SetDelivery, InFlight, Dels
<1>12. CASE UpdateStatus BY <1>12 DEF UpdateStatus, Leave, InFlight
<1>13. CASE DbFault BY <1>13 DEF DbFault, Leave, InFlight
<1>14. CASE Stop BY <1>14 DEF Stop, Leave, InFlight
<1>15. ASSUME NEW j \in Jobs, BackoffEnds(j) PROVE InFlight'
  BY <1>0, <1>15 DEF BackoffEnds, SetDelivery, InFlight, Dels
<1>16. CASE UNCHANGED vars BY <1>16 DEF vars, InFlight
<1>17. QED
  BY <1>1, <1>2, <1>3, <1>4, <1>5, <1>6, <1>7, <1>8, <1>9, <1>10, <1>11, <1>12,
     <1>13, <1>14, <1>15, <1>16 DEF Next, ProcessOnce

\* The panel's types hold, and a delivery being sent is the worker's alone, in
\* every reachable state.
THEOREM Invariance == Spec => []IInv
<1>1. IInv /\ [Next]_vars => IInv' BY StepTypes, StepInFlight DEF IInv
<1>2. QED BY InitIInv, <1>1, PTL DEF Spec

\* Type correctness of the queue; a delivery is never tried more often than the
\* greatest retry_count and once, however often the setting is edited.
THEOREM TypeCorrect == Spec => []TypeOK
<1>1. IInv => TypeOK BY DEF IInv
<1>2. QED BY Invariance, <1>1, PTL

\* No recovery, restart or Enqueue takes a delivery from the worker while it sends
\* it, and one that is still to be sent was tried no more often than the greatest
\* retry_count, whatever the setting was at each attempt.
THEOREM SendingIsExclusive == Spec => []InFlight
<1>1. IInv => InFlight BY DEF IInv
<1>2. QED BY Invariance, <1>1, PTL

-----------------------------------------------------------------------------
(* Refinement.                                                             *)

\* The initial queue is the initial outbox.
LEMMA InitOutbox == Init => Outbox!Init
<1> SUFFICES ASSUME Init PROVE Outbox!Init OBVIOUS
<1>1. \A j \in Jobs : StateOf(delivery[j].status) = "absent"
  BY DEF Init, NoDelivery, StateOf
<1>2. [j \in Jobs |-> StateOf(delivery[j].status)] = [j \in Jobs |-> "absent"]
  BY <1>1
<1>3. QED BY <1>2 DEF Init, Outbox!Init

\* A transaction of Enqueue is a Transact of the outbox.
LEMMA TransactRefines ==
    ASSUME IInv, Transacted, accepted' = accepted
    PROVE  Outbox!Next
<1> DEFINE W == {j \in Jobs : delivery[j].status = "pending" /\ delivery'[j].status = "cancelled"}
           S == {j \in Jobs : delivery[j].status = "none" /\ delivery'[j].status = "pending"}
           bar == [j \in Jobs |-> StateOf(delivery[j].status)]
           new == [j \in Jobs |-> IF j \in W THEN "cancelled"
                                  ELSE IF j \in S THEN "waiting" ELSE bar[j]]
<1>1. W \subseteq {j \in Jobs : bar[j] = "waiting"} BY DEF StateOf
<1>2. S \subseteq {j \in Jobs : bar[j] = "absent"} BY DEF StateOf
<1>3. ASSUME NEW j \in Jobs PROVE StateOf(delivery'[j].status) = new[j]
  <2>1. CASE delivery'[j] = delivery[j]
    BY <2>1 DEF StateOf
  <2>2. CASE delivery[j].status = "pending" /\ delivery'[j].status = "cancelled"
    BY <2>2 DEF StateOf
  <2>3. CASE j[1] = count + 1 /\ delivery'[j] = [status |-> "pending", attempts |-> 0, due |-> TRUE]
    <3>1. count \in Nat /\ ~(count + 1 <= count) BY DEF IInv, TypeOK
    <3>2. delivery[j].status = "none" BY <2>3, <3>1 DEF IInv, InFlight
    <3>3. QED BY <2>3, <3>2 DEF StateOf
  <2>4. QED BY <2>1, <2>2, <2>3 DEF Transacted
<1>4. [j \in Jobs |-> StateOf(delivery'[j].status)] = new BY <1>3
<1> HIDE DEF W, S
<1>5. Outbox!Transact(W, S) BY <1>1, <1>2, <1>4 DEF Outbox!Transact, Outbox!In
<1>6. W \in SUBSET Jobs /\ S \in SUBSET Jobs BY DEF W, S
<1>7. QED BY <1>5, <1>6 DEF Outbox!Next

\* Statuses that change for no job, or only within what the outbox calls waiting.
LEMMA SameState ==
    ASSUME IInv, \A j \in Jobs : StateOf(delivery'[j].status) = StateOf(delivery[j].status)
    PROVE  [j \in Jobs |-> StateOf(delivery'[j].status)] = [j \in Jobs |-> StateOf(delivery[j].status)]
  OBVIOUS

\* The worker writes one row: the other jobs keep their state.
LEMMA OneRow ==
    ASSUME TypeOK, NEW j \in Jobs, NEW d, SetDelivery(j, d)
    PROVE  [i \in Jobs |-> StateOf(delivery'[i].status)]
              = [[i \in Jobs |-> StateOf(delivery[i].status)] EXCEPT ![j] = StateOf(d.status)]
<1>1. \A i \in Jobs : delivery'[i] = IF i = j THEN d ELSE delivery[i]
  BY DEF TypeOK, SetDelivery
<1>2. QED BY <1>1

\* Every step of the queue is a step of the outbox or invisible to it.
LEMMA StepOutbox == IInv /\ [Next]_vars => [Outbox!Next]_(Outbox!vars)
<1> SUFFICES ASSUME IInv, [Next]_vars PROVE [Outbox!Next]_(Outbox!vars) OBVIOUS
<1> DEFINE bar == [j \in Jobs |-> StateOf(delivery[j].status)]
<1>0. TypeOK /\ InFlight /\ delivery \in [Jobs -> Dels] BY DEF IInv, TypeOK, Dels
<1>1. ASSUME NEW s \in Subjects, NEW R \in SUBSET Recipients, Enqueue(s, R) PROVE Outbox!Next
  BY <1>0, <1>1, EnqueueTransacts, TransactRefines
<1>2. ASSUME NEW R \in SUBSET Recipients, Instant(R) PROVE Outbox!Next
  BY <1>0, <1>2, CreateTransacts, TransactRefines DEF Instant
<1>3. CASE SendOK
  <2>1. job \in Jobs /\ bar[job] = "waiting"
    BY <1>0, <1>3 DEF SendOK, InFlight, StateOf
  <2>2. Outbox!Accept(job) BY <1>3, <2>1 DEF SendOK, Outbox!Accept
  <2>3. QED BY <2>1, <2>2 DEF Outbox!Next
<1>4. CASE SendFails
  <2>1. job \in Jobs /\ bar[job] = "waiting"
    BY <1>0, <1>4 DEF SendFails, InFlight, StateOf
  <2>2. CASE UNCHANGED <<accepted, doubts>> BY <1>4, <2>2 DEF SendFails, Outbox!vars
  <2>3. CASE accepted' = [accepted EXCEPT ![job] = @ + 1]
    <3>1. Outbox!Accept(job) BY <1>4, <2>1, <2>3 DEF SendFails, Outbox!Accept
    <3>2. QED BY <2>1, <3>1 DEF Outbox!Next
  <2>4. QED BY <1>4, <2>2, <2>3 DEF SendFails
<1>5. CASE RecordDelivered
  <2> DEFINE d == [status |-> "delivered", attempts |-> delivery[job].attempts + 1, due |-> FALSE]
  <2>1. job \in Jobs /\ bar[job] = "waiting" /\ accepted[job] > 0
    BY <1>0, <1>5 DEF RecordDelivered, InFlight, StateOf
  <2>2. SetDelivery(job, d) /\ accepted' = accepted BY <1>5 DEF RecordDelivered
  <2>3. StateOf(d.status) = "delivered" BY DEF StateOf
  <2> HIDE DEF d
  <2>4. bar' = [bar EXCEPT ![job] = StateOf(d.status)] BY <1>0, <2>1, <2>2, OneRow
  <2>5. Outbox!Deliver(job) BY <2>1, <2>2, <2>3, <2>4 DEF Outbox!Deliver
  <2>6. QED BY <2>1, <2>5 DEF Outbox!Next
<1>6. CASE RecordFailure
  <2>0. PICK retryCount \in RetryCounts :
            SetDelivery(job, [status |-> IF GivesUp(delivery[job].attempts + 1, retryCount)
                                         THEN "failed" ELSE "pending",
                              attempts |-> delivery[job].attempts + 1, due |-> FALSE])
    BY <1>6 DEF RecordFailure
  <2> DEFINE n == delivery[job].attempts + 1
             d == [status |-> IF GivesUp(n, retryCount) THEN "failed" ELSE "pending",
                   attempts |-> n, due |-> FALSE]
  <2>1. job \in Jobs /\ bar[job] = "waiting"
    BY <1>0, <1>6 DEF RecordFailure, InFlight, StateOf
  <2>2. SetDelivery(job, d) /\ accepted' = accepted BY <1>6, <2>0 DEF RecordFailure
  <2>3. StateOf(d.status) \in {"failed", "waiting"} BY DEF StateOf
  <2> HIDE DEF d
  <2>4. bar' = [bar EXCEPT ![job] = StateOf(d.status)] BY <1>0, <2>1, <2>2, OneRow
  <2>5. CASE StateOf(d.status) = "failed"
    <3>1. Outbox!GiveUp(job) BY <2>1, <2>2, <2>4, <2>5 DEF Outbox!GiveUp
    <3>2. QED BY <2>1, <3>1 DEF Outbox!Next
  <2>6. CASE StateOf(d.status) = "waiting"
    <3>1. bar' = bar BY <2>1, <2>4, <2>6
    <3>2. QED BY <2>2, <3>1 DEF Outbox!vars
  <2>7. QED BY <2>3, <2>5, <2>6
<1>7. CASE Claim
  <2>1. \A j \in Jobs : StateOf(delivery'[j].status) = StateOf(delivery[j].status)
    <3>1. CASE UNCHANGED delivery BY <3>1
    <3>2. CASE /\ delivery[job].status = "pending"
               /\ SetDelivery(job, [delivery[job] EXCEPT !.status = "sending"])
      BY <1>0, <3>2 DEF SetDelivery, StateOf, Dels
    <3>3. QED BY <1>7, <3>1, <3>2 DEF Claim
  <2>2. bar' = bar BY <2>1, SameState
  <2>3. QED BY <1>7, <2>2 DEF Claim, Outbox!vars
<1>8. CASE Start
  <2>1. \A j \in Jobs : StateOf(delivery'[j].status) = StateOf(delivery[j].status)
    BY <1>0, <1>8 DEF Start, RecoverRow, StateOf, Dels
  <2>2. bar' = bar BY <2>1, SameState
  <2>3. QED BY <1>8, <2>2 DEF Start, Outbox!vars
<1>9. ASSUME NEW j \in Jobs, BackoffEnds(j) PROVE UNCHANGED Outbox!vars
  <2>1. \A i \in Jobs : delivery'[i].status = delivery[i].status
    BY <1>0, <1>9 DEF BackoffEnds, SetDelivery, Dels
  <2>2. bar' = bar BY <2>1
  <2>3. QED BY <1>9, <2>2 DEF BackoffEnds, Outbox!vars
<1>10. CASE UNCHANGED <<delivery, accepted>>
  BY <1>10 DEF Outbox!vars
<1>11. ASSUME NEW s \in Subjects, Elapse(s) PROVE UNCHANGED <<delivery, accepted>>
  BY <1>11 DEF Elapse
<1>12. StartUnrecovered \/ Select \/ UpdateStatus \/ DbFault \/ Stop \/ UNCHANGED vars
         => UNCHANGED <<delivery, accepted>>
  BY DEF StartUnrecovered, Select, UpdateStatus, DbFault, Stop, vars
<1>13. QED
  BY <1>1, <1>2, <1>3, <1>4, <1>5, <1>6, <1>7, <1>8, <1>9, <1>10, <1>11, <1>12
  DEF Next, ProcessOnce

\* The queue implements the outbox: what is settled is never sent again, and only
\* what Telegram accepted counts as delivered.
THEOREM QueueImplementsOutbox == Spec => ImplementsOutbox
<1>1. IInv /\ [Next]_vars => [Outbox!Next]_(Outbox!vars) BY StepOutbox
<1>2. QED BY Invariance, InitOutbox, <1>1, PTL DEF Spec, ImplementsOutbox, Outbox!Spec

-----------------------------------------------------------------------------
(* What the history shows and what the recipients get.                     *)

HIDE DEF EventIds, Jobs, Kinds, EventStatuses, DeliveryStatuses, WorkerSteps

\* A message that may still be sent was accepted only over a stop, a lost answer
\* or a failed statement, or is the one whose acceptance is not yet recorded.
Counted ==
    \A j \in Jobs :
        /\ delivery[j].status = "none" => accepted[j] = 0
        /\ Live(j) => \/ accepted[j] <= doubts + faults
                      \/ worker = "accepted" /\ job = j
        /\ accepted[j] <= 1 + doubts + faults

\* What is marked as being sent is being sent, unless the panel stopped or a
\* statement failed.
Owned ==
    \A j \in Jobs :
        delivery[j].status = "sending" =>
            \/ doubts + faults > 0
            \/ job = j /\ worker \in {"send", "accepted", "rejected"}

\* The inductive invariant of the history and of what is sent.
HistoryInv ==
    /\ IInv
    /\ Counted
    /\ Owned
    /\ SummaryIsTrue
    /\ StaleOnlyInFlight
    /\ AlertsAgree

\* What a transaction of Enqueue does to the rows: an event may be resolved, and
\* with it what is pending is cancelled; a new event has deliveries if it is pending.
RowsTransacted ==
    /\ count' \in {count, count + 1}
    /\ \A e \in 1..count :
        \/ event'[e] = event[e]
        \/ /\ event'[e].status = "resolved"
           /\ \A j \in Jobs : j[1] = e => delivery'[j].status # "pending"
    /\ \A j \in Jobs :
        \/ delivery'[j] = delivery[j]
        \/ /\ delivery[j].status = "pending" /\ delivery'[j].status = "cancelled"
           /\ j[1] \in 1..count /\ event'[j[1]].status = "resolved"
        \/ /\ j[1] = count + 1 /\ count' = count + 1
           /\ delivery'[j].status = "pending"
    /\ count' = count + 1 =>
        /\ event'[count + 1].status \in {"pending", "skipped"}
        /\ event'[count + 1].status = "pending" =>
              \E j \in Jobs : j[1] = count + 1 /\ delivery'[j].status = "pending"
        /\ event'[count + 1].resolved => event'[count + 1].kind = "recovery"

\* The rows after createEvent.
LEMMA CreatedRows ==
    ASSUME IInv, NEW rows \in [EventIds -> Rows], NEW dels \in [Jobs -> Dels],
           NEW s, NEW kind, NEW R \in SUBSET Recipients, CreateEvent(rows, dels, s, kind, R)
    PROVE  /\ count' = count + 1 /\ count + 1 \in EventIds
           /\ \A e \in 1..count : e \in EventIds /\ event'[e] = rows[e]
           /\ event'[count + 1].subject = s
           /\ event'[count + 1].kind = kind
           /\ event'[count + 1].resolved <=> kind = "recovery"
           /\ event'[count + 1].status \in {"pending", "skipped"}
           /\ event'[count + 1].status = "pending" =>
                 \E j \in Jobs : j[1] = count + 1 /\ delivery'[j].status = "pending"
           /\ \A j \in Jobs : \/ delivery'[j] = dels[j]
                              \/ j[1] = count + 1 /\ delivery'[j].status = "pending"
<1>1. count \in Nat /\ count' = count + 1 /\ count + 1 \in EventIds
  BY DEF CreateEvent, IInv, TypeOK, EventIds
<1> DEFINE new == [subject |-> s, kind |-> kind,
                   status |-> IF R = {} THEN "skipped" ELSE "pending",
                   resolved |-> kind = "recovery"]
<1>2. event' = [rows EXCEPT ![count + 1] = new]
  BY DEF CreateEvent
<1>3. \A j \in Jobs : delivery'[j] = IF j[1] = count + 1 /\ j[2] \in R
                                    THEN [status |-> "pending", attempts |-> 0, due |-> TRUE]
                                    ELSE dels[j]
  BY DEF CreateEvent, CreateDeliveries
<1>4. event'[count + 1] = new
  BY <1>1, <1>2
<1>5. ASSUME NEW e \in 1..count PROVE e \in EventIds /\ event'[e] = rows[e]
  <2>1. e \in EventIds /\ e # count + 1
    BY <1>1 DEF EventIds
  <2>2. QED BY <1>2, <2>1
<1>6. ASSUME R # {} PROVE \E j \in Jobs : j[1] = count + 1 /\ delivery'[j].status = "pending"
  <2>1. PICK r \in R : TRUE
    BY <1>6
  <2>2. <<count + 1, r>> \in Jobs
    BY <1>1, <2>1 DEF Jobs
  <2>3. delivery'[<<count + 1, r>>].status = "pending"
    BY <1>3, <2>1, <2>2
  <2>4. QED BY <2>2, <2>3
<1>7. /\ event'[count + 1].subject = s
      /\ event'[count + 1].kind = kind
      /\ event'[count + 1].resolved <=> kind = "recovery"
      /\ event'[count + 1].status \in {"pending", "skipped"}
      /\ event'[count + 1].status = "pending" => R # {}
  <2>1. new.resolved = (kind = "recovery")
    BY Zenon
  <2>2. new.status = IF R = {} THEN "skipped" ELSE "pending"
    BY Zenon
  <2>3. new.subject = s /\ new.kind = kind
    BY Zenon
  <2> HIDE DEF new
  <2>4. new.status \in {"pending", "skipped"} /\ (new.status = "pending" => R # {})
    BY <2>2
  <2>5. QED BY <1>4, <2>1, <2>3, <2>4, Zenon
<1>8. ASSUME NEW j \in Jobs
      PROVE  \/ delivery'[j] = dels[j]
             \/ j[1] = count + 1 /\ delivery'[j].status = "pending"
  <2>1. CASE j[1] = count + 1 /\ j[2] \in R
    <3>1. delivery'[j] = [status |-> "pending", attempts |-> 0, due |-> TRUE]
      BY <1>3, <2>1, Zenon
    <3>2. delivery'[j].status = "pending"
      BY <3>1
    <3>3. QED BY <2>1, <3>2, Zenon
  <2>2. CASE ~(j[1] = count + 1 /\ j[2] \in R)
    BY <1>3, <2>2, Zenon
  <2>3. QED BY <2>1, <2>2
<1> HIDE DEF new, Jobs
<1>9. QED BY <1>1, <1>5, <1>6, <1>7, <1>8

\* Each outcome of Enqueue is such a transaction.
LEMMA EnqueueRows ==
    ASSUME IInv, NEW s \in Subjects, NEW R \in SUBSET Recipients, Enqueue(s, R)
    PROVE  RowsTransacted
<1>0. /\ event \in [EventIds -> Rows] /\ delivery \in [Jobs -> Dels]
      /\ count \in Nat /\ count # count + 1
  BY DEF IInv, TypeOK, Rows, Dels
<1>1. CASE RaiseFirst(s, R)
  <2>1. CreateEvent(event, delivery, s, "alert", R) BY <1>1 DEF RaiseFirst
  <2>2. QED BY <1>0, <2>1, CreatedRows DEF RowsTransacted
<1>2. CASE RaiseAgain(s)
  BY <1>0, <1>2 DEF RaiseAgain, RowsTransacted
<1>3. CASE Repeat(s, R)
  <2>1. CreateEvent(event, delivery, s, "repeat", R) BY <1>3 DEF Repeat
  <2>2. QED BY <1>0, <2>1, CreatedRows DEF RowsTransacted
<1>4. CASE \E send \in BOOLEAN : Recover(s, R, send)
  <2> DEFINE E == ClosedBy(s)
  <2>1. Resolved(E) \in [EventIds -> Rows] /\ Cancelled(E) \in [Jobs -> Dels]
    BY ClosingTypes DEF IInv
  <2>2. E \subseteq 1..count /\ 1..count \subseteq EventIds
    BY DEF ClosedBy, IInv, TypeOK, EventIds
  <2> HIDE DEF E
  <2>3. \A e \in 1..count :
           \/ Resolved(E)[e] = event[e]
           \/ e \in E /\ Resolved(E)[e].status = "resolved"
    BY <1>0, <2>2 DEF Resolved, Rows
  <2>4. \A j \in Jobs :
           /\ \/ Cancelled(E)[j] = delivery[j]
              \/ /\ delivery[j].status = "pending" /\ Cancelled(E)[j].status = "cancelled"
                 /\ j[1] \in E
           /\ j[1] \in E => Cancelled(E)[j].status # "pending"
    BY <1>0 DEF Cancelled, Dels
  <2>5. \A e \in E : Resolved(E)[e].status = "resolved"
    BY <1>0, <2>2 DEF Resolved, Rows
  <2>6. CASE CreateEvent(Resolved(E), Cancelled(E), s, "recovery", R)
    <3>1. /\ count' = count + 1
          /\ \A e \in 1..count : event'[e] = Resolved(E)[e]
          /\ event'[count + 1].kind = "recovery"
          /\ event'[count + 1].status \in {"pending", "skipped"}
          /\ event'[count + 1].status = "pending" =>
                \E j \in Jobs : j[1] = count + 1 /\ delivery'[j].status = "pending"
          /\ \A j \in Jobs : \/ delivery'[j] = Cancelled(E)[j]
                             \/ j[1] = count + 1 /\ delivery'[j].status = "pending"
      BY <1>0, <2>1, <2>6, CreatedRows
    <3>2. \A e \in 1..count : e # count + 1
      BY <1>0
    <3>3. \A e \in 1..count :
             \/ event'[e] = event[e]
             \/ /\ event'[e].status = "resolved"
                /\ \A j \in Jobs : j[1] = e => delivery'[j].status # "pending"
      BY <2>3, <2>4, <3>1, <3>2
    <3>4. \A j \in Jobs :
             \/ delivery'[j] = delivery[j]
             \/ /\ delivery[j].status = "pending" /\ delivery'[j].status = "cancelled"
                /\ j[1] \in 1..count /\ event'[j[1]].status = "resolved"
             \/ /\ j[1] = count + 1 /\ count' = count + 1
                /\ delivery'[j].status = "pending"
      <4>1. \A e \in E : e \in 1..count /\ event'[e].status = "resolved"
        BY <2>2, <2>5, <3>1
      <4> SUFFICES ASSUME NEW j \in Jobs
                   PROVE  \/ delivery'[j] = delivery[j]
                          \/ /\ delivery[j].status = "pending"
                             /\ delivery'[j].status = "cancelled"
                             /\ j[1] \in 1..count /\ event'[j[1]].status = "resolved"
                          \/ /\ j[1] = count + 1 /\ count' = count + 1
                             /\ delivery'[j].status = "pending"
        OBVIOUS
      <4>2. CASE delivery'[j] = Cancelled(E)[j]
        BY <2>4, <4>1, <4>2, Zenon
      <4>3. CASE j[1] = count + 1 /\ delivery'[j].status = "pending"
        BY <3>1, <4>3
      <4>4. QED BY <3>1, <4>2, <4>3
    <3>5. QED BY <3>1, <3>3, <3>4, Zenon DEF RowsTransacted
  <2>7. CASE event' = Resolved(E) /\ delivery' = Cancelled(E) /\ count' = count
    BY <1>0, <2>2, <2>3, <2>4, <2>5, <2>7 DEF RowsTransacted
  <2>8. QED BY <1>4, <2>6, <2>7 DEF Recover, E
<1>5. QED BY <1>1, <1>2, <1>3, <1>4 DEF Enqueue

LEMMA InstantRows ==
    ASSUME IInv, NEW R \in SUBSET Recipients, Instant(R)
    PROVE  RowsTransacted
<1>0. /\ event \in [EventIds -> Rows] /\ delivery \in [Jobs -> Dels]
      /\ count \in Nat /\ count # count + 1
  BY DEF IInv, TypeOK, Rows, Dels
<1>1. CreateEvent(event, delivery, NoSubject, "instant", R) BY DEF Instant
<1>2. QED BY <1>0, <1>1, CreatedRows DEF RowsTransacted

\* A transaction of Enqueue keeps the counts: a new delivery was never sent.
LEMMA TransactCounted ==
    ASSUME HistoryInv, RowsTransacted, UNCHANGED <<workVars, outsideVars>>
    PROVE  Counted' /\ Owned'
<1>1. /\ Counted /\ Owned /\ count \in Nat /\ accepted' = accepted /\ doubts' = doubts
      /\ faults' = faults /\ worker' = worker /\ job' = job
      /\ doubts \in Nat /\ faults \in Nat
  BY DEF HistoryInv, IInv, TypeOK
<1>2. ASSUME NEW j \in Jobs, delivery'[j] # delivery[j]
      PROVE  \/ delivery[j].status = "pending" /\ delivery'[j].status = "cancelled"
             \/ delivery[j].status = "none" /\ delivery'[j].status = "pending"
  <2>1. delivery[j].status # "none" => j[1] # count + 1
    BY <1>1 DEF HistoryInv, IInv, InFlight
  <2>2. QED BY <1>2, <2>1 DEF RowsTransacted
<1>3. Counted'
  <2> SUFFICES ASSUME NEW j \in Jobs
               PROVE  /\ delivery'[j].status = "none" => accepted'[j] = 0
                      /\ delivery'[j].status \in {"pending", "sending"} =>
                            \/ accepted'[j] <= doubts' + faults'
                            \/ worker' = "accepted" /\ job' = j
                      /\ accepted'[j] <= 1 + doubts' + faults'
    BY DEF Counted, Live
  <2>1. /\ delivery[j].status = "none" => accepted[j] = 0
        /\ delivery[j].status \in {"pending", "sending"} =>
              \/ accepted[j] <= doubts + faults
              \/ worker = "accepted" /\ job = j
        /\ accepted[j] <= 1 + doubts + faults
    BY <1>1 DEF Counted, Live
  <2>2. QED BY <1>1, <1>2, <2>1
<1>4. Owned'
  BY <1>1, <1>2 DEF Owned
<1>5. QED BY <1>3, <1>4

\* It keeps the summaries true: the deliveries of an event that is settled do not
\* change, and a pending event loses none without being resolved.
LEMMA TransactSummary ==
    ASSUME HistoryInv, RowsTransacted, UNCHANGED <<workVars, outsideVars>>
    PROVE  SummaryIsTrue'
<1>1. /\ SummaryIsTrue /\ count \in Nat /\ worker' = worker /\ job' = job
      /\ doubts' = doubts /\ faults' = faults
  BY DEF HistoryInv, IInv, TypeOK
<1> SUFFICES ASSUME NEW e \in 1..count'
             PROVE  /\ event'[e].status = "delivered" =>
                          ~Has(e, {"pending", "sending", "failed"})'
                    /\ event'[e].status = "failed" =>
                          Has(e, {"failed"})' /\ ~Has(e, {"pending", "sending"})'
                    /\ event'[e].status = "pending" /\ doubts' + faults' = 0
                          => \/ Has(e, {"pending", "sending"})'
                             \/ worker' = "status" /\ job'[1] = e
  BY Zenon DEF SummaryIsTrue
<1>2. CASE e \in 1..count
  <2>1. CASE event'[e].status = "resolved"
    BY <2>1
  <2>2. CASE event'[e].status # "resolved"
    <3>1. event'[e] = event[e]
      BY <1>2, <2>2 DEF RowsTransacted
    <3>2. ASSUME NEW j \in Jobs, j[1] = e PROVE delivery'[j] = delivery[j]
      BY <1>1, <1>2, <2>2, <3>2 DEF RowsTransacted
    <3>3. \A S : Has(e, S)' <=> Has(e, S)
      BY <3>2 DEF Has
    <3>4. QED BY <1>1, <1>2, <3>1, <3>3, Zenon DEF SummaryIsTrue
  <2>3. QED BY <2>1, <2>2
<1>3. CASE e = count + 1 /\ count' = count + 1
  <2>1. /\ event'[e].status \in {"pending", "skipped"}
        /\ event'[e].status = "pending" => \E j \in Jobs : j[1] = e /\ delivery'[j].status = "pending"
    BY <1>3 DEF RowsTransacted
  <2>2. event'[e].status = "pending" => Has(e, {"pending", "sending"})'
    BY <2>1 DEF Has
  <2>3. QED BY <2>1, <2>2
<1>4. QED BY <1>1, <1>2, <1>3 DEF RowsTransacted

\* It leaves no alert of a closed event pending.
LEMMA TransactStale ==
    ASSUME HistoryInv, RowsTransacted, UNCHANGED <<workVars, outsideVars>>
    PROVE  StaleOnlyInFlight'
<1>1. StaleOnlyInFlight /\ count \in Nat /\ doubts' = doubts /\ faults' = faults
  BY DEF HistoryInv, IInv, TypeOK
<1> SUFFICES ASSUME NEW j \in Jobs, delivery'[j].status = "pending",
                    event'[j[1]].resolved, event'[j[1]].kind # "recovery"
             PROVE  delivery'[j].attempts > 0 \/ doubts' + faults' > 0
  BY DEF StaleOnlyInFlight
<1>2. CASE j[1] = count + 1 /\ count' = count + 1
  BY <1>2 DEF RowsTransacted
<1>3. CASE ~(j[1] = count + 1 /\ count' = count + 1)
  <2>1. delivery'[j] = delivery[j]
    BY <1>3 DEF RowsTransacted
  <2>2. j[1] \in 1..count
    <3>1. j[1] \in Nat \ {0} /\ j[1] <= count
      BY <2>1 DEF HistoryInv, IInv, InFlight, Jobs, EventIds
    <3>2. QED BY <1>1, <3>1
  <2>3. event'[j[1]] = event[j[1]]
    BY <2>2 DEF RowsTransacted
  <2>4. QED BY <1>1, <2>1, <2>3 DEF StaleOnlyInFlight
<1>4. QED BY <1>2, <1>3
-----------------------------------------------------------------------------
(* What the worker's steps do to the history.                              *)

\* A step of the worker, of the clock or of the panel that leaves the events alone:
\* only a live delivery changes its status, and it stays live or is the one whose
\* outcome was just recorded.
Worked ==
    /\ UNCHANGED <<active, last, silent, count, event>>
    /\ \A j \in Jobs :
        \/ delivery'[j].status = delivery[j].status
        \/ /\ Live(j)
           /\ \/ delivery'[j].status \in {"pending", "sending"}
              \/ worker' = "status" /\ job' = j
    /\ doubts' + faults' = 0 =>
        /\ doubts + faults = 0
        /\ worker = "status" => UNCHANGED workVars

\* It keeps the summaries true.
LEMMA WorkSummary ==
    ASSUME HistoryInv, Worked
    PROVE  SummaryIsTrue'
<1>1. SummaryIsTrue /\ count' = count /\ event' = event
  BY DEF HistoryInv, Worked
<1> SUFFICES ASSUME NEW e \in 1..count
             PROVE  /\ event'[e].status = "delivered" =>
                          ~Has(e, {"pending", "sending", "failed"})'
                    /\ event'[e].status = "failed" =>
                          Has(e, {"failed"})' /\ ~Has(e, {"pending", "sending"})'
                    /\ event'[e].status = "pending" /\ doubts' + faults' = 0
                          => \/ Has(e, {"pending", "sending"})'
                             \/ worker' = "status" /\ job'[1] = e
  BY <1>1, Zenon DEF SummaryIsTrue
<1>2. CASE ~Has(e, {"pending", "sending"}) /\ event[e].status # "pending"
  <2>1. ASSUME NEW j \in Jobs, j[1] = e PROVE delivery'[j].status = delivery[j].status
    BY <1>2, <2>1 DEF Worked, Has, Live
  <2>2. \A S : Has(e, S)' <=> Has(e, S)
    BY <2>1 DEF Has
  <2>3. QED BY <1>1, <1>2, <2>2, Zenon DEF SummaryIsTrue
<1>3. CASE Has(e, {"pending", "sending"}) /\ event[e].status # "pending"
  <2>1. \A j \in Jobs : delivery[j].status \in {"pending", "sending"} =>
                            delivery[j].status \in {"pending", "sending", "failed"}
    OBVIOUS
  <2>2. Has(e, {"pending", "sending", "failed"})
    BY <1>3, <2>1, Zenon DEF Has
  <2>3. QED BY <1>1, <1>3, <2>2, Zenon DEF SummaryIsTrue
<1>4. CASE event[e].status = "pending" /\ doubts' + faults' = 0
  <2>1. CASE Has(e, {"pending", "sending"})
    <3>1. PICK j \in Jobs : j[1] = e /\ delivery[j].status \in {"pending", "sending"}
      BY <2>1 DEF Has
    <3>2. \/ delivery'[j].status \in {"pending", "sending"}
          \/ worker' = "status" /\ job' = j
      BY <3>1 DEF Worked
    <3>3. QED BY <1>1, <1>4, <3>1, <3>2 DEF Has
  <2>2. CASE worker = "status" /\ job[1] = e
    BY <1>1, <1>4, <2>2 DEF Worked, workVars
  <2>3. QED BY <1>1, <1>4, <2>1, <2>2 DEF SummaryIsTrue, Worked
<1>5. CASE event[e].status = "pending" /\ doubts' + faults' # 0
  BY <1>1, <1>5
<1>6. QED BY <1>2, <1>3, <1>4, <1>5

\* It leaves the alert states and the events as they are.
LEMMA WorkAlerts ==
    ASSUME HistoryInv, Worked
    PROVE  AlertsAgree'
<1>1. AlertsAgree /\ active' = active /\ last' = last /\ silent' = silent
      /\ count' = count /\ event' = event
  BY DEF HistoryInv, Worked
<1>2. QED BY <1>1 DEF AlertsAgree, Open

\* What becomes pending has been tried, or the panel stopped or failed.
LEMMA WorkStale ==
    ASSUME HistoryInv, doubts' + faults' > 0 \/ doubts + faults = 0,
           \A e \in EventIds : /\ event'[e].resolved = event[e].resolved
                               /\ event'[e].kind = event[e].kind,
           \A j \in Jobs : delivery'[j].status = "pending" =>
               \/ delivery[j].status = "pending" /\ delivery'[j].attempts = delivery[j].attempts
               \/ delivery'[j].attempts > 0
               \/ doubts' + faults' > 0
    PROVE  StaleOnlyInFlight'
<1>1. StaleOnlyInFlight
  BY DEF HistoryInv
<1>2. \A j \in Jobs : j[1] \in EventIds
  BY DEF Jobs
<1>3. doubts \in Nat /\ faults \in Nat
  BY DEF HistoryInv, IInv, TypeOK
<1>4. QED BY <1>1, <1>2, <1>3 DEF StaleOnlyInFlight

\* What the proofs of the worker's steps use of the state they start from.
LEMMA HistoryTyped ==
    ASSUME HistoryInv
    PROVE  /\ TypeOK /\ InFlight /\ Counted /\ Owned
           /\ delivery \in [Jobs -> Dels]
           /\ \A j \in Jobs : delivery[j].attempts \in Nat
           /\ accepted \in [Jobs -> Nat]
           /\ doubts \in Nat /\ faults \in Nat
  BY DEF HistoryInv, IInv, TypeOK, Dels

\* RecoverInFlight: nothing was being sent if the panel never stopped.
LEMMA StartHistory ==
    ASSUME HistoryInv, Start
    PROVE  Counted' /\ Owned' /\ Worked /\ StaleOnlyInFlight'
<1> USE HistoryTyped
<1>1. \A j \in Jobs : delivery'[j] = RecoverRow(delivery[j])
  BY DEF Start
<1>2. \A j \in Jobs :
          /\ delivery'[j].attempts = delivery[j].attempts
          /\ IF delivery[j].status = "sending" THEN delivery'[j].status = "pending"
             ELSE delivery'[j].status = delivery[j].status
  BY <1>1 DEF RecoverRow, Dels
<1>3. UNCHANGED <<active, last, silent, count, event, job, accepted, doubts, faults>>
      /\ worker = "down" /\ worker' = "idle"
  BY DEF Start, alertVars, outsideVars
<1>4. Counted'
  BY <1>2, <1>3 DEF Counted, Live
<1>5. Owned'
  BY <1>2, <1>3 DEF Owned
<1>6. Worked
  BY <1>2, <1>3 DEF Worked, Live
<1>7. \A j \in Jobs : delivery'[j].status = "pending" =>
          \/ delivery[j].status = "pending" /\ delivery'[j].attempts = delivery[j].attempts
          \/ delivery'[j].attempts > 0
          \/ doubts' + faults' > 0
  BY <1>2, <1>3 DEF Owned
<1>8. StaleOnlyInFlight'
  BY <1>3, <1>7, WorkStale
<1>9. QED BY <1>4, <1>5, <1>6, <1>8

\* A step that moves the worker on and leaves the rows and the counts alone.
LEMMA MoveHistory ==
    ASSUME HistoryInv, NEW m \in Nat, NEW n \in Nat,
           UNCHANGED <<active, last, silent, count, event, delivery, accepted>>,
           doubts' = doubts + m, faults' = faults + n,
           \/ m + n > 0
           \/ /\ worker \in {"down", "idle", "claim"} /\ worker' \in {"idle", "claim"}
           \/ worker = "send" /\ worker' = "rejected" /\ job' = job
    PROVE  Counted' /\ Owned' /\ Worked /\ StaleOnlyInFlight'
<1> USE HistoryTyped
<1>1. Counted'
  BY DEF Counted, Live
<1>2. Owned'
  BY DEF Owned
<1>3. Worked
  <2>1. doubts' + faults' = 0 => doubts + faults = 0 /\ worker # "status"
    OBVIOUS
  <2>2. QED BY <2>1 DEF Worked
<1>4. StaleOnlyInFlight'
  BY WorkStale
<1>5. QED BY <1>1, <1>2, <1>3, <1>4

\* A claim hands the delivery to the worker, or finds it cancelled.
LEMMA ClaimHistory ==
    ASSUME HistoryInv, Claim
    PROVE  Counted' /\ Owned' /\ Worked /\ StaleOnlyInFlight'
<1> USE HistoryTyped
<1>1. /\ UNCHANGED <<active, last, silent, count, event, accepted, doubts, faults>>
      /\ worker = "claim" /\ job \in Jobs
  BY DEF Claim, alertVars, outsideVars, InFlight
<1>2. CASE UNCHANGED delivery /\ worker' = "idle"
  <2>1. doubts' = doubts + 0 /\ faults' = faults + 0
    BY <1>1
  <2>2. QED BY <1>1, <1>2, <2>1, MoveHistory
<1>3. CASE /\ delivery[job].status = "pending"
           /\ SetDelivery(job, [delivery[job] EXCEPT !.status = "sending"])
           /\ worker' = "send"
           /\ UNCHANGED job
  <2>1. [delivery[job] EXCEPT !.status = "sending"] \in Dels
    BY <1>1 DEF Dels, DeliveryStatuses
  <2>2. /\ delivery'[job] = [delivery[job] EXCEPT !.status = "sending"]
        /\ \A i \in Jobs : i # job => delivery'[i] = delivery[i]
    BY <1>1, <1>3, <2>1, SetDeliveryTypes
  <2>3. delivery'[job].status = "sending"
    BY <1>1, <2>2 DEF Dels
  <2>4. Counted'
    BY <1>1, <1>3, <2>2, <2>3 DEF Counted, Live
  <2>5. Owned'
    BY <1>1, <1>3, <2>2, <2>3 DEF Owned
  <2>6. Worked
    BY <1>1, <1>3, <2>2, <2>3 DEF Worked, Live
  <2>7. \A j \in Jobs : delivery'[j].status = "pending" => delivery'[j] = delivery[j]
    BY <2>2, <2>3
  <2>8. StaleOnlyInFlight'
    BY <1>1, <2>7, WorkStale
  <2>9. QED BY <2>4, <2>5, <2>6, <2>8
<1>4. QED BY <1>2, <1>3 DEF Claim, Leave

\* Telegram accepts the message: the only delivery that may now have been accepted
\* once more than the stops and failures allow is the worker's.
LEMMA AcceptHistory ==
    ASSUME HistoryInv, NEW n \in Nat, worker = "send", UNCHANGED job,
           UNCHANGED <<active, last, silent, count, event, delivery, faults>>,
           doubts' = doubts + n,
           accepted' = [accepted EXCEPT ![job] = @ + 1],
           worker' = IF n = 0 THEN "accepted" ELSE "rejected"
    PROVE  Counted' /\ Owned' /\ Worked /\ StaleOnlyInFlight'
<1> USE HistoryTyped
<1>1. job \in Jobs /\ delivery[job].status = "sending"
  BY DEF InFlight
<1>2. /\ accepted'[job] = accepted[job] + 1
      /\ \A i \in Jobs : i # job => accepted'[i] = accepted[i]
  BY <1>1
<1>3. accepted[job] <= doubts + faults
  BY <1>1 DEF Counted, Live
<1>4. Counted'
  BY <1>1, <1>2, <1>3 DEF Counted, Live
<1>5. Owned'
  <2>1. worker' \in {"send", "accepted", "rejected"} /\ job' = job /\ delivery' = delivery
    OBVIOUS
  <2>2. doubts + faults > 0 => doubts' + faults' > 0
    OBVIOUS
  <2>3. Owned
    BY HistoryTyped
  <2>4. QED BY <2>1, <2>2, <2>3, Zenon DEF Owned
<1>6. Worked
  BY DEF Worked
<1>7. StaleOnlyInFlight'
  BY WorkStale
<1>8. QED BY <1>4, <1>5, <1>6, <1>7

\* The outcome is recorded: the delivery leaves the worker.
LEMMA RecordHistory ==
    ASSUME HistoryInv, NEW d \in Dels,
           \/ worker = "accepted" /\ d.status = "delivered"
           \/ worker = "rejected" /\ d.status \in {"pending", "failed"} /\ d.attempts > 0,
           SetDelivery(job, d), worker' = "status", job' = job,
           UNCHANGED <<active, last, silent, count, event, accepted, doubts, faults>>
    PROVE  Counted' /\ Owned' /\ Worked /\ StaleOnlyInFlight'
<1> USE HistoryTyped
<1>1. job \in Jobs /\ delivery[job].status = "sending"
  BY DEF InFlight
<1>2. /\ delivery'[job] = d
      /\ \A i \in Jobs : i # job => delivery'[i] = delivery[i]
  BY <1>1, SetDeliveryTypes
<1>3. Counted'
  BY <1>1, <1>2 DEF Counted, Live
<1>4. Owned'
  BY <1>1, <1>2 DEF Owned
<1>5. Worked
  BY <1>1, <1>2 DEF Worked, Live
<1>6. StaleOnlyInFlight'
  BY <1>1, <1>2, WorkStale
<1>7. QED BY <1>3, <1>4, <1>5, <1>6

\* The event whose delivery was worked on gets the status its deliveries say.
LEMMA UpdateHistory ==
    ASSUME HistoryInv, UpdateStatus
    PROVE  Counted' /\ Owned' /\ SummaryIsTrue' /\ StaleOnlyInFlight' /\ AlertsAgree'
<1> USE HistoryTyped
<1>1. /\ UNCHANGED <<active, last, silent, count, delivery, accepted, doubts, faults>>
      /\ worker = "status" /\ worker' = "idle"
  BY DEF UpdateStatus, Leave, alertVars, outsideVars
<1> DEFINE k == job[1]
           x == IF event[k].status = "resolved" THEN event[k].status ELSE Summary(k)
<1>2. k \in EventIds /\ event \in [EventIds -> Rows] /\ 1..count \subseteq EventIds
  BY <1>1 DEF InFlight, Jobs, TypeOK, Rows, EventIds
<1>3. event' = [event EXCEPT ![k].status = x]
  BY DEF UpdateStatus
<1> HIDE DEF k, x
<1>4. \A e \in EventIds : /\ event'[e].subject = event[e].subject
                          /\ event'[e].kind = event[e].kind
                          /\ event'[e].resolved = event[e].resolved
                          /\ event'[e].status = IF e = k THEN x ELSE event[e].status
  BY <1>2, <1>3 DEF Rows
<1>5. Counted' /\ Owned'
  BY <1>1 DEF Counted, Owned, Live
<1>6. SummaryIsTrue'
  <2>1. \A e, S : Has(e, S)' <=> Has(e, S)
    BY <1>1 DEF Has
  <2> SUFFICES ASSUME NEW e \in 1..count
               PROVE  /\ event'[e].status = "delivered" =>
                            ~Has(e, {"pending", "sending", "failed"})'
                      /\ event'[e].status = "failed" =>
                            Has(e, {"failed"})' /\ ~Has(e, {"pending", "sending"})'
                      /\ event'[e].status = "pending" /\ doubts' + faults' = 0
                            => \/ Has(e, {"pending", "sending"})'
                               \/ worker' = "status" /\ job'[1] = e
    BY <1>1, Zenon DEF SummaryIsTrue
  <2>2. e \in EventIds
    BY <1>2
  <2>3. CASE e = k
    <3>1. event'[e].status = "resolved" \/ event'[e].status = Summary(e)
      BY <1>4, <2>2, <2>3 DEF x
    <3>2. Has(e, {"pending", "sending", "failed"}) =>
              Has(e, {"pending", "sending"}) \/ Has(e, {"failed"})
      BY DEF Has
    <3>3. QED BY <2>1, <3>1, <3>2 DEF Summary
  <2>4. CASE e # k
    <3>1. event'[e].status = event[e].status
      BY <1>4, <2>2, <2>4
    <3>2. ~(worker = "status" /\ job[1] = e)
      BY <2>4 DEF k
    <3>3. /\ event[e].status = "delivered" => ~Has(e, {"pending", "sending", "failed"})
          /\ event[e].status = "failed" => Has(e, {"failed"}) /\ ~Has(e, {"pending", "sending"})
          /\ event[e].status = "pending" /\ doubts + faults = 0
                 => Has(e, {"pending", "sending"})
      BY <3>2, Zenon DEF HistoryInv, SummaryIsTrue
    <3>4. doubts' = doubts /\ faults' = faults
      BY <1>1
    <3>5. QED BY <2>1, <3>1, <3>3, <3>4, Zenon
  <2>5. QED BY <2>3, <2>4
<1>7. StaleOnlyInFlight'
  BY <1>1, <1>4, WorkStale
<1>8. AlertsAgree'
  BY <1>1, <1>2, <1>4 DEF HistoryInv, AlertsAgree, Open
<1>9. QED BY <1>5, <1>6, <1>7, <1>8

\* The end of a backoff changes no status and no count.
LEMMA BackoffHistory ==
    ASSUME HistoryInv, NEW j \in Jobs, BackoffEnds(j)
    PROVE  Counted' /\ Owned' /\ Worked /\ StaleOnlyInFlight'
<1> USE HistoryTyped
<1>1. /\ UNCHANGED <<active, last, silent, count, event, accepted, doubts, faults>>
      /\ UNCHANGED <<worker, job>>
  BY DEF BackoffEnds, alertVars, workVars, outsideVars
<1>2. [delivery[j] EXCEPT !.due = TRUE] \in Dels
  BY DEF Dels
<1>3. /\ delivery'[j] = [delivery[j] EXCEPT !.due = TRUE]
      /\ \A i \in Jobs : i # j => delivery'[i] = delivery[i]
  BY <1>2, SetDeliveryTypes DEF BackoffEnds
<1>4. \A i \in Jobs : /\ delivery'[i].status = delivery[i].status
                      /\ delivery'[i].attempts = delivery[i].attempts
  BY <1>3 DEF Dels
<1>5. Counted' /\ Owned'
  BY <1>1, <1>4 DEF Counted, Owned, Live
<1>6. Worked
  BY <1>1, <1>4 DEF Worked, workVars
<1>7. StaleOnlyInFlight'
  BY <1>1, <1>4, WorkStale
<1>8. QED BY <1>5, <1>6, <1>7

-----------------------------------------------------------------------------
(* The alert states and the events.                                        *)

\* What AlertsAgree says of one subject.
Agrees(t) ==
    /\ Open(t) # {} => active[t] /\ t \notin silent
    /\ active[t] => /\ last[t] \in 1..count
                    /\ event[last[t]].subject = t
                    /\ event[last[t]].kind \in {"alert", "repeat"}
    /\ active[t] /\ t \notin silent => last[t] \in Open(t)

\* A subject the transaction is not about: its state stays, the new events are not its
\* own, and it becomes silent exactly if a recovery of s (`off`) closes its events.
LEMMA OthersAgree ==
    ASSUME NEW t \in Subjects, NEW s \in Subjects, NEW off \in BOOLEAN, Agrees(t),
           count \in Nat, count' \in Nat, count' >= count,
           active'[t] = active[t], last'[t] = last[t],
           t \in silent' <=> t \in silent \/ (off /\ active[t] /\ <<s, t>> \in Like),
           \A e \in 1..count :
               /\ event'[e].subject = event[e].subject
               /\ event'[e].kind = event[e].kind
               /\ event'[e].resolved
                    <=> event[e].resolved \/ (off /\ <<s, event[e].subject>> \in Like),
           \A e \in 1..count' : e \in 1..count \/ event'[e].subject # t
    PROVE  Agrees(t)'
<1>1. 1..count \subseteq 1..count'
  OBVIOUS
<1>2. ASSUME Open(t)' # {} PROVE active'[t] /\ t \notin silent'
  <2>1. PICK e \in 1..count' : event'[e].subject = t /\ ~event'[e].resolved
    BY <1>2 DEF Open
  <2>2. e \in 1..count /\ event[e].subject = t /\ ~event[e].resolved
    BY <2>1
  <2>3. active[t] /\ t \notin silent
    BY <2>2 DEF Agrees, Open
  <2>4. ~(off /\ <<s, t>> \in Like)
    BY <2>1, <2>2
  <2>5. QED BY <2>3, <2>4
<1>3. ASSUME active'[t]
      PROVE  /\ last'[t] \in 1..count'
             /\ event'[last'[t]].subject = t
             /\ event'[last'[t]].kind \in {"alert", "repeat"}
  BY <1>1, <1>3 DEF Agrees
<1>4. ASSUME active'[t], t \notin silent' PROVE last'[t] \in Open(t)'
  <2>1. active[t] /\ t \notin silent /\ ~(off /\ <<s, t>> \in Like)
    BY <1>4
  <2>2. last[t] \in 1..count /\ event[last[t]].subject = t /\ ~event[last[t]].resolved
    BY <2>1 DEF Agrees, Open
  <2>3. ~event'[last[t]].resolved
    BY <2>1, <2>2
  <2>4. QED BY <1>1, <1>3, <1>4, <2>3 DEF Open
<1>5. QED BY <1>2, <1>3, <1>4, Zenon DEF Agrees

\* A new event of s on top of rows that keep what the events are about: it is the one
\* s points at, or s is inactive and it and the others of s are closed.
LEMMA CreatedAlerts ==
    ASSUME HistoryInv, NEW rows \in [EventIds -> Rows], NEW dels \in [Jobs -> Dels],
           NEW s \in Subjects, NEW kind, NEW R \in SUBSET Recipients, NEW on \in BOOLEAN,
           CreateEvent(rows, dels, s, kind, R),
           active' = [active EXCEPT ![s] = on],
           last' = [last EXCEPT ![s] = count + 1],
           s \notin silent',
           \A t \in Subjects : t # s =>
               (t \in silent' <=> t \in silent \/ (~on /\ active[t] /\ <<s, t>> \in Like)),
           \A e \in 1..count :
               /\ rows[e].subject = event[e].subject
               /\ rows[e].kind = event[e].kind
               /\ rows[e].resolved
                    <=> event[e].resolved \/ (~on /\ <<s, event[e].subject>> \in Like),
           IF on THEN kind \in {"alert", "repeat"} ELSE kind = "recovery"
    PROVE  AlertsAgree'
<1>1. IInv /\ AlertsAgree /\ count \in Nat /\ active \in [Subjects -> BOOLEAN]
      /\ last \in [Subjects -> 0..MaxEvents]
  BY DEF HistoryInv, IInv, TypeOK
<1>2. /\ count' = count + 1
      /\ \A e \in 1..count : event'[e] = rows[e]
      /\ event'[count + 1].subject = s
      /\ event'[count + 1].kind = kind
      /\ event'[count + 1].resolved <=> kind = "recovery"
  BY <1>1, CreatedRows
<1>3. \A e \in 1..count' : e \in 1..count \/ e = count + 1
  BY <1>1, <1>2
<1>4. 1..count \subseteq 1..count' /\ count + 1 \in 1..count' /\ count' \in Nat
  BY <1>1, <1>2
<1>5. ASSUME NEW t \in Subjects, t # s PROVE Agrees(t)'
  <2>1. Agrees(t)
    BY <1>1 DEF AlertsAgree, Agrees
  <2>2. active'[t] = active[t] /\ last'[t] = last[t]
    BY <1>1, <1>5
  <2>3. \A e \in 1..count' : e \in 1..count \/ event'[e].subject # t
    BY <1>2, <1>3, <1>5
  <2>4. count' >= count
    BY <1>1, <1>2
  <2>5. ASSUME NEW off \in BOOLEAN, off <=> ~on PROVE Agrees(t)'
    <3>1. \A e \in 1..count :
              /\ event'[e].subject = event[e].subject
              /\ event'[e].kind = event[e].kind
              /\ event'[e].resolved
                   <=> event[e].resolved \/ (off /\ <<s, event[e].subject>> \in Like)
      BY <1>2, <2>5
    <3>2. t \in silent' <=> t \in silent \/ (off /\ active[t] /\ <<s, t>> \in Like)
      BY <1>5, <2>5
    <3>3. QED BY <1>1, <1>4, <2>1, <2>2, <2>3, <2>4, <3>1, <3>2, OthersAgree
  <2>6. QED
    <3>1. CASE on BY <2>5, <3>1
    <3>2. CASE ~on BY <2>5, <3>2
    <3>3. QED BY <3>1, <3>2
<1>6. Agrees(s)'
  <2>1. active'[s] = on /\ last'[s] = count + 1
    BY <1>1
  <2>2. CASE on
    <3>1. count + 1 \in Open(s)'
      BY <1>2, <1>4, <2>2 DEF Open
    <3>2. QED BY <1>2, <1>4, <2>1, <2>2, <3>1 DEF Agrees
  <2>3. CASE ~on
    <3>0. kind = "recovery"
      BY <2>3
    <3>a. event'[count + 1].resolved /\ <<s, s>> \in Like
      BY <1>2, <3>0, LikeAssumption
    <3>b. ASSUME NEW e \in 1..count, event'[e].subject = s PROVE event'[e].resolved
      BY <1>2, <2>3, <3>a, <3>b
    <3>1. \A e \in 1..count' : event'[e].subject = s => event'[e].resolved
      BY <1>3, <3>a, <3>b
    <3>2. Open(s)' = {}
      BY <3>1 DEF Open
    <3>3. QED BY <2>1, <2>3, <3>2 DEF Agrees
  <2>4. QED BY <2>2, <2>3
<1>7. QED BY <1>5, <1>6 DEF AlertsAgree, Agrees

\* The alert states stay in step with the events whatever Enqueue does.
LEMMA EnqueueAlerts ==
    ASSUME HistoryInv, NEW s \in Subjects, NEW R \in SUBSET Recipients, Enqueue(s, R)
    PROVE  AlertsAgree'
<1>0. /\ event \in [EventIds -> Rows] /\ delivery \in [Jobs -> Dels]
      /\ active \in [Subjects -> BOOLEAN] /\ last \in [Subjects -> 0..MaxEvents]
      /\ count \in Nat /\ 1..count \subseteq EventIds
      /\ IInv /\ AlertsAgree
  BY DEF HistoryInv, IInv, TypeOK, Rows, Dels, EventIds
<1>1. CASE RaiseFirst(s, R)
  <2>1. CreateEvent(event, delivery, s, "alert", R) /\ silent' = silent \ {s}
        /\ active' = [active EXCEPT ![s] = TRUE] /\ last' = [last EXCEPT ![s] = count + 1]
    BY <1>1 DEF RaiseFirst, MarkActive
  <2>2. QED BY <1>0, <2>1, CreatedAlerts
<1>2. CASE RaiseAgain(s)
  <2>1. PICK e \in FirstAlerts(s) : MarkActive(s, e)
    BY <1>2 DEF RaiseAgain
  <2>2. e \in 1..count /\ event[e].subject = s /\ event[e].kind = "alert"
    BY DEF FirstAlerts
  <2>3. event' = event /\ count' = count /\ silent' = silent \cup {s} /\ ~active[s]
    BY <1>2 DEF RaiseAgain, rowVars
  <2>4. /\ active'[s] /\ last'[s] = e
        /\ \A t \in Subjects : t # s => active'[t] = active[t] /\ last'[t] = last[t]
    BY <1>0, <2>1 DEF MarkActive
  <2>5. Open(s) = {}
    BY <1>0, <2>3 DEF AlertsAgree
  <2>6. \A t : Open(t)' = Open(t)
    BY <2>3 DEF Open
  <2>7. QED BY <1>0, <2>2, <2>3, <2>4, <2>5, <2>6 DEF AlertsAgree
<1>3. CASE Repeat(s, R)
  <2>1. CreateEvent(event, delivery, s, "repeat", R) /\ silent' = silent \ {s}
        /\ active' = [active EXCEPT ![s] = TRUE] /\ last' = [last EXCEPT ![s] = count + 1]
    BY <1>3 DEF Repeat, MarkActive
  <2>2. QED BY <1>0, <2>1, CreatedAlerts
<1>4. CASE \E send \in BOOLEAN : Recover(s, R, send)
  <2> DEFINE E == ClosedBy(s)
  <2>1. Resolved(E) \in [EventIds -> Rows] /\ Cancelled(E) \in [Jobs -> Dels]
    BY <1>0, ClosingTypes DEF IInv
  <2>2. \A e \in 1..count :
            e \in E <=> ~event[e].resolved /\ <<s, event[e].subject>> \in Like
    BY DEF ClosedBy
  <2>3. active' = [active EXCEPT ![s] = FALSE]
        /\ silent' = {t \in silent \cup Reached(s) : t # s}
    BY <1>4 DEF Recover
  <2>4. \/ /\ CreateEvent(Resolved(E), Cancelled(E), s, "recovery", R)
           /\ last' = [last EXCEPT ![s] = count + 1]
        \/ event' = Resolved(E) /\ last' = last /\ count' = count
    BY <1>4 DEF Recover
  <2> HIDE DEF E
  <2>5. \A e \in 1..count :
            /\ Resolved(E)[e].subject = event[e].subject
            /\ Resolved(E)[e].kind = event[e].kind
            /\ Resolved(E)[e].resolved <=> event[e].resolved \/ e \in E
    BY <1>0 DEF Resolved, Rows
  <2>6. \A e \in 1..count :
            Resolved(E)[e].resolved
              <=> event[e].resolved \/ <<s, event[e].subject>> \in Like
    BY <2>2, <2>5
  <2>7. \A t \in Subjects : t # s =>
            (t \in silent' <=> t \in silent \/ (active[t] /\ <<s, t>> \in Like))
    BY <2>3 DEF Reached
  <2>8. CASE CreateEvent(Resolved(E), Cancelled(E), s, "recovery", R)
             /\ last' = [last EXCEPT ![s] = count + 1]
    BY <2>1, <2>3, <2>5, <2>6, <2>7, <2>8, CreatedAlerts
  <2>9. CASE event' = Resolved(E) /\ last' = last /\ count' = count
    <3>1. ASSUME NEW t \in Subjects, t # s PROVE Agrees(t)'
      <4>1. Agrees(t) /\ active'[t] = active[t] /\ last'[t] = last[t]
        BY <1>0, <2>3, <2>9, <3>1 DEF AlertsAgree, Agrees
      <4>2. t \in silent' <=> t \in silent \/ (TRUE /\ active[t] /\ <<s, t>> \in Like)
        BY <2>7, <3>1
      <4>3. \A e \in 1..count :
                /\ event'[e].subject = event[e].subject
                /\ event'[e].kind = event[e].kind
                /\ event'[e].resolved
                     <=> event[e].resolved \/ (TRUE /\ <<s, event[e].subject>> \in Like)
        BY <2>5, <2>6, <2>9
      <4>4. /\ \A e \in 1..count' : e \in 1..count \/ event'[e].subject # t
            /\ count' \in Nat /\ count' >= count
        BY <1>0, <2>9
      <4>5. QED BY <1>0, <4>1, <4>2, <4>3, <4>4, OthersAgree
    <3>2. Agrees(s)'
      <4>1. \A e \in 1..count' : event'[e].subject = s => event'[e].resolved
        BY <2>5, <2>6, <2>9, LikeAssumption
      <4>2. Open(s)' = {} /\ ~active'[s]
        BY <1>0, <2>3, <4>1 DEF Open
      <4>3. QED BY <4>2 DEF Agrees
    <3>3. QED BY <3>1, <3>2 DEF AlertsAgree, Agrees
  <2>10. QED BY <2>4, <2>8, <2>9
<1>5. QED BY <1>1, <1>2, <1>3, <1>4 DEF Enqueue

\* An instant event is about no subject.
LEMMA InstantAlerts ==
    ASSUME HistoryInv, NEW R \in SUBSET Recipients, Instant(R)
    PROVE  AlertsAgree'
<1>0. /\ event \in [EventIds -> Rows] /\ delivery \in [Jobs -> Dels]
      /\ count \in Nat /\ IInv /\ AlertsAgree
  BY DEF HistoryInv, IInv, TypeOK, Rows, Dels
<1>1. CreateEvent(event, delivery, NoSubject, "instant", R)
      /\ active' = active /\ last' = last /\ silent' = silent
  BY DEF Instant, alertVars
<1>2. /\ count' = count + 1
      /\ \A e \in 1..count : event'[e] = event[e]
      /\ event'[count + 1].subject = NoSubject
  BY <1>0, <1>1, CreatedRows
<1>3. /\ \A e \in 1..count' : e \in 1..count \/ e = count + 1
      /\ count' \in Nat /\ count' >= count
  BY <1>0, <1>2
<1>4. ASSUME NEW t \in Subjects PROVE Agrees(t)'
  <2>1. Agrees(t)
    BY <1>0 DEF AlertsAgree, Agrees
  <2>2. \A e \in 1..count' : e \in 1..count \/ event'[e].subject # t
    BY <1>2, <1>3
  <2>3. t \in silent' <=> t \in silent \/ (FALSE /\ active[t] /\ <<t, t>> \in Like)
    BY <1>1
  <2>4. \A e \in 1..count :
            /\ event'[e].subject = event[e].subject
            /\ event'[e].kind = event[e].kind
            /\ event'[e].resolved
                 <=> event[e].resolved \/ (FALSE /\ <<t, event[e].subject>> \in Like)
    BY <1>2
  <2>5. QED BY <1>0, <1>1, <1>3, <2>1, <2>2, <2>3, <2>4, OthersAgree
<1>5. QED BY <1>4 DEF AlertsAgree, Agrees

-----------------------------------------------------------------------------
(* The history is true in every reachable state.                           *)

LEMMA InitHistory == Init => HistoryInv
<1> SUFFICES ASSUME Init PROVE HistoryInv OBVIOUS
<1>1. IInv
  BY InitIInv
<1>2. \A j \in Jobs : delivery[j].status = "none" /\ accepted[j] = 0
  BY DEF Init, NoDelivery
<1>3. doubts = 0 /\ faults = 0 /\ count = 0 /\ 1..count = {}
  BY DEF Init
<1>4. Counted /\ Owned /\ StaleOnlyInFlight
  BY <1>2, <1>3 DEF Counted, Owned, StaleOnlyInFlight, Live
<1>5. SummaryIsTrue
  BY <1>3 DEF SummaryIsTrue
<1>6. AlertsAgree
  BY <1>3 DEF Init, AlertsAgree, Open
<1>7. QED BY <1>1, <1>4, <1>5, <1>6 DEF HistoryInv

LEMMA StepHistory == HistoryInv /\ [Next]_vars => HistoryInv'
<1> SUFFICES ASSUME HistoryInv, [Next]_vars PROVE HistoryInv' OBVIOUS
<1> DEFINE Rest == Counted /\ Owned /\ SummaryIsTrue /\ StaleOnlyInFlight /\ AlertsAgree
<1>0. IInv'
  BY StepTypes, StepInFlight DEF HistoryInv, IInv
<1>w. ASSUME Counted', Owned', Worked, StaleOnlyInFlight' PROVE Rest'
  BY <1>w, WorkSummary, WorkAlerts
<1>t. ASSUME RowsTransacted, UNCHANGED <<workVars, outsideVars>>, AlertsAgree' PROVE Rest'
  BY <1>t, TransactCounted, TransactSummary, TransactStale
<1> SUFFICES Rest'
  BY <1>0 DEF HistoryInv
<1> HIDE DEF Rest
<1>1. ASSUME NEW s \in Subjects, NEW R \in SUBSET Recipients, Enqueue(s, R) PROVE Rest'
  <2>1. UNCHANGED <<workVars, outsideVars>>
    BY <1>1, EnqueueTransacts DEF HistoryInv, IInv
  <2>2. RowsTransacted /\ AlertsAgree'
    BY <1>1, EnqueueRows, EnqueueAlerts DEF HistoryInv
  <2>3. QED BY <2>1, <2>2, <1>t
<1>2. ASSUME NEW R \in SUBSET Recipients, Instant(R) PROVE Rest'
  <2>1. UNCHANGED <<workVars, outsideVars>>
    BY <1>2 DEF Instant
  <2>2. RowsTransacted /\ AlertsAgree'
    BY <1>2, InstantRows, InstantAlerts DEF HistoryInv
  <2>3. QED BY <2>1, <2>2, <1>t
<1>3. ASSUME UNCHANGED <<active, last, silent, rowVars, workVars, outsideVars>> PROVE Rest'
  <2>1. UNCHANGED <<active, last, silent, count, event, delivery, worker, job, accepted, doubts, faults>>
    BY <1>3 DEF rowVars, workVars, outsideVars
  <2>2. Counted' /\ Owned' /\ StaleOnlyInFlight'
    BY <2>1 DEF HistoryInv, Counted, Owned, StaleOnlyInFlight, Live
  <2>3. Worked
    BY <2>1 DEF Worked, workVars
  <2>4. QED BY <2>2, <2>3, <1>w
<1>4. CASE Start
  BY <1>4, <1>w, StartHistory
<1>u. 0 \in Nat /\ 1 \in Nat /\ 1 + 0 > 0 /\ 0 + 1 > 0
  OBVIOUS
<1>m. ASSUME UNCHANGED <<alertVars, rowVars, accepted>>
      PROVE  UNCHANGED <<active, last, silent, count, event, delivery, accepted>>
  BY <1>m DEF alertVars, rowVars
<1>5. CASE StartUnrecovered \/ DbFault
  <2>1. doubts' = doubts + 0 /\ faults' = faults + 1
        /\ UNCHANGED <<alertVars, rowVars, accepted>>
    BY <1>5, HistoryTyped DEF StartUnrecovered, DbFault
  <2>2. QED BY <2>1, <1>m, <1>u, <1>w, MoveHistory
<1>6. CASE Select
  <2>1. doubts' = doubts + 0 /\ faults' = faults + 0
        /\ UNCHANGED <<alertVars, rowVars, accepted>>
        /\ worker = "idle" /\ worker' = "claim"
    BY <1>6, HistoryTyped DEF Select, outsideVars
  <2>2. QED BY <2>1, <1>m, <1>u, <1>w, MoveHistory
<1>7. CASE Claim
  BY <1>7, <1>w, ClaimHistory
<1>8. CASE SendOK
  <2>1. /\ worker = "send" /\ job' = job
        /\ UNCHANGED <<active, last, silent, count, event, delivery, faults>>
        /\ doubts' = doubts + 0
        /\ accepted' = [accepted EXCEPT ![job] = @ + 1]
        /\ worker' = "accepted"
    BY <1>8, HistoryTyped DEF SendOK, alertVars, rowVars
  <2>2. QED BY <2>1, <1>u, <1>w, AcceptHistory
<1>9. CASE SendFails
  <2>1. worker = "send" /\ worker' = "rejected" /\ job' = job
        /\ UNCHANGED <<active, last, silent, count, event, delivery, faults>>
    BY <1>9 DEF SendFails, alertVars, rowVars
  <2>2. CASE UNCHANGED <<accepted, doubts>>
    <3>1. doubts' = doubts + 0 /\ faults' = faults + 0
      BY <2>1, <2>2, HistoryTyped
    <3>2. QED BY <2>1, <2>2, <3>1, <1>u, <1>w, MoveHistory
  <2>3. CASE doubts' = doubts + 1 /\ accepted' = [accepted EXCEPT ![job] = @ + 1]
    BY <2>1, <2>3, <1>u, <1>w, AcceptHistory
  <2>4. QED BY <1>9, <2>2, <2>3 DEF SendFails
<1>10. CASE RecordDelivered
  <2> DEFINE d == [status |-> "delivered", attempts |-> delivery[job].attempts + 1, due |-> FALSE]
  <2>1. job \in Jobs /\ delivery[job].attempts <= MaxRetry
    BY <1>10, HistoryTyped DEF RecordDelivered, InFlight, Live
  <2>2. d \in Dels /\ d.status = "delivered"
    BY <2>1, HistoryTyped DEF Dels, DeliveryStatuses
  <2>3. SetDelivery(job, d) /\ worker = "accepted" /\ worker' = "status" /\ job' = job
        /\ UNCHANGED <<active, last, silent, count, event, accepted, doubts, faults>>
    BY <1>10 DEF RecordDelivered, alertVars, outsideVars
  <2> HIDE DEF d
  <2>4. QED BY <2>2, <2>3, <1>w, RecordHistory
<1>11. CASE RecordFailure
  <2>0. PICK retryCount \in RetryCounts :
            SetDelivery(job, [status |-> IF GivesUp(delivery[job].attempts + 1, retryCount)
                                         THEN "failed" ELSE "pending",
                              attempts |-> delivery[job].attempts + 1, due |-> FALSE])
    BY <1>11 DEF RecordFailure
  <2> DEFINE n == delivery[job].attempts + 1
             d == [status |-> IF GivesUp(n, retryCount) THEN "failed" ELSE "pending",
                   attempts |-> n, due |-> FALSE]
  <2>1. job \in Jobs /\ delivery[job].attempts <= MaxRetry
    BY <1>11, HistoryTyped DEF RecordFailure, InFlight, Live
  <2>2. d \in Dels /\ d.status \in {"pending", "failed"} /\ d.attempts > 0
    BY <2>1, HistoryTyped DEF Dels, DeliveryStatuses
  <2>3. SetDelivery(job, d) /\ worker = "rejected" /\ worker' = "status" /\ job' = job
        /\ UNCHANGED <<active, last, silent, count, event, accepted, doubts, faults>>
    BY <1>11, <2>0 DEF RecordFailure, alertVars, outsideVars
  <2> HIDE DEF d
  <2>4. QED BY <2>2, <2>3, <1>w, RecordHistory
<1>12. CASE UpdateStatus
  BY <1>12, UpdateHistory DEF Rest
<1>13. CASE Stop
  <2>1. doubts' = doubts + 1 /\ faults' = faults + 0
        /\ UNCHANGED <<alertVars, rowVars, accepted>>
    BY <1>13, HistoryTyped DEF Stop
  <2>2. QED BY <2>1, <1>m, <1>u, <1>w, MoveHistory
<1>14. ASSUME NEW j \in Jobs, BackoffEnds(j) PROVE Rest'
  BY <1>14, <1>w, BackoffHistory
<1>15. QED
  <2>1. ASSUME NEW s \in Subjects, Elapse(s)
        PROVE  UNCHANGED <<active, last, silent, rowVars, workVars, outsideVars>>
    BY <2>1 DEF Elapse
  <2>2. ASSUME UNCHANGED vars
        PROVE  UNCHANGED <<active, last, silent, rowVars, workVars, outsideVars>>
    BY <2>2 DEF vars, alertVars
  <2>3. QED
    BY <1>1, <1>2, <1>3, <1>4, <1>5, <1>6, <1>7, <1>8, <1>9, <1>10, <1>11, <1>12,
       <1>13, <1>14, <2>1, <2>2 DEF Next, ProcessOnce

\* The history, the alert states and the counts of what was sent agree in every
\* reachable state.
THEOREM HistoryInvariance == Spec => []HistoryInv
<1>1. QED BY InitHistory, StepHistory, PTL DEF Spec

\* A message is repeated only over a stop of the panel, a lost answer or a failed
\* statement.
THEOREM DuplicatesAreExcused == Spec => []NoNeedlessDuplicate
<1>1. HistoryInv => NoNeedlessDuplicate BY DEF HistoryInv, Counted, NoNeedlessDuplicate
<1>2. QED BY HistoryInvariance, <1>1, PTL

\* The status of an event is what its deliveries say.
THEOREM HistoryIsTrue == Spec => []SummaryIsTrue
<1>1. HistoryInv => SummaryIsTrue BY DEF HistoryInv
<1>2. QED BY HistoryInvariance, <1>1, PTL

\* An alert outlives its recovery only if it was being sent when that came.
THEOREM StaleAlertsWereInFlight == Spec => []StaleOnlyInFlight
<1>1. HistoryInv => StaleOnlyInFlight BY DEF HistoryInv
<1>2. QED BY HistoryInvariance, <1>1, PTL

\* The alert states agree with the events.
THEOREM AlertStatesAgree == Spec => []AlertsAgree
<1>1. HistoryInv => AlertsAgree BY DEF HistoryInv
<1>2. QED BY HistoryInvariance, <1>1, PTL
=============================================================================
