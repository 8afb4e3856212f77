-------------------------- MODULE NotificationQueue --------------------------
(***************************************************************************)
(* The notification queue (notifications.Service) of one rule.  Callers    *)
(* Enqueue alerts and recoveries about subjects, each in one transaction;  *)
(* one worker takes the due deliveries in order of id, claims each, sends  *)
(* it to Telegram and records the outcome, every step a statement of its   *)
(* own.  The panel may stop between any two of them.                       *)
(*                                                                         *)
(* Times are kept as what they decide: `quiet` says that a repeat interval *)
(* or a cooldown has not passed, `due` that a backoff has.  The rule, its  *)
(* recipients and their switches are read inside the transaction and can   *)
(* be edited between any two, so their values are chosen there; and so is  *)
(* retry_count where an attempt is judged by it.  An Enqueue that a        *)
(* disabled rule, `quiet` or an inactive alert stops changes nothing and   *)
(* is no action.                                                           *)
(***************************************************************************)
EXTENDS Integers, FiniteSets

CONSTANTS Subjects,     \* the objects the rule's alerts are about
          NoSubject,    \* the subject of an instant event
          Like,         \* <<s, t>>: the dedup keys of t match `key of s%`
          Recipients,   \* the ids of the Telegram recipients
          MaxRetry,     \* the greatest retry_count the panel accepts, 10 in the code
          MaxEvents,    \* bound: rows of notification_events
          MaxDoubts,    \* bound: stops of the panel and lost answers
          MaxFaults     \* bound: statements of the worker that fail

ASSUME SubjectsAssumption == NoSubject \notin Subjects
ASSUME LikeAssumption ==
    /\ Like \subseteq Subjects \X Subjects
    /\ \A s \in Subjects : <<s, s>> \in Like
ASSUME RecipientsAssumption == Recipients \subseteq Nat
ASSUME BoundsAssumption ==
    /\ MaxRetry \in Nat
    /\ MaxEvents \in Nat
    /\ MaxDoubts \in Nat
    /\ MaxFaults \in Nat

VARIABLES
    active,     \* per subject: the alert state's active column
    quiet,      \* per subject: repeat interval or cooldown not yet over
    last,       \* per subject: last_event_id, 0 for NULL
    silent,     \* auxiliary: the subjects whose alert was never written (RaiseAgain)
                \* or was closed by the recovery of another subject
    count,      \* how many events there are; they are numbered from 1
    event,      \* notification_events
    delivery,   \* notification_deliveries, by event and recipient
    worker,     \* the step the worker is at
    job,        \* the delivery it works on
    accepted,   \* how many messages of a delivery Telegram accepted
    doubts,     \* stops of the panel and answers lost so far
    faults      \* statements of the worker that failed so far

alertVars == <<active, quiet, last, silent>>
rowVars == <<count, event, delivery>>
workVars == <<worker, job>>
outsideVars == <<accepted, doubts, faults>>
vars == <<alertVars, rowVars, workVars, outsideVars>>

RetryCounts == 0..MaxRetry
EventIds == 1..MaxEvents
Jobs == EventIds \X Recipients
Kinds == {"none", "alert", "repeat", "recovery", "instant"}
EventStatuses == {"none", "pending", "skipped", "delivered", "failed", "resolved"}
DeliveryStatuses == {"none", "pending", "sending", "delivered", "failed", "cancelled"}
WorkerSteps == {"down", "idle", "claim", "send", "accepted", "rejected", "status"}

NoEvent == [subject |-> NoSubject, kind |-> "none", status |-> "none", resolved |-> FALSE]
NoJob == <<0, 0>>
NoDelivery == [status |-> "none", attempts |-> 0, due |-> FALSE]

Init ==
    /\ active = [s \in Subjects |-> FALSE]
    /\ quiet = [s \in Subjects |-> FALSE]
    /\ last = [s \in Subjects |-> 0]
    /\ silent = {}
    /\ count = 0
    /\ event = [e \in EventIds |-> NoEvent]
    /\ delivery = [j \in Jobs |-> NoDelivery]
    /\ worker = "down"
    /\ job = NoJob
    /\ accepted = [j \in Jobs |-> 0]
    /\ doubts = 0
    /\ faults = 0

-----------------------------------------------------------------------------
(* Enqueue.                                                                *)

\* createDeliveries: a pending delivery for each recipient R the rule reaches.
CreateDeliveries(dels, R) ==
    [j \in Jobs |-> IF j[1] = count + 1 /\ j[2] \in R
                    THEN [status |-> "pending", attempts |-> 0, due |-> TRUE]
                    ELSE dels[j]]

\* createEvent: row count + 1 of `rows` with its deliveries; skipped if nobody is
\* reached.
CreateEvent(rows, dels, s, kind, R) ==
    /\ count < MaxEvents
    /\ count' = count + 1
    /\ event' = [rows EXCEPT ![count + 1] =
                    [subject |-> s, kind |-> kind,
                     status |-> IF R = {} THEN "skipped" ELSE "pending",
                     resolved |-> kind = "recovery"]]
    /\ delivery' = CreateDeliveries(dels, R)

\* The events that carry the dedup key of s's first alert; the key stays taken.
FirstAlerts(s) == {e \in 1..count : event[e].subject = s /\ event[e].kind = "alert"}

MarkActive(s, e) ==
    /\ active' = [active EXCEPT ![s] = TRUE]
    /\ quiet' = [quiet EXCEPT ![s] = TRUE]
    /\ last' = [last EXCEPT ![s] = e]

\* A new problem whose dedup key is free.
RaiseFirst(s, R) ==
    /\ ~active[s]
    /\ ~quiet[s]
    /\ FirstAlerts(s) = {}
    /\ CreateEvent(event, delivery, s, "alert", R)
    /\ MarkActive(s, count + 1)
    /\ silent' = silent \ {s}
    /\ UNCHANGED <<workVars, outsideVars>>

\* A new problem whose dedup key an earlier problem took: the insert does
\* nothing, the old event is loaded in its place and no delivery is created.
RaiseAgain(s) ==
    /\ ~active[s]
    /\ ~quiet[s]
    /\ \E e \in FirstAlerts(s) : MarkActive(s, e)
    /\ silent' = silent \cup {s}
    /\ UNCHANGED <<rowVars, workVars, outsideVars>>

\* The problem is still there when the repeat interval is over.
Repeat(s, R) ==
    /\ active[s]
    /\ ~quiet[s]
    /\ CreateEvent(event, delivery, s, "repeat", R)
    /\ MarkActive(s, count + 1)
    /\ silent' = silent \ {s}
    /\ UNCHANGED <<workVars, outsideVars>>

\* Mutant: the recovery closes the last event only, not the alert it repeats.
ClosesLast(s) == {last[s]}

\* The unresolved events of the rule that a recovery of s closes.
ClosedBy(s) == {e \in 1..count : /\ ~event[e].resolved
                                 /\ <<s, event[e].subject>> \in Like}

\* The active subjects whose alerts a recovery of s closes.
Reached(s) == {t \in Subjects : active[t] /\ <<s, t>> \in Like}

Resolved(E) == [e \in EventIds |-> IF e \in E
                                   THEN [event[e] EXCEPT !.status = "resolved",
                                                         !.resolved = TRUE]
                                   ELSE event[e]]

\* Mutant: the deliveries of the closed events stay.
CancelledNone(E) == delivery

\* Mutant: a delivery that is being sent is cancelled too.
CancelledAll(E) == [j \in Jobs |-> IF j[1] \in E /\ delivery[j].status \in {"pending", "sending"}
                                   THEN [delivery[j] EXCEPT !.status = "cancelled"]
                                   ELSE delivery[j]]

\* The pending deliveries of the closed events are cancelled.
Cancelled(E) == [j \in Jobs |-> IF j[1] \in E /\ delivery[j].status = "pending"
                                THEN [delivery[j] EXCEPT !.status = "cancelled"]
                                ELSE delivery[j]]

\* The problem is over; `send` is the rule's send_recovery.
Recover(s, R, send) ==
    /\ active[s]
    /\ active' = [active EXCEPT ![s] = FALSE]
    /\ quiet' = [quiet EXCEPT ![s] = TRUE]
    /\ silent' = {t \in silent \cup Reached(s) : t # s}
    /\ \/ /\ send
          /\ CreateEvent(Resolved(ClosedBy(s)), Cancelled(ClosedBy(s)), s, "recovery", R)
          /\ last' = [last EXCEPT ![s] = count + 1]
       \/ /\ ~send
          /\ event' = Resolved(ClosedBy(s))
          /\ delivery' = Cancelled(ClosedBy(s))
          /\ UNCHANGED <<last, count>>
    /\ UNCHANGED <<workVars, outsideVars>>

\* A one-shot event: its dedup key is new each time and it has no alert state.
Instant(R) ==
    /\ CreateEvent(event, delivery, NoSubject, "instant", R)
    /\ UNCHANGED <<alertVars, workVars, outsideVars>>

\* The repeat interval or the cooldown of s is over.
Elapse(s) ==
    /\ quiet[s]
    /\ quiet' = [quiet EXCEPT ![s] = FALSE]
    /\ UNCHANGED <<active, last, silent, rowVars, workVars, outsideVars>>

-----------------------------------------------------------------------------
(* The worker.                                                             *)

SetDelivery(j, d) == delivery' = [delivery EXCEPT ![j] = d]

\* ProcessOnce returns, or the panel stops: the delivery at hand is forgotten.
Leave(step) ==
    /\ worker' = step
    /\ job' = NoJob

\* Mutant: what was being sent when the panel stopped is left as it is.
RecoverNothing(d) == d

\* What RecoverInFlight makes of a row.
RecoverRow(d) == IF d.status = "sending"
                 THEN [d EXCEPT !.status = "pending", !.due = TRUE] ELSE d

\* The panel starts: RecoverInFlight, then the loop.
Start ==
    /\ worker = "down"
    /\ worker' = "idle"
    /\ delivery' = [j \in Jobs |-> RecoverRow(delivery[j])]
    /\ UNCHANGED <<alertVars, count, event, job, outsideVars>>

\* The panel starts and RecoverInFlight fails: its error is dropped.
StartUnrecovered ==
    /\ worker = "down"
    /\ faults < MaxFaults
    /\ worker' = "idle"
    /\ faults' = faults + 1
    /\ UNCHANGED <<alertVars, rowVars, job, accepted, doubts>>

IsDue(j) == delivery[j].status = "pending" /\ delivery[j].due

Before(i, j) == i[1] < j[1] \/ (i[1] = j[1] /\ i[2] < j[2])

\* The due delivery with the smallest id is read.
Select ==
    /\ worker = "idle"
    /\ \E j \in Jobs :
        /\ IsDue(j)
        /\ \A i \in Jobs : IsDue(i) => ~Before(i, j)
        /\ job' = j
    /\ worker' = "claim"
    /\ UNCHANGED <<alertVars, rowVars, outsideVars>>

\* Mutant: the delivery is claimed whatever has become of it since Select.
ClaimUnchecked ==
    /\ worker = "claim"
    /\ SetDelivery(job, [delivery[job] EXCEPT !.status = "sending"])
    /\ worker' = "send"
    /\ UNCHANGED <<alertVars, count, event, job, outsideVars>>

\* The delivery is marked as being sent, unless a recovery cancelled it first.
Claim ==
    /\ worker = "claim"
    /\ \/ /\ delivery[job].status = "pending"
          /\ SetDelivery(job, [delivery[job] EXCEPT !.status = "sending"])
          /\ worker' = "send"
          /\ UNCHANGED job
       \/ /\ delivery[job].status # "pending"
          /\ Leave("idle")
          /\ UNCHANGED delivery
    /\ UNCHANGED <<alertVars, count, event, outsideVars>>

\* Telegram accepts the message and its answer arrives.
SendOK ==
    /\ worker = "send"
    /\ worker' = "accepted"
    /\ accepted' = [accepted EXCEPT ![job] = @ + 1]
    /\ UNCHANGED <<alertVars, rowVars, job, doubts, faults>>

\* Send returns an error: Telegram is switched off, refuses or is not reached, or
\* it has accepted the message and the answer is lost.
SendFails ==
    /\ worker = "send"
    /\ worker' = "rejected"
    /\ \/ UNCHANGED <<accepted, doubts>>
       \/ /\ doubts < MaxDoubts
          /\ doubts' = doubts + 1
          /\ accepted' = [accepted EXCEPT ![job] = @ + 1]
    /\ UNCHANGED <<alertVars, rowVars, job, faults>>

\* Mutant: an accepted message is put back into the queue.
RecordRetried ==
    /\ worker = "accepted"
    /\ worker' = "status"
    /\ SetDelivery(job, [delivery[job] EXCEPT !.status = "pending", !.due = TRUE])
    /\ UNCHANGED <<alertVars, count, event, job, outsideVars>>

RecordDelivered ==
    /\ worker = "accepted"
    /\ worker' = "status"
    /\ SetDelivery(job, [status |-> "delivered", attempts |-> delivery[job].attempts + 1,
                         due |-> FALSE])
    /\ UNCHANGED <<alertVars, count, event, job, outsideVars>>

\* Mutant: the last attempt is compared by equality, and a lowered setting passed by.
GivesUpAt(attempts, retryCount) == attempts = retryCount + 1

GivesUp(attempts, retryCount) == attempts > retryCount

\* The attempt is counted; the delivery waits for its backoff or has failed.  The
\* setting is read for each attempt and may have been raised or lowered since the last.
RecordFailure ==
    /\ worker = "rejected"
    /\ worker' = "status"
    /\ \E retryCount \in RetryCounts :
          LET n == delivery[job].attempts + 1
          IN  SetDelivery(job, [status |-> IF GivesUp(n, retryCount) THEN "failed"
                                           ELSE "pending",
                                attempts |-> n, due |-> FALSE])
    /\ UNCHANGED <<alertVars, count, event, job, outsideVars>>

Has(e, statuses) == \E j \in Jobs : j[1] = e /\ delivery[j].status \in statuses

\* Mutant: one failed delivery fails the event while another is still to come.
SummaryFailsFirst(e) == IF Has(e, {"failed"}) THEN "failed"
                        ELSE IF Has(e, {"pending", "sending"}) THEN "pending"
                        ELSE "delivered"

\* What updateEventStatus makes of the deliveries of e.
Summary(e) == IF Has(e, {"pending", "sending"}) THEN "pending"
              ELSE IF Has(e, {"failed"}) THEN "failed"
              ELSE "delivered"

\* updateEventStatus: a resolved event stays resolved.  Its counts and its update
\* are one step: only a recovery could come between, and that resolves the event.
UpdateStatus ==
    /\ worker = "status"
    /\ Leave("idle")
    /\ event' = [event EXCEPT ![job[1]].status =
                    IF @ = "resolved" THEN @ ELSE Summary(job[1])]
    /\ UNCHANGED <<alertVars, count, delivery, outsideVars>>

\* A statement of ProcessOnce fails after Select, or one of its reads after
\* Claim: it returns the error, and the loop goes on with the next delivery.
DbFault ==
    /\ worker \notin {"down", "idle"}
    /\ faults < MaxFaults
    /\ faults' = faults + 1
    /\ Leave("idle")
    /\ UNCHANGED <<alertVars, rowVars, accepted, doubts>>

\* The panel stops, by a crash or a restart.
Stop ==
    /\ worker # "down"
    /\ doubts < MaxDoubts
    /\ doubts' = doubts + 1
    /\ Leave("down")
    /\ UNCHANGED <<alertVars, rowVars, accepted, faults>>

\* The backoff of a delivery is over.
BackoffEnds(j) ==
    /\ delivery[j].status = "pending"
    /\ ~delivery[j].due
    /\ SetDelivery(j, [delivery[j] EXCEPT !.due = TRUE])
    /\ UNCHANGED <<alertVars, count, event, workVars, outsideVars>>

-----------------------------------------------------------------------------
Enqueue(s, R) == \/ RaiseFirst(s, R)
                 \/ RaiseAgain(s)
                 \/ Repeat(s, R)
                 \/ \E send \in BOOLEAN : Recover(s, R, send)

\* ProcessOnce when every statement succeeds.
ProcessOnce == \/ Select \/ Claim \/ SendOK \/ SendFails
               \/ RecordDelivered \/ RecordFailure \/ UpdateStatus

Next ==
    \/ \E s \in Subjects, R \in SUBSET Recipients : Enqueue(s, R)
    \/ \E R \in SUBSET Recipients : Instant(R)
    \/ \E s \in Subjects : Elapse(s)
    \/ Start \/ StartUnrecovered \/ ProcessOnce \/ DbFault \/ Stop
    \/ \E j \in Jobs : BackoffEnds(j)

Spec == Init /\ [][Next]_vars

\* systemd restarts the panel, the loop ticks, Send has a timeout, time passes.
Fairness ==
    /\ WF_vars(Start)
    /\ WF_vars(ProcessOnce)
    /\ \A j \in Jobs : WF_vars(BackoffEnds(j))

FairSpec == Spec /\ Fairness

-----------------------------------------------------------------------------
(* Properties.                                                             *)

\* Type invariant.  A delivery is tried at most once more than the greatest retry_count
\* allows, however often the setting is edited between its attempts.
TypeOK ==
    /\ active \in [Subjects -> BOOLEAN]
    /\ quiet \in [Subjects -> BOOLEAN]
    /\ last \in [Subjects -> 0..MaxEvents]
    /\ silent \subseteq Subjects
    /\ count \in 0..MaxEvents
    /\ event \in [EventIds -> [subject : Subjects \cup {NoSubject}, kind : Kinds,
                               status : EventStatuses, resolved : BOOLEAN]]
    /\ delivery \in [Jobs -> [status : DeliveryStatuses, attempts : 0..(MaxRetry + 1),
                              due : BOOLEAN]]
    /\ worker \in WorkerSteps
    /\ job \in Jobs \cup {NoJob}
    /\ accepted \in [Jobs -> Nat]
    /\ doubts \in 0..MaxDoubts
    /\ faults \in 0..MaxFaults

Live(j) == delivery[j].status \in {"pending", "sending"}

\* A recipient gets a message twice only over a stop of the panel, a lost answer
\* or a failed statement: retries and restarts never repeat a message whose
\* outcome was recorded (ProcessOnce, RecoverInFlight).
NoNeedlessDuplicate == \A j \in Jobs : accepted[j] <= 1 + doubts + faults

\* The status the history page shows for an event agrees with its deliveries: a
\* delivered event has none that failed or is still to be sent, a failed one has
\* a failed one and none to be sent, and, unless a statement failed or the panel
\* stopped, a pending one still has a delivery the worker will come to.
SummaryIsTrue ==
    \A e \in 1..count :
        /\ event[e].status = "delivered" => ~Has(e, {"pending", "sending", "failed"})
        /\ event[e].status = "failed" => Has(e, {"failed"}) /\ ~Has(e, {"pending", "sending"})
        /\ event[e].status = "pending" /\ doubts + faults = 0
               => \/ Has(e, {"pending", "sending"})
                  \/ worker = "status" /\ job[1] = e

\* The events that are shown as open for s.
Open(s) == {e \in 1..count : event[e].subject = s /\ ~event[e].resolved}

\* A subject has an open event exactly while its alert is active, and then the last one
\* it points at is open and its own.  Only two things leave an active subject without
\* one: its alert was never written because an earlier one took the key, or the recovery
\* of another subject closed it (Enqueue and enqueueRecovery keep two tables in step).
AlertsAgree ==
    \A s \in Subjects :
        /\ Open(s) # {} => active[s] /\ s \notin silent
        /\ active[s] => /\ last[s] \in 1..count
                        /\ event[last[s]].subject = s
                        /\ event[last[s]].kind \in {"alert", "repeat"}
        /\ active[s] /\ s \notin silent => last[s] \in Open(s)

\* After a recovery an alert can still go out only if it was being sent when the
\* recovery came: it has been tried once, or the panel stopped or failed on it.
StaleOnlyInFlight ==
    \A j \in Jobs :
        /\ delivery[j].status = "pending"
        /\ event[j[1]].resolved
        /\ event[j[1]].kind # "recovery"
        => delivery[j].attempts > 0 \/ doubts + faults > 0

\* While a message is being sent its delivery belongs to the worker alone, though
\* the claim is a mere status in the database: no recovery, restart or Enqueue
\* settles it or hands it out again (Claim, Cancelled, RecoverInFlight).  A delivery
\* that is live was tried no more often than the greatest retry_count.
InFlight ==
    /\ worker \notin {"down", "idle"} => job \in Jobs
    /\ worker \in {"send", "accepted", "rejected"} => delivery[job].status = "sending"
    /\ worker = "accepted" => accepted[job] > 0
    /\ \A j \in Jobs :
        /\ delivery[j].status # "none" => j[1] <= count
        /\ Live(j) => delivery[j].attempts <= MaxRetry

\* What a delivery's status means to the outbox.
StateOf(status) == CASE status = "none" -> "absent"
                     [] status \in {"pending", "sending"} -> "waiting"
                     [] OTHER -> status

Outbox == INSTANCE NotificationOutbox WITH
    state <- [j \in Jobs |-> StateOf(delivery[j].status)]

\* The queue implements the outbox: a settled delivery is never sent again and
\* only what Telegram accepted counts as delivered, whatever the order of claims,
\* recoveries, stops and restarts.
ImplementsOutbox == Outbox!Spec

\* Every delivery is settled in the end, over stops of the panel, failures of Telegram
\* and edits of retry_count, if no statement of the worker fails: RecoverInFlight returns what was
\* being sent to the queue, and backoff and retry count let no delivery hold up
\* the ones behind it.
DeliveriesSettle ==
    [](faults = 0) => \A j \in Jobs : Live(j) ~> ~Live(j)

\* "two containers failing at once produce two alerts and two independent
\* recoveries" (007_monitoring.sql:1-2): an event is resolved only by a recovery
\* of the subject it is about.
RecoveriesIndependent ==
    [][\A e \in 1..count :
           ~event[e].resolved /\ event'[e].resolved => ~active'[event[e].subject]]_vars

\* "event after cooldown was not emitted" (service_test.go:134-136): a subject that
\* becomes active again after its recovery and cooldown has a new event.
NewProblemIsEmitted ==
    [][\A s \in Subjects : ~active[s] /\ active'[s] => count' = count + 1]_vars
=============================================================================
