-------------------------- MODULE NotificationOutbox --------------------------
(***************************************************************************)
(* What the notification queue promises, without workers, statuses in a    *)
(* database, crashes or retries.  A job is one message for one recipient.  *)
(* Until it is settled it may be sent any number of times; it is settled   *)
(* as delivered only if the messenger accepted it, and once it is settled  *)
(* nothing is sent for it again.  NotificationQueue is shown to implement  *)
(* this module.                                                            *)
(***************************************************************************)
EXTENDS Naturals

CONSTANT Jobs

VARIABLES state,    \* absent, waiting, delivered, failed or cancelled
          accepted  \* how many messages of a job the messenger accepted

vars == <<state, accepted>>

In(s) == {j \in Jobs : state[j] = s}

Init ==
    /\ state = [j \in Jobs |-> "absent"]
    /\ accepted = [j \in Jobs |-> 0]

\* One transaction withdraws some waiting jobs and submits some new ones.
Transact(withdrawn, submitted) ==
    /\ withdrawn \subseteq In("waiting")
    /\ submitted \subseteq In("absent")
    /\ state' = [j \in Jobs |-> IF j \in withdrawn THEN "cancelled"
                                ELSE IF j \in submitted THEN "waiting"
                                ELSE state[j]]
    /\ UNCHANGED accepted

\* The messenger accepts a message of a waiting job.
Accept(j) ==
    /\ state[j] = "waiting"
    /\ accepted' = [accepted EXCEPT ![j] = @ + 1]
    /\ UNCHANGED state

Deliver(j) ==
    /\ state[j] = "waiting"
    /\ accepted[j] > 0
    /\ state' = [state EXCEPT ![j] = "delivered"]
    /\ UNCHANGED accepted

GiveUp(j) ==
    /\ state[j] = "waiting"
    /\ state' = [state EXCEPT ![j] = "failed"]
    /\ UNCHANGED accepted

Next ==
    \/ \E W, S \in SUBSET Jobs : Transact(W, S)
    \/ \E j \in Jobs : Accept(j) \/ Deliver(j) \/ GiveUp(j)

Spec == Init /\ [][Next]_vars
=============================================================================
