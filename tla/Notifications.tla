--------------------------- MODULE Notifications ---------------------------
(***************************************************************************)
(* Notifications (modules/notifications) and the Celery tasks that create  *)
(* and send them, under the life a task has there (core/celery_app.py): it *)
(* waits in a queue, runs on one of the workers, and is acknowledged when  *)
(* it is over, so that a task whose worker is lost is queued again.        *)
(*                                                                         *)
(* No code of the repository sends these tasks; whoever does is external.  *)
(* The console providers never fail, so that no delivery comes to be       *)
(* "failed".  What is read of a notification, the limit of 50 and the      *)
(* order in which deliveries are listed are left out.                      *)
(***************************************************************************)
EXTENDS Naturals, FiniteSets

CONSTANTS
  NotificationId,   \* primary keys
  Dispatch,         \* messages of dispatch_notification
  Sweep,            \* messages of process_deliveries
  Outbound,         \* messages of Dispatch whose channel is not inapp
  Workers,          \* processes of the pool
  MaxRetries,       \* of dispatch_notification
  MaxLost,          \* bounds the workers that are lost
  Nobody            \* the actor of a request, and no notification

ASSUME NotificationsAssumption ==
  /\ Dispatch \cap Sweep = {}
  /\ Outbound \subseteq Dispatch
  /\ Workers \in Nat /\ MaxRetries \in Nat /\ MaxLost \in Nat
  /\ Nobody \notin Dispatch \cup NotificationId

VARIABLES
  task,           \* state of each message; committed: running, its notification is there
  retries,        \* of each message of Dispatch
  lost,           \* workers lost so far
  notifications,  \* the table, with the status of the delivery of an outbound one
  todo,           \* per sweep, the deliveries it has listed and not sent
  sending,        \* per sweep, the delivery the provider has taken, not yet marked
  sent,           \* per notification, the calls of the provider, counted to 2
  repeated        \* history: messages and notifications that something ran for twice

vars == <<task, retries, lost, notifications, todo, sending, sent, repeated>>

None == [status |-> "none"]

Task == Dispatch \cup Sweep

Running == {t \in Task : task[t] \in {"running", "committed"}}

Pending == {n \in NotificationId : notifications[n].status = "pending"}

CreatedBy(d) == {n \in NotificationId : notifications[n] # None /\ notifications[n].by = d}

\* One type invariant: the pool is never exceeded, and only a running sweep has
\* anything at hand.
TypeOK ==
  /\ task \in [Task -> {"unsent", "queued", "running", "committed", "over"}]
  /\ Cardinality(Running) <= Workers
  /\ retries \in [Dispatch -> 0..MaxRetries]
  /\ lost \in 0..MaxLost
  /\ notifications \in [NotificationId ->
       {None} \cup [status : {"inapp", "pending", "sent"}, by : Dispatch \cup {Nobody}]]
  /\ todo \in [Sweep -> SUBSET NotificationId]
  /\ sending \in [Sweep -> NotificationId \cup {Nobody}]
  /\ \A s \in Sweep : s \notin Running => todo[s] = {} /\ sending[s] = Nobody
  /\ \A d \in Dispatch : task[d] = "committed" => CreatedBy(d) # {}
  /\ sent \in [NotificationId -> 0..2]
  /\ repeated \subseteq Dispatch \cup NotificationId

Init ==
  /\ task = [t \in Task |-> "unsent"]
  /\ retries = [d \in Dispatch |-> 0]
  /\ lost = 0
  /\ notifications = [n \in NotificationId |-> None]
  /\ todo = [s \in Sweep |-> {}]
  /\ sending = [s \in Sweep |-> Nobody]
  /\ sent = [n \in NotificationId |-> 0]
  /\ repeated = {}

-----------------------------------------------------------------------------
(* The life of a message.                                                   *)

messages == <<task, retries, lost>>
sweeps == <<todo, sending, sent>>

Becomes(t, state) == task' = [task EXCEPT ![t] = state]

Send(t) ==
  /\ task[t] = "unsent"
  /\ Becomes(t, "queued")
  /\ UNCHANGED <<retries, lost, notifications, sweeps, repeated>>

Free == Cardinality(Running) < Workers

\* Mutant: a lost sweep goes on where it stopped.
KeepsList(t) ==
  /\ sending' = [s \in Sweep |-> IF s = t THEN Nobody ELSE sending[s]]
  /\ UNCHANGED <<todo, notifications, sent>>

\* All that a sweep has at hand is dropped with it; what the provider has taken
\* stays pending.
Drops(t) ==
  /\ todo' = [s \in Sweep |-> IF s = t THEN {} ELSE todo[s]]
  /\ sending' = [s \in Sweep |-> IF s = t THEN Nobody ELSE sending[s]]
  /\ UNCHANGED <<notifications, sent>>

Unmarked(t) == {n \in NotificationId : t \in Sweep /\ sending[t] = n}

Committed(t) == {d \in Dispatch : d = t /\ task[d] = "committed"}

\* acks_late and reject_on_worker_lost.
LoseWorker(t) ==
  /\ lost < MaxLost
  /\ t \in Running
  /\ Becomes(t, "queued")
  /\ lost' = lost + 1
  /\ Drops(t)
  /\ repeated' = repeated \cup Unmarked(t) \cup Committed(t)
  /\ UNCHANGED retries

-----------------------------------------------------------------------------
(* dispatch_notification, and POST /notifications.                          *)

\* One commit for both rows.
Insert(n, outbound, by) ==
  /\ notifications[n] = None
  /\ notifications' =
       [notifications EXCEPT ![n] = [status |-> IF outbound THEN "pending" ELSE "inapp", by |-> by]]

CreateNotification(n) ==
  /\ \E outbound \in BOOLEAN : Insert(n, outbound, Nobody)
  /\ UNCHANGED <<messages, sweeps, repeated>>

StartDispatch(d) ==
  /\ task[d] = "queued"
  /\ Free
  /\ Becomes(d, "running")
  /\ UNCHANGED <<retries, lost, notifications, sweeps, repeated>>

DispatchNotification(d) ==
  /\ task[d] = "running"
  /\ \E n \in NotificationId : Insert(n, d \in Outbound, d)
  /\ Becomes(d, "committed")
  /\ UNCHANGED <<retries, lost, sweeps, repeated>>

Acknowledge(d) ==
  /\ task[d] = "committed"
  /\ Becomes(d, "over")
  /\ UNCHANGED <<retries, lost, notifications, sweeps, repeated>>

\* The database fails, before the commit or in the refresh that follows it.
Retry(d) ==
  /\ d \in Running
  /\ IF retries[d] < MaxRetries
     THEN /\ Becomes(d, "queued")
          /\ retries' = [retries EXCEPT ![d] = @ + 1]
          /\ repeated' = repeated \cup Committed(d)
     ELSE /\ Becomes(d, "over")
          /\ UNCHANGED <<retries, repeated>>
  /\ UNCHANGED <<lost, notifications, sweeps>>

-----------------------------------------------------------------------------
(* process_deliveries.                                                      *)

\* What the running sweeps have listed.
AtHand == UNION {todo[s] : s \in Sweep}

\* Mutant: the list is not restricted to pending deliveries.
StartSweepOfAll(s) ==
  /\ task[s] = "queued"
  /\ Free
  /\ Becomes(s, "running")
  /\ todo' = [todo EXCEPT ![s] = {n \in NotificationId : notifications[n].status \in {"pending", "sent"}}]
  /\ repeated' = repeated \cup (Pending \cap AtHand)
  /\ UNCHANGED <<retries, lost, notifications, sending, sent>>

\* No lock is taken on what is listed.
StartSweep(s) ==
  /\ task[s] = "queued"
  /\ Free
  /\ Becomes(s, "running")
  /\ todo' = [todo EXCEPT ![s] = Pending]
  /\ repeated' = repeated \cup (Pending \cap AtHand)
  /\ UNCHANGED <<retries, lost, notifications, sending, sent>>

CallProvider(s) ==
  /\ sending[s] = Nobody
  /\ \E n \in todo[s] :
       /\ sending' = [sending EXCEPT ![s] = n]
       /\ sent' = [sent EXCEPT ![n] = IF @ = 2 THEN 2 ELSE @ + 1]
  /\ UNCHANGED <<messages, notifications, todo, repeated>>

\* The status is not looked at again.
MarkDeliverySent(s) ==
  /\ sending[s] # Nobody
  /\ notifications' = [notifications EXCEPT ![sending[s]].status = "sent"]
  /\ todo' = [todo EXCEPT ![s] = @ \ {sending[s]}]
  /\ sending' = [sending EXCEPT ![s] = Nobody]
  /\ UNCHANGED <<messages, sent, repeated>>

FinishSweep(s) ==
  /\ s \in Running
  /\ todo[s] = {}
  /\ Becomes(s, "over")
  /\ UNCHANGED <<retries, lost, notifications, sweeps, repeated>>

\* The database fails.  The handler marks the delivery with the session that has
\* failed, which fails again and ends the task; it is not retried.
AbandonSweep(s) ==
  /\ s \in Running
  /\ Becomes(s, "over")
  /\ Drops(s)
  /\ repeated' = repeated \cup Unmarked(s)
  /\ UNCHANGED <<retries, lost>>

-----------------------------------------------------------------------------
DispatchStep(d) ==
  StartDispatch(d) \/ DispatchNotification(d) \/ Acknowledge(d) \/ Retry(d)

SweepStep(s) ==
  StartSweep(s) \/ CallProvider(s) \/ MarkDeliverySent(s) \/ FinishSweep(s) \/ AbandonSweep(s)

Next ==
  \/ \E t \in Task : Send(t) \/ LoseWorker(t)
  \/ \E n \in NotificationId : CreateNotification(n)
  \/ \E d \in Dispatch : DispatchStep(d)
  \/ \E s \in Sweep : SweepStep(s)

Spec == Init /\ [][Next]_vars
-----------------------------------------------------------------------------
(* Properties.                                                              *)

\* What is shown as sent has been sent.  It has been sent once, and a message
\* has created one notification, unless two sweeps listed a delivery together,
\* or one ended between the provider and the mark, or a task was run again after
\* its commit.
SentOnce ==
  /\ \A n \in NotificationId :
       /\ notifications[n].status = "sent" => sent[n] # 0
       /\ n \notin repeated => sent[n] <= 1
  /\ \A d \in Dispatch \ repeated : Cardinality(CreatedBy(d)) <= 1
=============================================================================
