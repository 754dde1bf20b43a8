------------------------------- MODULE Outbox -------------------------------
(***************************************************************************)
(* The transactional outbox: core/events and worker/outbox.py.             *)
(*                                                                         *)
(* emit() adds a row to domain_events in the transaction that raises the   *)
(* event.  A worker fetches the oldest unpublished rows, publishes each to *)
(* its Redis channel and turns it into a notification, and at the end of   *)
(* the batch commits the notifications together with published_at.  Redis  *)
(* and the notification providers take part in no transaction.             *)
(***************************************************************************)
EXTENDS Naturals, Sequences, FiniteSets

CONSTANTS
  Event,          \* ids of domain events
  NotifyEvent,    \* those of a type in NOTIFY_EVENTS, with an organization
  OutboundEvent,  \* those whose template goes out through a provider
  TopicEvent,     \* those TOPIC_MAP has a channel for, with an organization
  Worker,         \* the outbox worker processes
  BatchSize,      \* batch_size of dispatch_once
  RedisFails,     \* may Redis refuse a publish?
  MaxCrashes      \* bounds the crashes of a behaviour

ASSUME OutboxAssumption ==
  /\ IsFiniteSet(Event)
  /\ NotifyEvent \subseteq Event
  /\ OutboundEvent \subseteq NotifyEvent
  /\ TopicEvent \subseteq Event
  /\ BatchSize \in Nat \ {0}
  /\ RedisFails \in BOOLEAN
  /\ MaxCrashes \in Nat

VARIABLES
  stamp,          \* created_at of the events raised so far, 0 for the others
  status,         \* where the row of an event is
  notifications,  \* per event, its rows in table notifications
  channel,        \* what Redis has been given to publish, in order
  sent,           \* per event, the calls of a notification provider
  batch,          \* the rows each worker has fetched
  todo,           \* those it has not consumed yet
  pushed,         \* has the worker published the next of them?
  crashes,        \* the crashes so far
  known           \* history: what was committed when an event was raised

vars == <<stamp, status, notifications, channel, sent, batch, todo, pushed, crashes, known>>

producerVars == <<stamp, known>>
workerVars   == <<batch, todo, pushed>>
effectVars   == <<notifications, channel, sent>>

\* "none": not raised yet, or rolled back; "open": the transaction that raised
\* it has flushed the row and not committed; "deleted": cleaned up.
TypeOK ==
  /\ stamp \in [Event -> 0..Cardinality(Event)]
  /\ status \in [Event -> {"none", "open", "unpublished", "published", "deleted"}]
  /\ notifications \in [Event -> Nat]
  /\ channel \in Seq(TopicEvent)
  /\ sent \in [Event -> Nat]
  /\ batch \in [Worker -> SUBSET Event]
  /\ todo \in [Worker -> SUBSET Event]
  /\ pushed \in [Worker -> BOOLEAN]
  /\ crashes \in 0..MaxCrashes
  /\ known \in [Event -> SUBSET Event]

Init ==
  /\ stamp = [e \in Event |-> 0]
  /\ status = [e \in Event |-> "none"]
  /\ notifications = [e \in Event |-> 0]
  /\ channel = <<>>
  /\ sent = [e \in Event |-> 0]
  /\ batch = [w \in Worker |-> {}]
  /\ todo = [w \in Worker |-> {}]
  /\ pushed = [w \in Worker |-> FALSE]
  /\ crashes = 0
  /\ known = [e \in Event |-> {}]

-----------------------------------------------------------------------------
(* The transactions that raise events.                                      *)

Raised == {e \in Event : stamp[e] # 0}

Unpublished == {e \in Event : status[e] = "unpublished"}

Committed == {e \in Event : status[e] \in {"unpublished", "published", "deleted"}}

\* emit, up to the flush that evaluates the default of created_at.
Emit(e) ==
  /\ stamp[e] = 0
  /\ stamp' = [stamp EXCEPT ![e] = Cardinality(Raised) + 1]
  /\ status' = [status EXCEPT ![e] = "open"]
  /\ known' = [known EXCEPT ![e] = Committed]
  /\ UNCHANGED <<effectVars, workerVars, crashes>>

CommitEmit(e) ==
  /\ status[e] = "open"
  /\ status' = [status EXCEPT ![e] = "unpublished"]
  /\ UNCHANGED <<producerVars, effectVars, workerVars, crashes>>

RollbackEmit(e) ==
  /\ status[e] = "open"
  /\ status' = [status EXCEPT ![e] = "none"]
  /\ UNCHANGED <<producerVars, effectVars, workerVars, crashes>>

-----------------------------------------------------------------------------
(* dispatch_once.                                                           *)

\* The result of a query with a LIMIT.
Limited(first, rows, limit) ==
  Cardinality(first) = IF Cardinality(rows) < limit THEN Cardinality(rows) ELSE limit

\* Mutant: the ORDER BY is descending.
Latest(first, rows, limit) ==
  /\ Limited(first, rows, limit)
  /\ \A e \in first, f \in rows \ first : stamp[e] > stamp[f]

\* ORDER BY created_at LIMIT batch_size.
Oldest(first, rows, limit) ==
  /\ Limited(first, rows, limit)
  /\ \A e \in first, f \in rows \ first : stamp[e] < stamp[f]

Fetch(w) ==
  /\ batch[w] = {}
  /\ Unpublished # {}
  /\ \E first \in SUBSET Unpublished :
       /\ Oldest(first, Unpublished, BatchSize)
       /\ batch' = [batch EXCEPT ![w] = first]
       /\ todo' = [todo EXCEPT ![w] = first]
  /\ UNCHANGED <<producerVars, status, effectVars, pushed, crashes>>

\* The event of the loop's current iteration.
IsCurrent(w, e) == e \in todo[w] /\ \A f \in todo[w] : stamp[e] <= stamp[f]

\* Mutant: every event is published, whatever TOPIC_MAP says.
PublishAll(w) ==
  /\ ~pushed[w]
  /\ \E e \in Event : IsCurrent(w, e) /\ channel' = Append(channel, e)
  /\ pushed' = [pushed EXCEPT ![w] = TRUE]
  /\ UNCHANGED <<producerVars, status, notifications, sent, batch, todo, crashes>>

\* publish(), which swallows what Redis raises.
Publish(w) ==
  /\ ~pushed[w]
  /\ \E e \in Event :
       /\ IsCurrent(w, e)
       /\ \/ e \in TopicEvent /\ channel' = Append(channel, e)
          \/ (e \in TopicEvent => RedisFails) /\ UNCHANGED channel
  /\ pushed' = [pushed EXCEPT ![w] = TRUE]
  /\ UNCHANGED <<producerVars, status, notifications, sent, batch, todo, crashes>>

\* handle_event: the notification is part of the open transaction, the call of
\* the provider is not.
Consume(w) ==
  /\ pushed[w]
  /\ \E e \in Event :
       /\ IsCurrent(w, e)
       /\ todo' = [todo EXCEPT ![w] = @ \ {e}]
       /\ sent' = [sent EXCEPT ![e] = IF e \in OutboundEvent THEN @ + 1 ELSE @]
  /\ pushed' = [pushed EXCEPT ![w] = FALSE]
  /\ UNCHANGED <<producerVars, status, notifications, channel, batch, crashes>>

\* Mutants of Mark: what is marked is everything unpublished, not the batch; the
\* notifications of the batch are not part of its commit; nothing is marked.
MarkAs(w, marked, notifying) ==
  /\ batch[w] # {}
  /\ todo[w] = {}
  /\ status' = [e \in Event |-> IF e \in marked /\ status[e] = "unpublished"
                                THEN "published" ELSE status[e]]
  /\ notifications' = [e \in Event |-> IF e \in notifying \cap NotifyEvent
                                       THEN notifications[e] + 1 ELSE notifications[e]]
  /\ batch' = [batch EXCEPT ![w] = {}]
  /\ UNCHANGED <<producerVars, channel, sent, todo, pushed, crashes>>
MarkEverything(w) == MarkAs(w, Event, batch[w])
MarkWithoutNotifying(w) == MarkAs(w, batch[w], {})
MarkNothing(w) == MarkAs(w, {}, batch[w])

\* mark_published: one commit for the batch, its notifications included.  A row
\* that was cleaned up meanwhile is not found again.
Mark(w) ==
  /\ batch[w] # {}
  /\ todo[w] = {}
  /\ status' = [e \in Event |-> IF e \in batch[w] /\ status[e] = "unpublished"
                                THEN "published" ELSE status[e]]
  /\ notifications' = [e \in Event |-> IF e \in batch[w] \cap NotifyEvent
                                       THEN notifications[e] + 1 ELSE notifications[e]]
  /\ batch' = [batch EXCEPT ![w] = {}]
  /\ UNCHANGED <<producerVars, channel, sent, todo, pushed, crashes>>

\* The process dies, or the database fails and the loop starts over.
Crash(w) ==
  /\ crashes < MaxCrashes
  /\ batch[w] # {}
  /\ crashes' = crashes + 1
  /\ batch' = [batch EXCEPT ![w] = {}]
  /\ todo' = [todo EXCEPT ![w] = {}]
  /\ pushed' = [pushed EXCEPT ![w] = FALSE]
  /\ UNCHANGED <<producerVars, status, effectVars>>

-----------------------------------------------------------------------------
(* cleanup_old_domain_events: published rows older than a cutoff.           *)

CleanUp(cutoff) ==
  LET old == {e \in Event : status[e] = "published" /\ stamp[e] < cutoff}
  IN  /\ old # {}
      /\ status' = [e \in Event |-> IF e \in old THEN "deleted" ELSE status[e]]
      /\ UNCHANGED <<producerVars, effectVars, workerVars, crashes>>

-----------------------------------------------------------------------------
ProducerStep == \E e \in Event : Emit(e) \/ CommitEmit(e) \/ RollbackEmit(e)

WorkerStep(w) == Fetch(w) \/ Publish(w) \/ Consume(w) \/ Mark(w)

Next ==
  \/ ProducerStep
  \/ \E w \in Worker : WorkerStep(w) \/ Crash(w)
  \/ \E cutoff \in 2..(Cardinality(Event) + 1) : CleanUp(cutoff)

\* The worker's loop goes on as long as its process runs; it catches what an
\* iteration raises and starts over.
Spec ==
  /\ Init
  /\ [][Next]_vars
  /\ \A w \in Worker : WF_vars(WorkerStep(w))

-----------------------------------------------------------------------------
(* Properties.                                                              *)

Delivery == INSTANCE EventDelivery WITH
  accepted <- Committed,
  consumed <- {e \in Event : status[e] \in {"published", "deleted"}},
  notified <- notifications

\* One worker keeps the promise of the outbox: an event is accepted by the
\* transaction that raised it, consumed once and for good, and one that asks
\* for a notification has exactly one, whatever dies on the way.
KeepsDelivery == Delivery!DeliverySpec

\* Every committed event is consumed in the end: the oldest rows come first,
\* and a batch that was cut short is fetched again.
CommittedIsConsumed == Delivery!AcceptedIsConsumed

Pushes(e) == Cardinality({i \in 1..Len(channel) : channel[i] = e})

\* While Redis accepts what it is given, an event is done only when its channel
\* has had it and the provider was called for it; and each of these happens
\* again only after a crash.
AtLeastOnce ==
  \A e \in Event :
    /\ status[e] \in {"published", "deleted"} =>
         /\ e \in TopicEvent /\ ~RedisFails => Pushes(e) >= 1
         /\ e \in OutboundEvent => sent[e] >= 1
    /\ Cardinality(Worker) = 1 =>
         Pushes(e) <= 1 + crashes /\ sent[e] <= 1 + crashes

\* A channel sees causes before effects: an event that was committed when
\* another was raised is on the channel before it, the first time around,
\* whatever batches and crashes come between.
CausesComeFirst ==
  \A i \in 1..Len(channel) : \A e \in known[channel[i]] \cap TopicEvent :
    \E j \in 1..(i - 1) : channel[j] = e
=============================================================================
