--------------------------- MODULE EventDelivery ---------------------------
(***************************************************************************)
(* What the transactional outbox promises: a domain event is accepted with *)
(* the transaction that raised it, and an accepted event is consumed, once *)
(* and for good: a consumed event that asks for a notification has exactly *)
(* one.  How it gets there is the subject of Outbox.                       *)
(***************************************************************************)
EXTENDS Naturals

CONSTANTS
  Event,         \* ids of domain events
  NotifyEvent    \* those of them a notification is due for

VARIABLES
  accepted,      \* the events whose transaction committed
  consumed,      \* the accepted events that are done
  notified       \* per event, the notifications it led to

deliveryVars == <<accepted, consumed, notified>>

DeliveryInit ==
  /\ accepted = {}
  /\ consumed = {}
  /\ notified = [e \in Event |-> 0]

AcceptEvent(e) ==
  /\ e \notin accepted
  /\ accepted' = accepted \cup {e}
  /\ UNCHANGED <<consumed, notified>>

\* Events are consumed a batch at a time.
ConsumeEvents(batch) ==
  /\ batch # {}
  /\ batch \subseteq accepted \ consumed
  /\ consumed' = consumed \cup batch
  /\ notified' = [e \in Event |-> IF e \in batch \cap NotifyEvent
                                  THEN notified[e] + 1 ELSE notified[e]]
  /\ UNCHANGED accepted

DeliveryNext ==
  \/ \E e \in Event : AcceptEvent(e)
  \/ \E batch \in SUBSET Event : ConsumeEvents(batch)

DeliverySpec == DeliveryInit /\ [][DeliveryNext]_deliveryVars

\* No accepted event waits for ever.
AcceptedIsConsumed == \A e \in Event : e \in accepted ~> e \in consumed
=============================================================================
