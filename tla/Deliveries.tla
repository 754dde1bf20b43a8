---------------------------- MODULE Deliveries -----------------------------
(***************************************************************************)
(* Deliveries and their lifecycle: modules/deliveries/service.py.          *)
(*                                                                         *)
(* Every operation reads the status, decides by it, and later writes the   *)
(* new status with a history row.  This module says what may be decided    *)
(* and what is written; Dispatch lets other requests commit in between.    *)
(***************************************************************************)
EXTENDS Naturals, FiniteSets

CONSTANT Delivery    \* ids of deliveries

VARIABLES
  deliveries,        \* the status of each, "none" before it is created
  history            \* the statuses its history rows lead to

deliveryVars == <<deliveries, history>>

\* The edges of DELIVERY_TRANSITIONS, from a status to those it allows.
DELIVERY_TRANSITIONS ==
  [pending     |-> {"assigned", "cancelled"},
   assigned    |-> {"picked_up", "cancelled"},
   picked_up   |-> {"in_transit", "failed"},
   in_transit  |-> {"delivered", "failed"},
   delivered   |-> {},
   failed      |-> {"rescheduled", "returned"},
   rescheduled |-> {"assigned", "cancelled"},
   returned    |-> {},
   cancelled   |-> {}]

DeliveryStatus == DOMAIN DELIVERY_TRANSITIONS

FINAL_STATES == {"delivered", "returned", "cancelled"}

DeliveriesTypeOK ==
  /\ deliveries \in [Delivery -> DeliveryStatus \cup {"none"}]
  /\ history \in [Delivery -> SUBSET DeliveryStatus]

DeliveriesInit ==
  /\ deliveries = [d \in Delivery |-> "none"]
  /\ history = [d \in Delivery |-> {}]

\* Mutant: any status may follow any other.
AnyTarget(seen) == DeliveryStatus \ {seen}

\* What transition_delivery may write when it read the status seen.
TransitionTargets(seen) == DELIVERY_TRANSITIONS[seen]

\* What cancel_delivery and reschedule_delivery may write.
StaffTargets(seen) ==
  (IF seen \in FINAL_STATES THEN {} ELSE {"cancelled"})
    \cup (IF seen \in {"pending", "failed", "rescheduled"} THEN {"rescheduled"} ELSE {})

\* Mutant: a new delivery has a status the table does not know.
CreateDeliveryAsNew(d) ==
  /\ deliveries[d] = "none"
  /\ deliveries' = [deliveries EXCEPT ![d] = "created"]
  /\ history' = [history EXCEPT ![d] = {"created"}]

CreateDelivery(d) ==
  /\ deliveries[d] = "none"
  /\ deliveries' = [deliveries EXCEPT ![d] = "pending"]
  /\ history' = [history EXCEPT ![d] = {"pending"}]

\* The commit of an operation that has decided on its target: the row is
\* overwritten whatever it holds by now.
WriteStatus(d, target) ==
  /\ deliveries' = [deliveries EXCEPT ![d] = target]
  /\ history' = [history EXCEPT ![d] = @ \cup {target}]

-----------------------------------------------------------------------------
(* Properties.                                                              *)

\* The statuses on the way to a status that a delivery cannot be in without
\* having been in them.
MustHaveBeen ==
  [status \in DeliveryStatus |->
     CASE status \in {"pending", "assigned", "cancelled", "rescheduled"} -> {"pending"}
       [] status = "picked_up" -> {"pending", "assigned"}
       [] status \in {"in_transit", "failed"} -> {"pending", "assigned", "picked_up"}
       [] status = "delivered" -> {"pending", "assigned", "picked_up", "in_transit"}
       [] status = "returned" -> {"pending", "assigned", "picked_up", "failed"}]

\* What the history of a delivery cannot lack, however requests overtake each
\* other: it is not delivered unless it was assigned, picked up and in transit,
\* nor returned unless it failed after it was picked up.
NothingSkipped ==
  \A d \in Delivery : \A status \in history[d] : MustHaveBeen[status] \subseteq history[d]
=============================================================================
