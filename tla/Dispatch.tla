------------------------------ MODULE Dispatch -----------------------------
(***************************************************************************)
(* Assigning drivers to deliveries: modules/dispatch/service.py and        *)
(* tasks.py, on top of Deliveries.                                         *)
(*                                                                         *)
(* A request reads, decides, and commits later; so does the worker, which  *)
(* goes through a list of pending deliveries it read at the start.  Who    *)
(* commits in between is not looked at again.  Of a driver only the status *)
(* matters here; update_driver sets it to anything, starting and ending a  *)
(* shift to two of the values.                                             *)
(***************************************************************************)
EXTENDS Deliveries

CONSTANTS
  Driver,           \* ids of drivers
  Request,          \* requests that may be open at a time
  Staff,            \* those of dispatchers; drivers only report statuses
  MaxAssignments,   \* bounds the rows of table assignments
  MaxCrashes        \* bounds how often the worker dies

ASSUME DispatchAssumption ==
  /\ IsFiniteSet(Delivery)
  /\ IsFiniteSet(Request)
  /\ Staff \subseteq Request
  /\ MaxAssignments \in Nat \ {0}
  /\ MaxCrashes \in Nat

AssignmentId == 1..MaxAssignments

VARIABLES
  drivers,          \* the status of each driver
  assignments,      \* the rows of table assignments
  request,          \* what each open request has decided
  todo,             \* the listed deliveries the worker has still to look at
  chosen,           \* the delivery and driver the worker has decided on
  crashes,          \* how often it died
  doubled           \* history: deliveries two requests insert for at a time,
                    \* or an assignment of which was opened again

dispatchVars == <<drivers, assignments, request, todo, chosen, crashes, doubled>>
vars == <<deliveryVars, dispatchVars>>

DriverStatus == {"offline", "available", "on_break"}

\* "active" stands for offered and accepted, "closed" for the other statuses.
NoAssignment == [status |-> "none"]
AssignmentRow == [status : {"active", "closed"}, delivery : Delivery, driver : Driver]

Idle == [op |-> "none"]

\* What a request has decided: for a status change the target, for an assignment
\* the driver, and the rows it will close.
RequestRow ==
  [op : {"status"}, delivery : Delivery, target : DeliveryStatus]
    \cup [op : {"assign", "reassign"}, delivery : Delivery, driver : Driver, old : SUBSET AssignmentId]
    \cup [op : {"unassign"}, delivery : Delivery, old : SUBSET AssignmentId]

\* One type invariant: the tables, the requests and the worker.
TypeOK ==
  /\ DeliveriesTypeOK
  /\ drivers \in [Driver -> DriverStatus]
  /\ assignments \in [AssignmentId -> AssignmentRow \cup {NoAssignment}]
  /\ request \in [Request -> RequestRow \cup {Idle}]
  /\ todo \subseteq Delivery
  /\ chosen = Idle \/ chosen \in [delivery : Delivery, driver : Driver]
  /\ crashes \in 0..MaxCrashes
  /\ doubled \subseteq Delivery

Init ==
  /\ DeliveriesInit
  /\ drivers = [v \in Driver |-> "offline"]
  /\ assignments = [a \in AssignmentId |-> NoAssignment]
  /\ request = [r \in Request |-> Idle]
  /\ todo = {}
  /\ chosen = Idle
  /\ crashes = 0
  /\ doubled = {}

-----------------------------------------------------------------------------
(* The rows.                                                                *)

Active(d) ==
  {a \in AssignmentId : assignments[a].status = "active" /\ assignments[a].delivery = d}

Unused == {a \in AssignmentId : assignments[a] = NoAssignment}

\* The drivers rank_candidates looks at.  Distance, load and capacity make any
\* of them the first.
Candidates == {v \in Driver : drivers[v] \notin {"offline", "on_break"}}

\* Who is about to insert an assignment for a delivery.
Inserting(d) ==
  Cardinality({r \in Request : request[r].op \in {"assign", "reassign"} /\ request[r].delivery = d})
    + (IF chosen # Idle /\ chosen.delivery = d THEN 1 ELSE 0)

\* The rows of old are closed and an offered one inserted, as the next row.
InsertAssignment(d, v, old) ==
  \E next \in Unused :
    /\ \A a \in Unused : next <= a
    /\ assignments' = [a \in AssignmentId |->
         IF a = next THEN [status |-> "active", delivery |-> d, driver |-> v]
         ELSE IF a \in old THEN [assignments[a] EXCEPT !.status = "closed"]
         ELSE assignments[a]]
    /\ doubled' = IF Inserting(d) > 1 THEN doubled \cup {d} ELSE doubled

-----------------------------------------------------------------------------
(* Requests: what is read and decided.                                      *)

Decides(r, row) ==
  /\ request[r] = Idle
  /\ request' = [request EXCEPT ![r] = row]
  /\ UNCHANGED <<deliveryVars, drivers, assignments, todo, chosen, crashes, doubled>>

\* transition_delivery; for staff also cancel_delivery and reschedule_delivery.
StartStatus(r, d, target) ==
  /\ deliveries[d] # "none"
  /\ \/ target \in TransitionTargets(deliveries[d])
     \/ r \in Staff /\ target \in StaffTargets(deliveries[d])
  /\ Decides(r, [op |-> "status", delivery |-> d, target |-> target])

\* Mutant: assign does not look for an active assignment.
StartAssignAnyway(r, d, v) ==
  /\ deliveries[d] \in {"pending", "rescheduled"}
  /\ Decides(r, [op |-> "assign", delivery |-> d, driver |-> v, old |-> {}])

\* assign, up to the choice of a driver: the one asked for, or a candidate.
StartAssign(r, d, v) ==
  /\ deliveries[d] \in {"pending", "rescheduled"}
  /\ Active(d) = {}
  /\ Decides(r, [op |-> "assign", delivery |-> d, driver |-> v, old |-> {}])

\* reassign: one active row is replaced if there is any; the status of the
\* delivery does not matter.
StartReassign(r, d, v, old) ==
  /\ deliveries[d] # "none"
  /\ IF Active(d) = {} THEN old = {} ELSE \E a \in Active(d) : old = {a}
  /\ Decides(r, [op |-> "reassign", delivery |-> d, driver |-> v, old |-> old])

\* unassign: all active rows.
StartUnassign(r, d) ==
  /\ deliveries[d] # "none"
  /\ Decides(r, [op |-> "unassign", delivery |-> d, old |-> Active(d)])

-----------------------------------------------------------------------------
(* Requests: what is written.                                               *)

Ends(r) ==
  /\ request' = [request EXCEPT ![r] = Idle]
  /\ UNCHANGED <<drivers, todo, chosen, crashes>>

FinishStatus(r) ==
  /\ request[r].op = "status"
  /\ WriteStatus(request[r].delivery, request[r].target)
  /\ Ends(r)
  /\ UNCHANGED <<assignments, doubled>>

\* The driver is read last, and must not be offline.  The delivery itself is
\* left as it is.
FinishAssign(r) ==
  /\ request[r].op \in {"assign", "reassign"}
  /\ drivers[request[r].driver] # "offline"
  /\ InsertAssignment(request[r].delivery, request[r].driver, request[r].old)
  /\ Ends(r)
  /\ UNCHANGED deliveryVars

\* Refused for an offline driver; or the client is gone or the database fails.
Abort(r) ==
  /\ request[r] # Idle
  /\ Ends(r)
  /\ UNCHANGED <<deliveryVars, assignments, doubled>>

FinishUnassign(r) ==
  /\ request[r].op = "unassign"
  /\ assignments' = [a \in AssignmentId |->
       IF a \in request[r].old THEN [assignments[a] EXCEPT !.status = "closed"]
       ELSE assignments[a]]
  /\ Ends(r)
  /\ UNCHANGED <<deliveryVars, doubled>>

-----------------------------------------------------------------------------
(* Requests that write whatever they find.                                  *)

NewDelivery(d) ==
  /\ CreateDelivery(d)
  /\ UNCHANGED dispatchVars

\* update_assignment_status, from any status to any other.
UpdateAssignmentStatus(a, status) ==
  /\ assignments[a] # NoAssignment
  /\ assignments[a].status # status
  /\ assignments' = [assignments EXCEPT ![a].status = status]
  /\ doubled' = IF status = "active" THEN doubled \cup {assignments[a].delivery} ELSE doubled
  /\ UNCHANGED <<deliveryVars, drivers, request, todo, chosen, crashes>>

UpdateDriver(v, status) ==
  /\ drivers[v] # status
  /\ drivers' = [drivers EXCEPT ![v] = status]
  /\ UNCHANGED <<deliveryVars, assignments, request, todo, chosen, crashes, doubled>>

-----------------------------------------------------------------------------
(* auto_dispatch_pending, which beat starts every five minutes.             *)

AutoList ==
  /\ todo = {}
  /\ chosen = Idle
  /\ todo' = {d \in Delivery : deliveries[d] = "pending"}
  /\ todo' # {}
  /\ UNCHANGED <<deliveryVars, drivers, assignments, request, chosen, crashes, doubled>>

\* Mutant: a delivery that ever had an assignment is passed over.
AutoChooseOnce(d) ==
  /\ chosen = Idle
  /\ d \in todo
  /\ todo' = todo \ {d}
  /\ IF \E a \in AssignmentId \ Unused : assignments[a].delivery = d THEN UNCHANGED chosen
     ELSE IF Candidates = {} THEN UNCHANGED chosen
     ELSE \E v \in Candidates : chosen' = [delivery |-> d, driver |-> v]
  /\ UNCHANGED <<deliveryVars, drivers, assignments, request, crashes, doubled>>

\* The session holds the listed deliveries, so their status is the one that was
\* listed; only the assignments are looked up again.
AutoChoose(d) ==
  /\ chosen = Idle
  /\ d \in todo
  /\ todo' = todo \ {d}
  /\ IF Active(d) # {} \/ Candidates = {} THEN UNCHANGED chosen
     ELSE \E v \in Candidates : chosen' = [delivery |-> d, driver |-> v]
  /\ UNCHANGED <<deliveryVars, drivers, assignments, request, crashes, doubled>>

\* The rest of assign; what it raises is swallowed.
AutoAssign ==
  /\ chosen # Idle
  /\ IF drivers[chosen.driver] = "offline" THEN UNCHANGED <<assignments, doubled>>
     ELSE InsertAssignment(chosen.delivery, chosen.driver, {})
  /\ chosen' = Idle
  /\ UNCHANGED <<deliveryVars, drivers, request, todo, crashes>>

AutoCrash ==
  /\ crashes < MaxCrashes
  /\ todo # {} \/ chosen # Idle
  /\ crashes' = crashes + 1
  /\ todo' = {}
  /\ chosen' = Idle
  /\ UNCHANGED <<deliveryVars, drivers, assignments, request, doubled>>

AutoStep == AutoList \/ (\E d \in Delivery : AutoChoose(d)) \/ AutoAssign

-----------------------------------------------------------------------------
StartStep(r) ==
  \E d \in Delivery :
    \/ \E target \in DeliveryStatus : StartStatus(r, d, target)
    \/ /\ r \in Staff
       /\ \/ \E v \in Driver : StartAssign(r, d, v)
          \/ \E v \in Driver, old \in SUBSET AssignmentId : StartReassign(r, d, v, old)
          \/ StartUnassign(r, d)

FinishStep(r) == FinishStatus(r) \/ FinishAssign(r) \/ FinishUnassign(r) \/ Abort(r)

DirectStep ==
  \/ \E d \in Delivery : NewDelivery(d)
  \/ \E a \in AssignmentId, status \in {"active", "closed"} : UpdateAssignmentStatus(a, status)
  \/ \E v \in Driver, status \in DriverStatus : UpdateDriver(v, status)

Next ==
  \/ \E r \in Request : StartStep(r) \/ FinishStep(r)
  \/ DirectStep
  \/ AutoStep
  \/ AutoCrash

\* The task is started again and again, as celery_beat.py has it, in a process
\* that has loaded that schedule; nobody has to send a request.
Spec == Init /\ [][Next]_vars /\ WF_vars(AutoStep)

-----------------------------------------------------------------------------
(* Properties.                                                              *)

\* A delivery has at most one active assignment, unless two inserts for it were
\* under way at a time (two dispatchers, or one and the worker), or staff opened
\* a closed one again: the checks of assign, the one row reassign replaces and
\* the list of the worker leave no other way, whatever is cancelled, unassigned
\* or rescheduled meanwhile.
OneActiveAssignment ==
  \A d \in Delivery \ doubled : Cardinality(Active(d)) <= 1

Waiting(d) == deliveries[d] = "pending" /\ Active(d) = {}

\* A pending delivery nobody drives is assigned by the worker in the end,
\* however often its assignments were rejected or withdrawn, as long as there
\* is a candidate (and, here, a row left for it).
PendingIsDispatched ==
  \A d \in Delivery :
    Waiting(d) ~> ~Waiting(d) \/ Candidates = {} \/ Unused = {}
=============================================================================
