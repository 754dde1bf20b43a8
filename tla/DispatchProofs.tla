--------------------------- MODULE DispatchProofs ---------------------------
(***************************************************************************)
(* Proofs about Dispatch, for any deliveries, drivers and requests: the    *)
(* lifecycle skips nothing, however the requests overtake each other, and  *)
(* only overlapping inserts or a reopened row give a delivery two drivers. *)
(***************************************************************************)
EXTENDS Dispatch, FiniteSetTheorems, TLAPS

\* The statuses a delivery has been in and those they presuppose.
Grounded(d, status) == MustHaveBeen[status] \subseteq history[d]

\* The strengthening that is inductive: a delivery has been in its present
\* status, one that was not created in none, and a request that is about to
\* write a status has read one that grounds it.
Lifecycle ==
  /\ deliveries \in [Delivery -> DeliveryStatus \cup {"none"}]
  /\ history \in [Delivery -> SUBSET DeliveryStatus]
  /\ NothingSkipped
  /\ \A d \in Delivery : IF deliveries[d] = "none" THEN history[d] = {}
                         ELSE deliveries[d] \in history[d]
  /\ DOMAIN request = Request
  /\ \A r \in Request : request[r].op = "status" =>
       /\ request[r].delivery \in Delivery
       /\ request[r].target \in DeliveryStatus
       /\ Grounded(request[r].delivery, request[r].target)

\* The statuses, written out.
LEMMA Statuses ==
  DeliveryStatus = {"pending", "assigned", "picked_up", "in_transit", "delivered",
                    "failed", "rescheduled", "returned", "cancelled"}
BY DEF DeliveryStatus, DELIVERY_TRANSITIONS

\* A target presupposes nothing but the status it is decided from and what that
\* one presupposes: the heart of the argument, by going through the table.
LEMMA TargetsAreGrounded ==
  ASSUME NEW seen \in DeliveryStatus,
         NEW target \in DeliveryStatus,
         target \in TransitionTargets(seen) \/ target \in StaffTargets(seen)
  PROVE  MustHaveBeen[target] \subseteq MustHaveBeen[seen] \cup {seen}
BY Statuses DEF TransitionTargets, StaffTargets, DELIVERY_TRANSITIONS, MustHaveBeen, FINAL_STATES

\* What a step that leaves deliveries and requests alone preserves.
LEMMA LifecycleKept ==
  ASSUME Lifecycle, UNCHANGED <<deliveryVars, request>>
  PROVE  Lifecycle'
BY DEF Lifecycle, NothingSkipped, Grounded, deliveryVars

LEMMA LifecycleInit == Init => Lifecycle
BY Statuses DEF Init, DeliveriesInit, Lifecycle, NothingSkipped, Idle

LEMMA LifecycleStep == Lifecycle /\ [Next]_vars => Lifecycle'
<1> SUFFICES ASSUME Lifecycle, [Next]_vars PROVE Lifecycle'
    OBVIOUS
<1>1. CASE UNCHANGED vars
    BY <1>1, LifecycleKept DEF vars, dispatchVars
<1>2. ASSUME NEW r \in Request, NEW d \in Delivery, NEW target \in DeliveryStatus,
             StartStatus(r, d, target)
      PROVE  Lifecycle'
    <2>1. deliveries[d] \in DeliveryStatus /\ deliveries[d] \in history[d]
        BY <1>2 DEF StartStatus, Lifecycle
    <2>2. MustHaveBeen[target] \subseteq MustHaveBeen[deliveries[d]] \cup {deliveries[d]}
        BY <1>2, <2>1, TargetsAreGrounded DEF StartStatus
    <2>3. MustHaveBeen[target] \subseteq history[d]
        BY <2>1, <2>2 DEF Lifecycle, NothingSkipped
    <2>4. /\ request' = [request EXCEPT ![r] = [op |-> "status", delivery |-> d, target |-> target]]
          /\ UNCHANGED deliveryVars
        BY <1>2 DEF StartStatus, Decides
    <2> QED
        BY <2>3, <2>4 DEF Lifecycle, NothingSkipped, Grounded, deliveryVars
<1>3. ASSUME NEW r \in Request, NEW row, Decides(r, row), row.op # "status"
      PROVE  Lifecycle'
    BY <1>3 DEF Decides, Lifecycle, NothingSkipped, Grounded, deliveryVars
<1>4. ASSUME NEW r \in Request, FinishStatus(r)
      PROVE  Lifecycle'
    <2> DEFINE d == request[r].delivery
               target == request[r].target
    <2>1. d \in Delivery /\ target \in DeliveryStatus /\ MustHaveBeen[target] \subseteq history[d]
        BY <1>4 DEF FinishStatus, Lifecycle, Grounded
    <2>2. /\ deliveries' = [deliveries EXCEPT ![d] = target]
          /\ history' = [history EXCEPT ![d] = @ \cup {target}]
          /\ request' = [request EXCEPT ![r] = Idle]
        BY <1>4 DEF FinishStatus, WriteStatus, Ends
    <2>3. \A e \in Delivery : history[e] \subseteq history'[e]
        BY <2>1, <2>2 DEF Lifecycle
    <2>4. NothingSkipped'
        BY <2>1, <2>2, <2>3 DEF Lifecycle, NothingSkipped
    <2>5. ASSUME NEW q \in Request, request'[q].op = "status"
          PROVE  /\ request'[q].delivery \in Delivery
                 /\ request'[q].target \in DeliveryStatus
                 /\ Grounded(request[q].delivery, request[q].target)'
        <3>1. q # r /\ request'[q] = request[q]
            BY <2>2, <2>5 DEF Lifecycle, Idle
        <3>2. /\ request[q].delivery \in Delivery
              /\ request[q].target \in DeliveryStatus
              /\ Grounded(request[q].delivery, request[q].target)
            BY <3>1, <2>5 DEF Lifecycle
        <3>3. history[request[q].delivery] \subseteq history'[request[q].delivery]
            BY <3>2, <2>3
        <3> QED
            BY <3>1, <3>2, <3>3 DEF Grounded
    <2>6. /\ deliveries' \in [Delivery -> DeliveryStatus \cup {"none"}]
          /\ history' \in [Delivery -> SUBSET DeliveryStatus]
          /\ DOMAIN request' = Request
        BY <2>1, <2>2 DEF Lifecycle
    <2>7. \A e \in Delivery : IF deliveries'[e] = "none" THEN history'[e] = {}
                             ELSE deliveries'[e] \in history'[e]
        BY <2>1, <2>2, Statuses DEF Lifecycle
    <2> QED
        BY <2>4, <2>5, <2>6, <2>7 DEF Lifecycle
<1>5. ASSUME NEW r \in Request, Ends(r), UNCHANGED deliveryVars
      PROVE  Lifecycle'
    BY <1>5 DEF Ends, Lifecycle, NothingSkipped, Grounded, deliveryVars, Idle
<1>6. ASSUME NEW d \in Delivery, NewDelivery(d)
      PROVE  Lifecycle'
    <2>1. /\ deliveries' = [deliveries EXCEPT ![d] = "pending"]
          /\ history' = [history EXCEPT ![d] = {"pending"}]
          /\ request' = request
          /\ deliveries[d] = "none"
        BY <1>6 DEF NewDelivery, CreateDelivery, dispatchVars
    <2>2. MustHaveBeen["pending"] = {"pending"} /\ "pending" \in DeliveryStatus
        BY Statuses DEF MustHaveBeen
    <2>3. NothingSkipped'
        BY <2>1, <2>2 DEF Lifecycle, NothingSkipped
    <2>4. \A status \in DeliveryStatus : "pending" \in MustHaveBeen[status]
        BY Statuses DEF MustHaveBeen
    <2>5. ASSUME NEW q \in Request, request[q].op = "status"
          PROVE  Grounded(request[q].delivery, request[q].target)'
        <3>1. /\ request[q].delivery \in Delivery
              /\ MustHaveBeen[request[q].target] \subseteq history[request[q].delivery]
              /\ "pending" \in MustHaveBeen[request[q].target]
            BY <2>4, <2>5 DEF Lifecycle, Grounded
        <3>2. request[q].delivery # d
            BY <3>1, <2>1 DEF Lifecycle
        <3> QED
            BY <3>1, <3>2, <2>1 DEF Lifecycle, Grounded
    <2> QED
        BY <2>1, <2>2, <2>3, <2>5 DEF Lifecycle
<1>7. ASSUME NEW r \in Request, StartStep(r)
      PROVE  Lifecycle'
    <2>1. PICK d \in Delivery :
            \/ \E target \in DeliveryStatus : StartStatus(r, d, target)
            \/ \E v \in Driver : StartAssign(r, d, v)
            \/ \E v \in Driver, old \in SUBSET AssignmentId : StartReassign(r, d, v, old)
            \/ StartUnassign(r, d)
        BY <1>7 DEF StartStep
    <2>2. CASE \E target \in DeliveryStatus : StartStatus(r, d, target)
        BY <2>2, <1>2
    <2>3. CASE \E v \in Driver : StartAssign(r, d, v)
        BY <2>3, <1>3 DEF StartAssign
    <2>4. CASE \E v \in Driver, old \in SUBSET AssignmentId : StartReassign(r, d, v, old)
        BY <2>4, <1>3 DEF StartReassign
    <2>5. CASE StartUnassign(r, d)
        BY <2>5, <1>3 DEF StartUnassign
    <2> QED
        BY <2>1, <2>2, <2>3, <2>4, <2>5
<1>8. ASSUME NEW r \in Request, FinishStep(r)
      PROVE  Lifecycle'
    BY <1>8, <1>4, <1>5 DEF FinishStep, FinishAssign, FinishUnassign, Abort
<1>9. CASE DirectStep
    <2>1. CASE \E d \in Delivery : NewDelivery(d)
        BY <2>1, <1>6
    <2>2. CASE ~\E d \in Delivery : NewDelivery(d)
        BY <1>9, <2>2, LifecycleKept DEF DirectStep, UpdateAssignmentStatus, UpdateDriver
    <2> QED
        BY <2>1, <2>2
<1>10. CASE AutoStep \/ AutoCrash
    BY <1>10, LifecycleKept DEF AutoStep, AutoList, AutoChoose, AutoAssign, AutoCrash
<1> QED
    BY <1>1, <1>7, <1>8, <1>9, <1>10 DEF Next

\* However many dispatchers and drivers act on a delivery, and however their
\* requests overtake each other, a delivery is not delivered unless it was
\* assigned, picked up and in transit, nor returned unless it failed.
THEOREM NothingIsSkipped == Spec => []NothingSkipped
<1>1. Lifecycle => NothingSkipped
    BY DEF Lifecycle
<1> QED
    BY <1>1, LifecycleInit, LifecycleStep, PTL DEF Spec

-----------------------------------------------------------------------------
(* Assignments.                                                             *)

Inserts(r, d) == request[r].op \in {"assign", "reassign"} /\ request[r].delivery = d

ChosenFor(d) == chosen # Idle /\ chosen.delivery = d

\* The rows a request is about to close are rows of the table, and stay so.
OldAreRows ==
  \A r \in Request : request[r].op \in {"assign", "reassign", "unassign"} =>
    \A a \in request[r].old : assignments[a] # NoAssignment

Typed == TypeOK /\ OldAreRows

\* The strengthening of OneActiveAssignment: as long as no two inserts for a
\* delivery overlapped, whoever is about to insert for it closes every
\* assignment that is active, for none has become active since it looked.
Guarded ==
  \A d \in Delivery \ doubled :
    /\ \A a, b \in Active(d) : a = b
    /\ \A r \in Request : Inserts(r, d) => Active(d) \subseteq request[r].old
    /\ ChosenFor(d) => Active(d) = {}

\* Nobody else inserts for a delivery when the count of those who do is one.
LEMMA AloneInserting ==
  ASSUME NEW d, ~(Inserting(d) > 1)
  PROVE  /\ \A q, r \in Request : Inserts(q, d) /\ Inserts(r, d) => q = r
         /\ \A r \in Request : ~(Inserts(r, d) /\ ChosenFor(d))
<1> DEFINE S == {r \in Request : request[r].op \in {"assign", "reassign"} /\ request[r].delivery = d}
<1>1. IsFiniteSet(S)
    BY DispatchAssumption, FS_Subset
<1>2. Cardinality(S) \in Nat
    BY <1>1, FS_CardinalityType
<1>3. Inserting(d) = Cardinality(S) + (IF ChosenFor(d) THEN 1 ELSE 0)
    BY DEF Inserting, ChosenFor
<1>4. Cardinality(S) <= 1 /\ (ChosenFor(d) => Cardinality(S) = 0)
    BY <1>2, <1>3
<1>5. ASSUME NEW q \in S, NEW r \in S, q # r
      PROVE  FALSE
    <2>1. Cardinality({q, r}) = 2
        <3>1. Cardinality({q} \cup {r}) = Cardinality({q}) + 1
            BY <1>5, FS_Singleton, FS_AddElement
        <3> QED
            BY <3>1, FS_Singleton
    <2>2. Cardinality({q, r}) <= Cardinality(S)
        BY <1>1, FS_Subset
    <2> QED
        BY <2>1, <2>2, <1>4, <1>2
<1>6. ChosenFor(d) => S = {}
    BY <1>1, <1>4, FS_EmptySet
<1> QED
    BY <1>5, <1>6 DEF Inserts

\* Changing the status of a row leaves a row of the same delivery.
LEMMA RowWritten ==
  ASSUME NEW row \in AssignmentRow, NEW status \in {"active", "closed"}
  PROVE  /\ [row EXCEPT !.status = status] \in AssignmentRow
         /\ [row EXCEPT !.status = status].status = status
         /\ [row EXCEPT !.status = status].delivery = row.delivery
         /\ row # NoAssignment
BY DEF AssignmentRow, NoAssignment

\* A table in which some rows were written, each as a row of its delivery, and
\* none was freed or given to another delivery.
Rewritten(rows) ==
  /\ assignments' \in [AssignmentId -> AssignmentRow \cup {NoAssignment}]
  /\ \A a \in AssignmentId : assignments[a] # NoAssignment => assignments'[a] # NoAssignment
  /\ \A a \in AssignmentId \ rows : assignments'[a] = assignments[a]

\* Closing rows.
LEMMA ClosedRows ==
  ASSUME Typed, NEW old \in SUBSET AssignmentId,
         \A a \in old : assignments[a] # NoAssignment,
         assignments' = [a \in AssignmentId |->
           IF a \in old THEN [assignments[a] EXCEPT !.status = "closed"] ELSE assignments[a]]
  PROVE  /\ Rewritten(old)
         /\ \A a \in old : assignments'[a].status = "closed"
<1>1. assignments \in [AssignmentId -> AssignmentRow \cup {NoAssignment}]
    BY DEF Typed, TypeOK
<1>2. \A a \in old : /\ assignments'[a] \in AssignmentRow
                     /\ assignments'[a] # NoAssignment
                     /\ assignments'[a].status = "closed"
    BY <1>1, RowWritten
<1> QED
    BY <1>1, <1>2 DEF Rewritten

\* Inserting a row, and closing others.
LEMMA InsertedRow ==
  ASSUME Typed, NEW d \in Delivery, NEW v \in Driver, NEW old \in SUBSET AssignmentId,
         \A a \in old : assignments[a] # NoAssignment,
         InsertAssignment(d, v, old)
  PROVE  \E next \in AssignmentId :
           /\ Rewritten(old \cup {next})
           /\ assignments[next] = NoAssignment
           /\ assignments'[next] = [status |-> "active", delivery |-> d, driver |-> v]
           /\ \A a \in old : assignments'[a].status = "closed"
<1>1. assignments \in [AssignmentId -> AssignmentRow \cup {NoAssignment}]
    BY DEF Typed, TypeOK
<1>2. PICK next \in Unused :
        assignments' = [a \in AssignmentId |->
           IF a = next THEN [status |-> "active", delivery |-> d, driver |-> v]
           ELSE IF a \in old THEN [assignments[a] EXCEPT !.status = "closed"]
           ELSE assignments[a]]
    BY DEF InsertAssignment
<1>3. next \in AssignmentId /\ assignments[next] = NoAssignment /\ next \notin old
    BY <1>2 DEF Unused
<1>4. \A a \in old : /\ assignments'[a] \in AssignmentRow
                     /\ assignments'[a] # NoAssignment
                     /\ assignments'[a].status = "closed"
    BY <1>1, <1>2, <1>3, RowWritten, ZenonT(30)
<1>5. [status |-> "active", delivery |-> d, driver |-> v] \in AssignmentRow
    BY DEF AssignmentRow
<1>6. assignments'[next] = [status |-> "active", delivery |-> d, driver |-> v]
    BY <1>2, <1>3
<1>7. \A a \in AssignmentId \ (old \cup {next}) : assignments'[a] = assignments[a]
    BY <1>2
<1>8. Rewritten(old \cup {next})
    BY <1>1, <1>2, <1>3, <1>4, <1>5, <1>6, <1>7 DEF Rewritten
<1> QED
    BY <1>3, <1>4, <1>6, <1>8

\* The fields of what a request has decided.
LEMMA RequestFields ==
  ASSUME NEW row \in RequestRow \cup {Idle}
  PROVE  /\ row.op \in {"assign", "reassign"} =>
              row.delivery \in Delivery /\ row.driver \in Driver /\ row.old \in SUBSET AssignmentId
         /\ row.op = "unassign" => row.delivery \in Delivery /\ row.old \in SUBSET AssignmentId
         /\ row.op = "status" => row.delivery \in Delivery /\ row.target \in DeliveryStatus
         /\ row.op \in {"none", "status", "assign", "reassign", "unassign"}
BY DEF RequestRow, Idle

LEMMA TypedInit == Init => Typed
<1> SUFFICES ASSUME Init PROVE Typed
    OBVIOUS
<1>1. request \in [Request -> RequestRow \cup {Idle}] /\ OldAreRows
    BY DEF Init, OldAreRows, Idle
<1>2. assignments \in [AssignmentId -> AssignmentRow \cup {NoAssignment}]
    BY DEF Init
<1>3. drivers \in [Driver -> DriverStatus] /\ todo \subseteq Delivery /\ doubled \subseteq Delivery
    BY DEF Init, DriverStatus
<1>4. crashes \in 0..MaxCrashes /\ chosen = Idle
    BY DispatchAssumption DEF Init
<1>5. DeliveriesTypeOK
    BY DEF Init, DeliveriesInit, DeliveriesTypeOK
<1> QED
    BY <1>1, <1>2, <1>3, <1>4, <1>5 DEF Typed, TypeOK

\* Deciding.
LEMMA TypedDecides ==
  ASSUME Typed, NEW r \in Request, NEW row \in RequestRow, Decides(r, row),
         row.op \in {"assign", "reassign", "unassign"} =>
           \A a \in row.old : assignments[a] # NoAssignment
  PROVE  Typed'
<1>1. request' = [request EXCEPT ![r] = row]
    BY DEF Decides
<1>2. UNCHANGED <<deliveries, history, drivers, assignments, todo, chosen, crashes, doubled>>
    BY DEF Decides, deliveryVars
<1>3. request' \in [Request -> RequestRow \cup {Idle}]
    BY <1>1 DEF Typed, TypeOK
<1>4. OldAreRows'
    BY <1>1, <1>2 DEF Typed, TypeOK, OldAreRows
<1> QED
    BY <1>2, <1>3, <1>4 DEF Typed, TypeOK, DeliveriesTypeOK

LEMMA TypedStart ==
  ASSUME Typed, NEW r \in Request, StartStep(r)
  PROVE  Typed'
<1>1. \A d \in Delivery : \A a \in Active(d) : a \in AssignmentId /\ assignments[a] # NoAssignment
    BY DEF Active, NoAssignment
<1>2. ASSUME NEW d \in Delivery, NEW target \in DeliveryStatus, StartStatus(r, d, target)
      PROVE  Typed'
    <2>1. [op |-> "status", delivery |-> d, target |-> target] \in RequestRow
        BY DEF RequestRow
    <2> QED
        BY <1>2, <2>1, TypedDecides DEF StartStatus
<1>3. ASSUME NEW d \in Delivery, NEW v \in Driver, StartAssign(r, d, v)
      PROVE  Typed'
    <2>1. [op |-> "assign", delivery |-> d, driver |-> v, old |-> {}] \in RequestRow
        BY DEF RequestRow
    <2> QED
        BY <1>3, <2>1, TypedDecides DEF StartAssign
<1>4. ASSUME NEW d \in Delivery, NEW v \in Driver, NEW old \in SUBSET AssignmentId,
             StartReassign(r, d, v, old)
      PROVE  Typed'
    <2>1. [op |-> "reassign", delivery |-> d, driver |-> v, old |-> old] \in RequestRow
        BY DEF RequestRow
    <2>2. \A a \in old : assignments[a] # NoAssignment
        BY <1>4, <1>1 DEF StartReassign
    <2> QED
        BY <1>4, <2>1, <2>2, TypedDecides DEF StartReassign
<1>5. ASSUME NEW d \in Delivery, StartUnassign(r, d)
      PROVE  Typed'
    <2>1. [op |-> "unassign", delivery |-> d, old |-> Active(d)] \in RequestRow
        BY <1>1 DEF RequestRow
    <2> QED
        BY <1>5, <1>1, <2>1, TypedDecides DEF StartUnassign
<1> QED
    BY <1>2, <1>3, <1>4, <1>5 DEF StartStep

\* Ending a request forgets the rows it was about to close.
LEMMA TypedEnds ==
  ASSUME Typed, NEW r \in Request, Ends(r),
         deliveries' \in [Delivery -> DeliveryStatus \cup {"none"}],
         history' \in [Delivery -> SUBSET DeliveryStatus],
         NEW rows, Rewritten(rows), doubled' \subseteq Delivery
  PROVE  Typed'
<1>1. request' = [request EXCEPT ![r] = Idle] /\ UNCHANGED <<drivers, todo, chosen, crashes>>
    BY DEF Ends
<1>2. request' \in [Request -> RequestRow \cup {Idle}]
    BY <1>1 DEF Typed, TypeOK
<1>3. ASSUME NEW q \in Request, request'[q].op \in {"assign", "reassign", "unassign"},
             NEW a \in request'[q].old
      PROVE  assignments'[a] # NoAssignment
    <2>1. request'[q] = request[q]
        BY <1>1, <1>3 DEF Typed, TypeOK, Idle
    <2>2. a \in AssignmentId
        BY <1>2, <1>3, RequestFields
    <2>3. assignments[a] # NoAssignment
        BY <1>3, <2>1 DEF Typed, OldAreRows
    <2> QED
        BY <2>2, <2>3 DEF Rewritten
<1> QED
    BY <1>1, <1>2, <1>3 DEF Typed, TypeOK, DeliveriesTypeOK, OldAreRows, Rewritten

\* What a step may do to the variables other than requests and assignments.
LEMMA TypedElse ==
  ASSUME Typed, UNCHANGED <<assignments, request>>,
         DeliveriesTypeOK', drivers' \in [Driver -> DriverStatus], todo' \subseteq Delivery,
         chosen' = Idle \/ chosen' \in [delivery : Delivery, driver : Driver],
         crashes' \in 0..MaxCrashes, doubled' \subseteq Delivery
  PROVE  Typed'
BY DEF Typed, TypeOK, OldAreRows

\* What a step may do to assignments, when the requests stay as they are.
LEMMA TypedRewritten ==
  ASSUME Typed, UNCHANGED <<deliveryVars, drivers, request, todo, crashes>>,
         chosen' = Idle \/ chosen' = chosen,
         NEW rows, Rewritten(rows), doubled' \subseteq Delivery
  PROVE  Typed'
<1>1. OldAreRows'
    <2> SUFFICES ASSUME NEW q \in Request, request[q].op \in {"assign", "reassign", "unassign"},
                        NEW a \in request[q].old
                 PROVE  assignments'[a] # NoAssignment
        BY DEF OldAreRows
    <2>1. a \in AssignmentId
        BY RequestFields DEF Typed, TypeOK
    <2>2. assignments[a] # NoAssignment
        BY DEF Typed, OldAreRows
    <2> QED
        BY <2>1, <2>2 DEF Rewritten
<1>2. DeliveriesTypeOK'
    BY DEF Typed, TypeOK, DeliveriesTypeOK, deliveryVars
<1> QED
    BY <1>1, <1>2 DEF Typed, TypeOK, Rewritten

\* The lines of the worker.
LEMMA TypedAuto ==
  ASSUME Typed, AutoStep \/ AutoCrash
  PROVE  Typed'
<1>0. DeliveriesTypeOK
    BY DEF Typed, TypeOK
<1>1. CASE AutoList
    BY <1>0, <1>1, TypedElse DEF AutoList, Typed, TypeOK, DeliveriesTypeOK, deliveryVars
<1>2. ASSUME NEW d \in Delivery, AutoChoose(d)
      PROVE  Typed'
    <2>1. chosen' = chosen \/ \E v \in Candidates : chosen' = [delivery |-> d, driver |-> v]
        BY <1>2 DEF AutoChoose
    <2>2. Candidates \subseteq Driver
        BY DEF Candidates
    <2>3. chosen' = Idle \/ chosen' \in [delivery : Delivery, driver : Driver]
        BY <2>1, <2>2 DEF Typed, TypeOK
    <2> QED
        BY <1>0, <1>2, <2>3, TypedElse DEF AutoChoose, Typed, TypeOK, DeliveriesTypeOK, deliveryVars
<1>3. CASE AutoAssign
    <2>1. UNCHANGED <<deliveryVars, drivers, request, todo, crashes>> /\ chosen' = Idle
        BY <1>3 DEF AutoAssign
    <2>2. chosen.delivery \in Delivery /\ chosen.driver \in Driver
        BY <1>3 DEF AutoAssign, Typed, TypeOK
    <2>3. CASE UNCHANGED <<assignments, doubled>>
        <3>1. Rewritten({}) /\ doubled' \subseteq Delivery
            BY <2>3 DEF Rewritten, Typed, TypeOK
        <3> QED
            BY <2>1, <3>1, TypedRewritten
    <2>4. CASE InsertAssignment(chosen.delivery, chosen.driver, {})
        <3>1. PICK next \in AssignmentId : Rewritten({} \cup {next})
            BY <2>2, <2>4, InsertedRow
        <3>2. doubled' \subseteq Delivery
            BY <2>2, <2>4 DEF InsertAssignment, Typed, TypeOK
        <3> QED
            BY <2>1, <3>1, <3>2, TypedRewritten
    <2> QED
        BY <1>3, <2>3, <2>4 DEF AutoAssign
<1>4. CASE AutoCrash
    <2>1. crashes' \in 0..MaxCrashes
        BY <1>4, DispatchAssumption DEF AutoCrash, Typed, TypeOK
    <2> QED
        BY <1>0, <1>4, <2>1, TypedElse DEF AutoCrash, Typed, TypeOK, DeliveriesTypeOK, deliveryVars
<1> QED
    BY <1>1, <1>2, <1>3, <1>4 DEF AutoStep

LEMMA TypedFinish ==
  ASSUME Typed, NEW r \in Request, FinishStep(r)
  PROVE  Typed'
<1>0. /\ deliveries \in [Delivery -> DeliveryStatus \cup {"none"}]
      /\ history \in [Delivery -> SUBSET DeliveryStatus]
      /\ doubled \subseteq Delivery
      /\ request[r] \in RequestRow \cup {Idle}
    BY DEF Typed, TypeOK, DeliveriesTypeOK
<1>1. UNCHANGED assignments => Rewritten({})
    BY DEF Rewritten, Typed, TypeOK
<1>2. CASE FinishStatus(r)
    <2>1. request[r].delivery \in Delivery /\ request[r].target \in DeliveryStatus
        BY <1>0, <1>2, RequestFields DEF FinishStatus
    <2>2. /\ deliveries' \in [Delivery -> DeliveryStatus \cup {"none"}]
          /\ history' \in [Delivery -> SUBSET DeliveryStatus]
        BY <1>0, <1>2, <2>1 DEF FinishStatus, WriteStatus
    <2>3. Ends(r) /\ Rewritten({}) /\ doubled' \subseteq Delivery
        BY <1>0, <1>1, <1>2 DEF FinishStatus
    <2> QED
        BY <2>2, <2>3, TypedEnds
<1>3. CASE FinishAssign(r)
    <2>1. /\ request[r].delivery \in Delivery
          /\ request[r].driver \in Driver
          /\ request[r].old \in SUBSET AssignmentId
          /\ \A a \in request[r].old : assignments[a] # NoAssignment
        BY <1>0, <1>3, RequestFields DEF FinishAssign, Typed, OldAreRows
    <2>2. /\ InsertAssignment(request[r].delivery, request[r].driver, request[r].old)
          /\ Ends(r)
          /\ UNCHANGED deliveryVars
        BY <1>3 DEF FinishAssign
    <2>3. PICK next \in AssignmentId : Rewritten(request[r].old \cup {next})
        BY <2>1, <2>2, InsertedRow
    <2>4. doubled' \subseteq Delivery
        BY <1>0, <2>1, <2>2 DEF InsertAssignment
    <2> QED
        BY <1>0, <2>2, <2>3, <2>4, TypedEnds DEF deliveryVars
<1>4. CASE FinishUnassign(r)
    <2>1. /\ request[r].old \in SUBSET AssignmentId
          /\ \A a \in request[r].old : assignments[a] # NoAssignment
        BY <1>0, <1>4, RequestFields DEF FinishUnassign, Typed, OldAreRows
    <2>2. Rewritten(request[r].old)
        BY <1>4, <2>1, ClosedRows DEF FinishUnassign
    <2> QED
        BY <1>0, <1>4, <2>2, TypedEnds DEF FinishUnassign, deliveryVars
<1>5. CASE Abort(r)
    BY <1>0, <1>1, <1>5, TypedEnds DEF Abort, deliveryVars
<1> QED
    BY <1>2, <1>3, <1>4, <1>5 DEF FinishStep

LEMMA TypedDirect ==
  ASSUME Typed, DirectStep
  PROVE  Typed'
<1>0. /\ deliveries \in [Delivery -> DeliveryStatus \cup {"none"}]
      /\ history \in [Delivery -> SUBSET DeliveryStatus]
      /\ doubled \subseteq Delivery
      /\ "pending" \in DeliveryStatus
    BY Statuses DEF Typed, TypeOK, DeliveriesTypeOK
<1>1. ASSUME NEW d \in Delivery, NewDelivery(d)
      PROVE  Typed'
    <2>1. DeliveriesTypeOK'
        BY <1>0, <1>1 DEF NewDelivery, CreateDelivery, DeliveriesTypeOK
    <2> QED
        BY <1>1, <2>1, TypedElse DEF NewDelivery, dispatchVars, Typed, TypeOK
<1>2. ASSUME NEW a \in AssignmentId, NEW status \in {"active", "closed"},
             UpdateAssignmentStatus(a, status)
      PROVE  Typed'
    <2>1. assignments[a] \in AssignmentRow
        BY <1>2 DEF UpdateAssignmentStatus, Typed, TypeOK
    <2>2. assignments' = [assignments EXCEPT ![a] = [assignments[a] EXCEPT !.status = status]]
        BY <1>2 DEF UpdateAssignmentStatus
    <2>3. Rewritten({a})
        <3> DEFINE row == [assignments[a] EXCEPT !.status = status]
        <3>1. row \in AssignmentRow /\ row # NoAssignment
            BY <2>1, RowWritten
        <3> HIDE DEF row
        <3>2. assignments' = [assignments EXCEPT ![a] = row]
            BY <2>2 DEF row
        <3> QED
            BY <3>1, <3>2 DEF Rewritten, Typed, TypeOK
    <2>4. doubled' \subseteq Delivery
        BY <1>0, <1>2, <2>1 DEF UpdateAssignmentStatus, AssignmentRow
    <2> QED
        BY <1>2, <2>3, <2>4, TypedRewritten DEF UpdateAssignmentStatus
<1>3. ASSUME NEW v \in Driver, NEW status \in DriverStatus, UpdateDriver(v, status)
      PROVE  Typed'
    BY <1>0, <1>3, TypedElse DEF UpdateDriver, Typed, TypeOK, DeliveriesTypeOK, deliveryVars
<1> QED
    BY <1>1, <1>2, <1>3 DEF DirectStep

LEMMA TypedStep == Typed /\ [Next]_vars => Typed'
<1> SUFFICES ASSUME Typed, [Next]_vars PROVE Typed'
    OBVIOUS
<1>1. CASE UNCHANGED vars
    BY <1>1 DEF vars, deliveryVars, dispatchVars, Typed, TypeOK, DeliveriesTypeOK, OldAreRows
<1> QED
    BY <1>1, TypedStart, TypedFinish, TypedDirect, TypedAuto DEF Next

\* The tables, the requests and the worker keep their types, for any number of
\* rows, requests and crashes.
THEOREM TypeCorrect == Spec => []TypeOK
<1>1. Typed => TypeOK
    BY DEF Typed
<1> QED
    BY <1>1, TypedInit, TypedStep, PTL DEF Spec

-----------------------------------------------------------------------------
(* One active assignment.                                                   *)

LEMMA GuardedInit == Init => Guarded
BY DEF Init, Guarded, Active, NoAssignment, Inserts, ChosenFor, Idle

\* Active assignments that are closed, requests that end and a choice that is
\* dropped do no harm.
LEMMA GuardedShrinks ==
  ASSUME Guarded, doubled \subseteq doubled',
         \A d \in Delivery \ doubled' : Active(d)' \subseteq Active(d),
         \A d \in Delivery : \A r \in Request :
           Inserts(r, d)' => Inserts(r, d) /\ request'[r].old = request[r].old,
         \A d \in Delivery : ChosenFor(d)' => ChosenFor(d)
  PROVE  Guarded'
<1> SUFFICES ASSUME NEW d \in Delivery \ doubled'
             PROVE  /\ \A a, b \in Active(d)' : a = b
                    /\ \A r \in Request : Inserts(r, d)' => Active(d)' \subseteq request'[r].old
                    /\ ChosenFor(d)' => Active(d)' = {}
    BY DEF Guarded
<1>1. /\ \A a, b \in Active(d) : a = b
      /\ \A r \in Request : Inserts(r, d) => Active(d) \subseteq request[r].old
      /\ ChosenFor(d) => Active(d) = {}
    BY DEF Guarded
<1> QED
    BY <1>1

\* Deciding to insert for d is safe when the decision closes what is active.
LEMMA GuardedDecides ==
  ASSUME Typed, Guarded, NEW r \in Request, NEW row, Decides(r, row),
         row.op \in {"assign", "reassign"} =>
           row.delivery \in doubled \/ Active(row.delivery) \subseteq row.old
  PROVE  Guarded'
<1>1. /\ request' = [request EXCEPT ![r] = row]
      /\ request'[r] = row
      /\ \A q \in Request \ {r} : request'[q] = request[q]
    BY DEF Decides, Typed, TypeOK
<1>2. UNCHANGED <<assignments, chosen, doubled>>
    BY DEF Decides
<1>3. ASSUME NEW d \in Delivery \ doubled, NEW q \in Request, Inserts(q, d)'
      PROVE  Active(d) \subseteq request'[q].old
    <2>1. CASE q = r
        BY <1>1, <1>3, <2>1 DEF Inserts
    <2>2. CASE q # r
        <3>1. request'[q] = request[q] /\ Inserts(q, d)
            BY <1>1, <1>3, <2>2 DEF Inserts
        <3> QED
            BY <3>1 DEF Guarded
    <2> QED
        BY <2>1, <2>2
<1>4. \A d \in Delivery : Active(d)' = Active(d) /\ (ChosenFor(d)' <=> ChosenFor(d))
    BY <1>2 DEF Active, ChosenFor
<1> QED
    BY <1>2, <1>3, <1>4 DEF Guarded

\* What an insert does: other deliveries gain nothing, and its own has the new
\* row alone, unless somebody else inserts for it, too.
LEMMA GuardedInsert ==
  ASSUME Typed, Guarded, NEW d \in Delivery, NEW v \in Driver, NEW old \in SUBSET AssignmentId,
         \A a \in old : assignments[a] # NoAssignment,
         InsertAssignment(d, v, old),
         d \notin doubled => Active(d) \subseteq old
  PROVE  /\ doubled \subseteq doubled'
         /\ d \notin doubled' => ~(Inserting(d) > 1)
         /\ \A e \in Delivery \ doubled' : e # d => Active(e)' \subseteq Active(e)
         /\ d \notin doubled' => \A a, b \in Active(d)' : a = b
<1>1. doubled' = IF Inserting(d) > 1 THEN doubled \cup {d} ELSE doubled
    BY DEF InsertAssignment
<1>2. PICK next \in AssignmentId :
        /\ Rewritten(old \cup {next})
        /\ assignments[next] = NoAssignment
        /\ assignments'[next] = [status |-> "active", delivery |-> d, driver |-> v]
        /\ \A a \in old : assignments'[a].status = "closed"
    BY InsertedRow, ZenonT(30)
<1>3. ASSUME NEW e \in Delivery, NEW a \in Active(e)'
      PROVE  \/ a = next /\ e = d
             \/ a \in Active(e) \ old
    <2>1. a \in AssignmentId /\ assignments'[a].status = "active" /\ assignments'[a].delivery = e
        BY <1>3 DEF Active
    <2>2. a \notin old
        BY <1>2, <2>1
    <2>3. CASE a = next
        BY <1>2, <2>1, <2>3
    <2>4. CASE a # next
        BY <1>2, <2>1, <2>2, <2>4 DEF Rewritten, Active
    <2> QED
        BY <2>3, <2>4
<1>4. d \notin doubled' => d \notin doubled /\ ~(Inserting(d) > 1)
    BY <1>1
<1>5. d \notin doubled' => \A a \in Active(d)' : a = next
    BY <1>3, <1>4
<1> QED
    BY <1>1, <1>3, <1>4, <1>5

LEMMA GuardedStart ==
  ASSUME Typed, Guarded, NEW r \in Request, StartStep(r)
  PROVE  Guarded'
<1>1. ASSUME NEW d \in Delivery, NEW target \in DeliveryStatus, StartStatus(r, d, target)
      PROVE  Guarded'
    BY <1>1, GuardedDecides DEF StartStatus
<1>2. ASSUME NEW d \in Delivery, NEW v \in Driver, StartAssign(r, d, v)
      PROVE  Guarded'
    BY <1>2, GuardedDecides DEF StartAssign
<1>3. ASSUME NEW d \in Delivery, NEW v \in Driver, NEW old \in SUBSET AssignmentId,
             StartReassign(r, d, v, old)
      PROVE  Guarded'
    <2>1. d \in doubled \/ Active(d) \subseteq old
        BY <1>3 DEF StartReassign, Guarded
    <2> QED
        BY <1>3, <2>1, GuardedDecides DEF StartReassign
<1>4. ASSUME NEW d \in Delivery, StartUnassign(r, d)
      PROVE  Guarded'
    BY <1>4, GuardedDecides DEF StartUnassign
<1> QED
    BY <1>1, <1>2, <1>3, <1>4 DEF StartStep

LEMMA GuardedFinish ==
  ASSUME Typed, Guarded, NEW r \in Request, FinishStep(r)
  PROVE  Guarded'
<1>1. /\ request' = [request EXCEPT ![r] = Idle]
      /\ chosen' = chosen
      /\ \A q \in Request \ {r} : request'[q] = request[q]
      /\ request'[r] = Idle
    BY DEF FinishStep, FinishStatus, FinishAssign, FinishUnassign, Abort, Ends, Typed, TypeOK
<1>2. \A d \in Delivery : \A q \in Request : Inserts(q, d)' =>
        q # r /\ Inserts(q, d) /\ request'[q].old = request[q].old
    BY <1>1 DEF Inserts, Idle
<1>3. \A d \in Delivery : ChosenFor(d)' <=> ChosenFor(d)
    BY <1>1 DEF ChosenFor
<1>4. request[r] \in RequestRow \cup {Idle}
    BY DEF Typed, TypeOK
<1>5. CASE FinishStatus(r) \/ Abort(r)
    <2>1. UNCHANGED <<assignments, doubled>>
        BY <1>5 DEF FinishStatus, Abort
    <2> QED
        BY <1>2, <1>3, <2>1, GuardedShrinks DEF Active
<1>6. CASE FinishUnassign(r)
    <2>1. /\ request[r].old \in SUBSET AssignmentId
          /\ \A a \in request[r].old : assignments[a] # NoAssignment
        BY <1>4, <1>6, RequestFields DEF FinishUnassign, Typed, OldAreRows
    <2>2. /\ Rewritten(request[r].old)
          /\ \A a \in request[r].old : assignments'[a].status = "closed"
        BY <1>6, <2>1, ClosedRows DEF FinishUnassign
    <2>3. \A d \in Delivery : Active(d)' \subseteq Active(d)
        BY <2>2 DEF Rewritten, Active
    <2>4. doubled' = doubled
        BY <1>6 DEF FinishUnassign
    <2> QED
        BY <1>2, <1>3, <2>3, <2>4, GuardedShrinks
<1>7. CASE FinishAssign(r)
    <2>1. /\ request[r].delivery \in Delivery
          /\ request[r].driver \in Driver
          /\ request[r].old \in SUBSET AssignmentId
          /\ \A a \in request[r].old : assignments[a] # NoAssignment
        BY <1>4, <1>7, RequestFields DEF FinishAssign, Typed, OldAreRows
    <2>2. PICK d \in Delivery : d = request[r].delivery
        BY <2>1
    <2>3. Inserts(r, d) /\ InsertAssignment(d, request[r].driver, request[r].old)
        BY <1>7, <2>2 DEF FinishAssign, Inserts
    <2>4. d \notin doubled => Active(d) \subseteq request[r].old
        BY <2>3 DEF Guarded
    <2>5. /\ doubled \subseteq doubled'
          /\ d \notin doubled' => ~(Inserting(d) > 1)
          /\ \A e \in Delivery \ doubled' : e # d => Active(e)' \subseteq Active(e)
          /\ d \notin doubled' => \A a, b \in Active(d)' : a = b
        BY <2>1, <2>3, <2>4, GuardedInsert
    <2>6. d \notin doubled' => /\ \A q \in Request : ~Inserts(q, d)'
                               /\ ~ChosenFor(d)'
        BY <1>2, <1>3, <2>3, <2>5, AloneInserting
    <2>7. ASSUME NEW e \in Delivery \ doubled'
          PROVE  /\ \A a, b \in Active(e)' : a = b
                 /\ \A q \in Request : Inserts(q, e)' => Active(e)' \subseteq request'[q].old
                 /\ ChosenFor(e)' => Active(e)' = {}
        <3>1. CASE e = d
            BY <2>5, <2>6, <3>1
        <3>2. CASE e # d
            <4>1. Active(e)' \subseteq Active(e) /\ e \notin doubled
                BY <2>5, <3>2
            <4>2. /\ \A a, b \in Active(e) : a = b
                  /\ \A q \in Request : Inserts(q, e) => Active(e) \subseteq request[q].old
                  /\ ChosenFor(e) => Active(e) = {}
                BY <4>1 DEF Guarded
            <4> QED
                BY <1>2, <1>3, <4>1, <4>2
        <3> QED
            BY <3>1, <3>2
    <2> QED
        BY <2>7 DEF Guarded
<1> QED
    BY <1>5, <1>6, <1>7 DEF FinishStep

LEMMA GuardedDirect ==
  ASSUME Typed, Guarded, DirectStep
  PROVE  Guarded'
<1>1. UNCHANGED <<request, chosen>>
    BY DEF DirectStep, NewDelivery, UpdateAssignmentStatus, UpdateDriver, dispatchVars
<1>2. /\ \A d \in Delivery : \A r \in Request :
           Inserts(r, d)' => Inserts(r, d) /\ request'[r].old = request[r].old
      /\ \A d \in Delivery : ChosenFor(d)' => ChosenFor(d)
    BY <1>1 DEF Inserts, ChosenFor
<1>3. CASE UNCHANGED <<assignments, doubled>>
    BY <1>2, <1>3, GuardedShrinks DEF Active
<1>4. ASSUME NEW a \in AssignmentId, NEW status \in {"active", "closed"},
             UpdateAssignmentStatus(a, status)
      PROVE  Guarded'
    <2>1. /\ assignments[a] \in AssignmentRow
          /\ assignments \in [AssignmentId -> AssignmentRow \cup {NoAssignment}]
        BY <1>4 DEF UpdateAssignmentStatus, Typed, TypeOK
    <2>2. /\ assignments'[a].status = status
          /\ assignments'[a].delivery = assignments[a].delivery
          /\ \A b \in AssignmentId \ {a} : assignments'[b] = assignments[b]
        <3> DEFINE row == [assignments[a] EXCEPT !.status = status]
        <3>1. row.status = status /\ row.delivery = assignments[a].delivery
            BY <2>1, RowWritten
        <3> HIDE DEF row
        <3>2. assignments' = [assignments EXCEPT ![a] = row]
            BY <1>4 DEF UpdateAssignmentStatus, row
        <3> QED
            BY <2>1, <3>1, <3>2
    <2>3. doubled' = IF status = "active" THEN doubled \cup {assignments[a].delivery} ELSE doubled
        BY <1>4 DEF UpdateAssignmentStatus
    <2>4. \A d \in Delivery \ doubled' : Active(d)' \subseteq Active(d)
        BY <2>2, <2>3 DEF Active
    <2> QED
        BY <1>2, <2>3, <2>4, GuardedShrinks
<1> QED
    BY <1>3, <1>4 DEF DirectStep, NewDelivery, UpdateDriver, dispatchVars

LEMMA GuardedAuto ==
  ASSUME Typed, Guarded, AutoStep \/ AutoCrash
  PROVE  Guarded'
<1>1. UNCHANGED request
    BY DEF AutoStep, AutoList, AutoChoose, AutoAssign, AutoCrash
<1>2. \A d \in Delivery : \A r \in Request :
        (Inserts(r, d)' <=> Inserts(r, d)) /\ request'[r].old = request[r].old
    BY <1>1 DEF Inserts
<1>3. CASE AutoList \/ AutoCrash
    <2>1. UNCHANGED <<assignments, doubled>> /\ (chosen' = chosen \/ chosen' = Idle)
        BY <1>3 DEF AutoList, AutoCrash
    <2> QED
        BY <1>2, <2>1, GuardedShrinks DEF Active, ChosenFor
<1>4. ASSUME NEW d \in Delivery, AutoChoose(d)
      PROVE  Guarded'
    <2>1. UNCHANGED <<assignments, doubled>>
        BY <1>4 DEF AutoChoose
    <2>2. CASE UNCHANGED chosen
        BY <1>2, <2>1, <2>2, GuardedShrinks DEF Active, ChosenFor
    <2>3. CASE Active(d) = {} /\ \E v \in Candidates : chosen' = [delivery |-> d, driver |-> v]
        <3>1. \A e \in Delivery : Active(e)' = Active(e)
            BY <2>1 DEF Active
        <3>2. \A e \in Delivery : ChosenFor(e)' => e = d
            BY <2>3 DEF ChosenFor
        <3> QED
            BY <1>2, <2>1, <2>3, <3>1, <3>2 DEF Guarded
    <2> QED
        BY <1>4, <2>2, <2>3 DEF AutoChoose
<1>5. CASE AutoAssign
    <2>1. chosen' = Idle
        BY <1>5 DEF AutoAssign
    <2>2. \A e \in Delivery : ~ChosenFor(e)'
        BY <2>1 DEF ChosenFor
    <2>3. CASE UNCHANGED <<assignments, doubled>>
        BY <1>2, <2>2, <2>3, GuardedShrinks DEF Active
    <2>4. CASE InsertAssignment(chosen.delivery, chosen.driver, {})
        <3>1. chosen.delivery \in Delivery /\ chosen.driver \in Driver /\ chosen # Idle
            BY <1>5 DEF AutoAssign, Typed, TypeOK
        <3>2. PICK d \in Delivery : d = chosen.delivery
            BY <3>1
        <3>3. ChosenFor(d) /\ InsertAssignment(d, chosen.driver, {})
            BY <2>4, <3>1, <3>2 DEF ChosenFor
        <3>4. d \notin doubled => Active(d) \subseteq {}
            BY <3>3 DEF Guarded
        <3>5. /\ doubled \subseteq doubled'
              /\ d \notin doubled' => ~(Inserting(d) > 1)
              /\ \A e \in Delivery \ doubled' : e # d => Active(e)' \subseteq Active(e)
              /\ d \notin doubled' => \A a, b \in Active(d)' : a = b
            BY <3>1, <3>3, <3>4, GuardedInsert
        <3>6. d \notin doubled' => \A r \in Request : ~Inserts(r, d)
            BY <3>3, <3>5, AloneInserting
        <3>7. ASSUME NEW e \in Delivery \ doubled'
              PROVE  /\ \A a, b \in Active(e)' : a = b
                     /\ \A r \in Request : Inserts(r, e)' => Active(e)' \subseteq request'[r].old
            <4>1. CASE e = d
                BY <1>2, <3>5, <3>6, <4>1
            <4>2. CASE e # d
                BY <1>2, <3>5, <4>2 DEF Guarded
            <4> QED
                BY <4>1, <4>2
        <3> QED
            BY <2>2, <3>7 DEF Guarded
    <2> QED
        BY <1>5, <2>3, <2>4 DEF AutoAssign
<1> QED
    BY <1>3, <1>4, <1>5 DEF AutoStep

LEMMA GuardedStep == Typed /\ Guarded /\ [Next]_vars => Guarded'
<1> SUFFICES ASSUME Typed, Guarded, [Next]_vars PROVE Guarded'
    OBVIOUS
<1>1. CASE UNCHANGED vars
    BY <1>1, GuardedShrinks DEF vars, dispatchVars, Active, Inserts, ChosenFor
<1> QED
    BY <1>1, GuardedStart, GuardedFinish, GuardedDirect, GuardedAuto DEF Next

\* Two active assignments of a delivery need two inserts that overlap, or staff
\* who reopen a closed one, for any number of dispatchers, drivers and rows.
THEOREM OneActive == Spec => []OneActiveAssignment
<1>1. Guarded => OneActiveAssignment
    <2> SUFFICES ASSUME Guarded, NEW d \in Delivery \ doubled
                 PROVE  Cardinality(Active(d)) <= 1
        BY DEF OneActiveAssignment
    <2>1. Active(d) = {} \/ \E a \in Active(d) : Active(d) = {a}
        BY DEF Guarded
    <2>2. CASE Active(d) = {}
        BY <2>2, FS_EmptySet
    <2>3. ASSUME NEW a, Active(d) = {a}
          PROVE  Cardinality(Active(d)) = 1
        BY <2>3, FS_Singleton
    <2> QED
        BY <2>1, <2>2, <2>3
<1> QED
    BY <1>1, TypedInit, TypedStep, GuardedInit, GuardedStep, PTL DEF Spec
=============================================================================
