------------------------------ MODULE Routing ------------------------------
(***************************************************************************)
(* The stops of a route: modules/routing/service.py.                       *)
(*                                                                         *)
(* A stop has a place in its route, its sequence, and the database keeps   *)
(* the sequences of a route distinct (uq_route_stops_route_seq).  The      *)
(* constraint is not deferrable, so it is checked row by row, and a flush  *)
(* writes its rows in a fixed order: updates by primary key, then inserts, *)
(* then deletes.  The primary keys are random.                             *)
(*                                                                         *)
(* A request reads the route, plans the rows it will write from what it    *)
(* read, and flushes and commits them; other requests may commit in        *)
(* between.  Routes share no rows: one is modelled.                        *)
(***************************************************************************)
EXTENDS Naturals, Sequences, FiniteSets

CONSTANTS
  Delivery,          \* ids of deliveries
  Location,          \* where a delivery is dropped off, on a line
  MaxStops,          \* bounds the stops a route is ever given
  Request,           \* requests that may be open at a time
  MaxRecalculations  \* bounds the recalculations of a behaviour

ASSUME RoutingAssumption ==
  /\ Location \in [Delivery -> Nat]
  /\ MaxStops \in Nat \ {0}
  /\ IsFiniteSet(Request)
  /\ MaxRecalculations \in Nat

StopId == 1..MaxStops        \* primary keys, in their order
Position == 1..(MaxStops + 1)

VARIABLES
  route,           \* its status; "none" before it exists, "deleted" after
  stops,           \* the rows of route_stops
  recalculations,  \* the number of rows of route_recalculations
  request,         \* what each open request is about to write
  raced            \* history: did a removal overlap with another commit?

vars == <<route, stops, recalculations, request, raced>>

Unused == [state |-> "unused"]
Removed == [state |-> "removed"]

StopRow == [state : {"pending", "visited"}, delivery : Delivery, sequence : Position]

Operation == {"none", "add", "remove", "recalculate", "delete"}

Idle == [op |-> "none"]

\* The rows a request has made dirty: new sequences, a new stop, a stop to delete.
Plan(op, moves, new, old) == [op |-> op, moves |-> moves, new |-> new, old |-> old]

Live == {s \in StopId : stops[s].state \in {"pending", "visited"}}

Pending == {s \in StopId : stops[s].state = "pending"}

NewStop(d, n) == [state |-> "pending", delivery |-> d, sequence |-> n]

\* One type invariant: the tables, and what the open requests are about to write.
TypeOK ==
  /\ route \in {"none", "planned", "active", "completed", "deleted"}
  /\ stops \in [StopId -> StopRow \cup {Unused, Removed}]
  /\ recalculations \in 0..MaxRecalculations
  /\ raced \in BOOLEAN
  /\ \A r \in Request : request[r] # Idle =>
       /\ request[r].op \in Operation \ {"none"}
       /\ DOMAIN request[r].moves \subseteq StopId
       /\ \A s \in DOMAIN request[r].moves : request[r].moves[s] \in Position
       /\ DOMAIN request[r].new \subseteq StopId
       /\ \A s \in DOMAIN request[r].new : request[r].new[s] \in StopRow
       /\ request[r].old \subseteq StopId

Init ==
  /\ route = "none"
  /\ stops = [s \in StopId |-> Unused]
  /\ recalculations = 0
  /\ request = [r \in Request |-> Idle]
  /\ raced = FALSE

-----------------------------------------------------------------------------
(* _nearest_neighbor_order, on a line.                                      *)

Distance(a, b) == IF a < b THEN b - a ELSE a - b

\* The first of the points left that no other is nearer than.
Nearest(current, points, left) ==
  CHOOSE i \in left : \A j \in left :
    \/ Distance(current, points[i]) < Distance(current, points[j])
    \/ Distance(current, points[i]) = Distance(current, points[j]) /\ i <= j

\* The indices of points in the order of the tour that starts at start.
NearestNeighborOrder(start, points) ==
  LET tour[n \in 0..Len(points)] ==
        IF n = 0 THEN <<>>
        ELSE LET before == tour[n - 1]
                 current == IF n = 1 THEN start ELSE points[before[n - 1]]
                 left == {i \in 1..Len(points) : \A k \in 1..(n - 1) : before[k] # i}
             IN  Append(before, Nearest(current, points, left))
  IN  tour[Len(points)]

-----------------------------------------------------------------------------
(* Reading: what a request finds, and what it plans from it.                *)

\* route.stops of the given ids: the relationship is ordered by sequence.
InSequence(ids) ==
  CHOOSE line \in [1..Cardinality(ids) -> ids] :
    \A i, j \in 1..Cardinality(ids) : i < j =>
      /\ line[i] # line[j]
      /\ stops[line[i]].sequence <= stops[line[j]].sequence

NoMoves == [s \in {} |-> 0]
NoStops == [s \in {} |-> Unused]

\* Only values that changed are written.
Changed(sequenceOf) ==
  [s \in {t \in DOMAIN sequenceOf : sequenceOf[t] # stops[t].sequence} |-> sequenceOf[s]]

Opens(r, plan) ==
  /\ request[r] = Idle
  /\ request' = [request EXCEPT ![r] = plan]
  /\ UNCHANGED <<route, stops, recalculations, raced>>

\* Mutant: the position asked for is taken as it is.
AddStopUnclamped(r, d, position, id) ==
  /\ route = "planned"
  /\ stops[id] = Unused
  /\ \A q \in Request : request[q] # Idle => id \notin DOMAIN request[q].new
  /\ \A s \in Live : stops[s].delivery # d
  /\ LET pos == position
     IN  Opens(r, Plan("add",
                       [s \in {t \in Live : stops[t].sequence >= pos} |-> stops[s].sequence + 1],
                       [s \in {id} |-> NewStop(d, pos)], {}))

\* add_stop: make room at the position, which is cut to one past the end.
\* A client that names no position asks for one past the end, or any later one.
AddStop(r, d, position, id) ==
  /\ route = "planned"
  /\ stops[id] = Unused
  /\ \A q \in Request : request[q] # Idle => id \notin DOMAIN request[q].new
  /\ \A s \in Live : stops[s].delivery # d
  /\ LET last == Cardinality(Live) + 1
         pos == IF position < last THEN position ELSE last
     IN  Opens(r, Plan("add",
                       [s \in {t \in Live : stops[t].sequence >= pos} |-> stops[s].sequence + 1],
                       [s \in {id} |-> NewStop(d, pos)], {}))

\* remove_stop: close the gap the stop leaves.
RemoveStop(r, id) ==
  /\ route = "planned"
  /\ id \in Live
  /\ Opens(r, Plan("remove",
                   [s \in {t \in Live : stops[t].sequence > stops[id].sequence}
                      |-> stops[s].sequence - 1],
                   NoStops, {id}))

\* recalculate: the pending stops in the order of the tour from the first of
\* them, from the least of their sequences on.  The status of the route does
\* not matter.
Recalculate(r) ==
  /\ recalculations + Cardinality({q \in Request : request[q].op = "recalculate"})
       < MaxRecalculations
  /\ Cardinality(Pending) >= 2
  /\ LET line == InSequence(Pending)
         points == [i \in DOMAIN line |-> Location[stops[line[i]].delivery]]
         tour == NearestNeighborOrder(points[1], points)
         turn(s) == CHOOSE n \in DOMAIN tour : line[tour[n]] = s
         base == stops[line[1]].sequence
     IN  Opens(r, Plan("recalculate", Changed([s \in Pending |-> base + turn(s) - 1]), NoStops, {}))

\* delete_route, with the stops it cascades to.
DeleteRoute(r) ==
  /\ route \in {"planned", "completed"}
  /\ Opens(r, Plan("delete", NoMoves, NoStops, Live))

-----------------------------------------------------------------------------
(* Flushing and committing.                                                 *)

\* The commit of r comes while another request is open, and one of the two
\* removes a stop.
RacesRemoval(r) ==
  \E q \in Request \ {r} : request[q] # Idle /\ "remove" \in {request[q].op, request[r].op}

\* The updates of a flush go by primary key: when the row of s is written, the
\* rows before it have moved and the others have not.
SequenceWhen(moves, s, t) ==
  IF t \in DOMAIN moves /\ t < s THEN moves[t] ELSE stops[t].sequence

\* Mutant: the table has no unique constraint.
MovesUnchecked(moves) == DOMAIN moves \subseteq Live

\* An update finds its row, and no other row at the place it goes to.
MovesPass(moves) ==
  /\ DOMAIN moves \subseteq Live
  /\ \A s \in DOMAIN moves : \A t \in Live \ {s} : SequenceWhen(moves, s, t) # moves[s]

\* Inserts come after all updates.
InsertsPass(moves, new) ==
  \A s \in DOMAIN new : \A t \in Live :
    new[s].sequence # (IF t \in DOMAIN moves THEN moves[t] ELSE stops[t].sequence)

\* The route is there for the foreign keys and for the refresh after the flush;
\* a delete that finds no row is only a warning.
FlushPasses(plan) ==
  /\ route = "deleted" => plan.op = "delete"
  /\ MovesPass(plan.moves)
  /\ InsertsPass(plan.moves, plan.new)

\* What the rows are when the plan is committed.  Deleting the route takes the
\* stops that were added meanwhile, too: the foreign key cascades.
Written(plan) ==
  [s \in StopId |->
     IF s \in plan.old \/ (plan.op = "delete" /\ s \in Live) THEN Removed
     ELSE IF s \in DOMAIN plan.new THEN plan.new[s]
     ELSE IF s \in DOMAIN plan.moves THEN [stops[s] EXCEPT !.sequence = plan.moves[s]]
     ELSE stops[s]]

Commit(r) ==
  LET plan == request[r]
  IN  /\ plan # Idle
      /\ FlushPasses(plan)
      /\ stops' = Written(plan)
      /\ route' = IF plan.op = "delete" THEN "deleted" ELSE route
      /\ recalculations' = IF plan.op = "recalculate" THEN recalculations + 1 ELSE recalculations
      /\ request' = [request EXCEPT ![r] = Idle]
      /\ raced' = (raced \/ RacesRemoval(r))

\* The database refuses a row: the request is rolled back and answered 500.
Fail(r) ==
  LET plan == request[r]
  IN  /\ plan # Idle
      /\ ~FlushPasses(plan)
      /\ request' = [request EXCEPT ![r] = Idle]
      /\ UNCHANGED <<route, stops, recalculations, raced>>

-----------------------------------------------------------------------------
(* Requests that write whatever they find.                                  *)

\* Mutant: the stops are numbered from 0.
CreateRouteFromZero(deliveries, start, ids) ==
  /\ route = "none"
  /\ LET points == [i \in DOMAIN deliveries |-> Location[deliveries[i]]]
         tour == NearestNeighborOrder(start, points)
         turn(s) == CHOOSE n \in DOMAIN tour : ids[n] = s
     IN  stops' = [s \in StopId |->
                     IF \E n \in DOMAIN tour : ids[n] = s
                     THEN NewStop(deliveries[tour[turn(s)]], turn(s) - 1)
                     ELSE Unused]
  /\ route' = "planned"
  /\ UNCHANGED <<recalculations, request, raced>>

\* create_route: a stop for every delivery asked for, in the order of the tour
\* that starts where the first of them with a pickup location is picked up, or
\* where the first is dropped off.  The new keys are in no particular order.
CreateRoute(deliveries, start, ids) ==
  /\ route = "none"
  /\ LET points == [i \in DOMAIN deliveries |-> Location[deliveries[i]]]
         tour == NearestNeighborOrder(start, points)
         turn(s) == CHOOSE n \in DOMAIN tour : ids[n] = s
     IN  stops' = [s \in StopId |->
                     IF \E n \in DOMAIN tour : ids[n] = s
                     THEN NewStop(deliveries[tour[turn(s)]], turn(s))
                     ELSE Unused]
  /\ route' = "planned"
  /\ UNCHANGED <<recalculations, request, raced>>

\* start_route and complete_route, from any status.
UpdateRouteStatus(status) ==
  /\ route \notin {"none", "deleted"}
  /\ route' = status
  /\ UNCHANGED <<stops, recalculations, request, raced>>

\* update_stop_status, from any status to any other; those that are not pending
\* are not told apart.
UpdateStopStatus(id, status) ==
  /\ id \in Live
  /\ stops[id].state # status
  /\ stops' = [stops EXCEPT ![id].state = status]
  /\ UNCHANGED <<route, recalculations, request, raced>>

-----------------------------------------------------------------------------
StopsAsked == UNION {[1..n -> Delivery] : n \in 1..Cardinality(Delivery)}

Keys(n) == {ids \in [1..n -> StopId] : \A i, j \in 1..n : i # j => ids[i] # ids[j]}

StatusStep ==
  \/ \E status \in {"active", "completed"} : UpdateRouteStatus(status)
  \/ \E id \in StopId, status \in {"pending", "visited"} : UpdateStopStatus(id, status)

RequestStep(r) ==
  \/ \E d \in Delivery, position \in Position, id \in StopId : AddStop(r, d, position, id)
  \/ \E id \in StopId : RemoveStop(r, id)
  \/ Recalculate(r)
  \/ DeleteRoute(r)
  \/ Commit(r)
  \/ Fail(r)

CreateStep ==
  \E deliveries \in StopsAsked : \E ids \in Keys(Len(deliveries)), d \in Delivery :
    CreateRoute(deliveries, Location[d], ids)

Next == CreateStep \/ StatusStep \/ \E r \in Request : RequestStep(r)

Spec == Init /\ [][Next]_vars
-----------------------------------------------------------------------------
(* Properties.                                                              *)

\* As long as no removal overlaps with another request, the stops are numbered
\* from 1 without a gap: additions and recalculations that were planned from a
\* list that is out of date run into the unique constraint, whatever positions
\* they ask for and whatever the order of the keys.  A removal leaves a hole
\* that such a request goes through: stop 1, an append planned at 2, the removal
\* of 1, and the route has a stop 2 only.
Packed ==
  ~raced => {stops[s].sequence : s \in Live} = 1..Cardinality(Live)

\* Under the same condition nothing ever swaps two stops, and a recalculation
\* does not either: it only passes if no stop changes its place, since the first
\* row that it writes goes to a sequence that another stop still has.  That it
\* "reorders pending stops" (docs/04-backend.md:145) holds of what it plans only.
OrderKept ==
  [][~raced' =>
       \A s, t \in Live \cap Live' :
         stops[s].sequence < stops[t].sequence => stops'[s].sequence < stops'[t].sequence]_vars
=============================================================================
