----------------------------- MODULE Warehouse -----------------------------
(***************************************************************************)
(* Warehouses, their zones, locations and tasks (modules/warehouse), under *)
(* the stock rows of one product that refer to them                        *)
(* (modules/inventory).                                                    *)
(*                                                                         *)
(* Inventory takes the operations on stock one at a time in a fixed        *)
(* building.  Here they overlap, and the building changes: a request reads *)
(* the rows it needs, plans absolute values from what it read, and commits *)
(* them later under READ COMMITTED, while others commit in between.  The   *)
(* rows it creates are flushed when it finds none, which locks the rows    *)
(* they refer to until it ends.  Reservations and alerts are left to       *)
(* Inventory: nothing is reserved here.                                    *)
(***************************************************************************)
EXTENDS Integers, FiniteSets, Functions

CONSTANTS
  WarehouseId, ZoneId, LocationId, TaskId, StockId,  \* primary keys
  CodeOf,       \* the code each warehouse, zone and location is created with
  Request,      \* requests on stock that may be open at a time
  Amount,       \* quantities that are received, adjusted by or transferred
  MaxQuantity,  \* bounds the quantity of a row and the sum of the movements at a place
  Floor         \* location_id IS NULL

ASSUME WarehouseAssumption ==
  /\ IsFiniteSet(StockId)
  /\ Amount \subseteq Nat \ {0}
  /\ MaxQuantity \in Nat
  /\ WarehouseId \cup ZoneId \cup LocationId \subseteq DOMAIN CodeOf
  /\ Floor \notin LocationId

VARIABLES
  warehouses, zones, locations, tasks, stock,  \* the tables
  ledger,   \* per place, the sum of its rows in stock_movements
  request,  \* what each open request is about to write
  raced,    \* history: did a request write a row over another's commit?
  doubled   \* history: warehouses that may have come to a second floor row

tables == <<warehouses, zones, locations, tasks>>
vars == <<tables, stock, ledger, request, raced, doubled>>

Absent == [state |-> "absent"]

Standing == [state |-> "live"]

Live(table) == {id \in DOMAIN table : table[id].state = "live"}

Place == WarehouseId \X (LocationId \cup {Floor})

PlaceOf(row) == <<row.warehouse, row.location>>

\* pending and in_progress, completed and cancelled are not told apart.
TaskStatus == {"open", "closed"}

\* The values a request has set in rows it read, the rows it has inserted and
\* the movements it will log.
Plan(writes, new, entries) == [writes |-> writes, new |-> new, entries |-> entries]

Nothing == [s \in {} |-> 0]

Idle == Plan(Nothing, Nothing, Nothing)

Open == {r \in Request : request[r] # Idle}

\* A key is used again only when no open request knows the row that had it, so
\* that no request takes the new row for the old one.
KnownRows == UNION {DOMAIN request[r].writes \cup DOMAIN request[r].new : r \in Open}
KnownPlaces == UNION {DOMAIN request[r].entries : r \in Open}

\* One type invariant: every row refers to rows that exist.  A location of
\* stock need not be in the warehouse of the row: nothing compares them.
TypeOK ==
  /\ warehouses \in [WarehouseId -> {Absent, Standing}]
  /\ \A z \in Live(zones) : zones[z].parent \in Live(warehouses)
  /\ \A l \in Live(locations) : locations[l].parent \in Live(zones)
  /\ \A t \in Live(tasks) :
       /\ tasks[t].warehouse \in Live(warehouses)
       /\ tasks[t].status \in TaskStatus
  /\ \A s \in Live(stock) :
       /\ stock[s].warehouse \in Live(warehouses)
       /\ stock[s].location \in Live(locations) \cup {Floor}
       /\ stock[s].quantity \in 0..MaxQuantity
  /\ \A p \in Place :
       ledger[p] # 0 => p[1] \in Live(warehouses) /\ p[2] \in Live(locations) \cup {Floor}
  /\ raced \in BOOLEAN
  /\ doubled \subseteq WarehouseId

Init ==
  /\ warehouses = [w \in WarehouseId |-> Absent]
  /\ zones = [z \in ZoneId |-> Absent]
  /\ locations = [l \in LocationId |-> Absent]
  /\ tasks = [t \in TaskId |-> Absent]
  /\ stock = [s \in StockId |-> Absent]
  /\ ledger = [p \in Place |-> 0]
  /\ request = [r \in Request |-> Idle]
  /\ raced = FALSE
  /\ doubled = {}

-----------------------------------------------------------------------------
(* Building up.  A check of the code and the insert that follows are apart, *)
(* but the unique constraints refuse what the check has missed.             *)

CreateWarehouse(w) ==
  /\ warehouses[w] = Absent
  /\ \A p \in KnownPlaces : p[1] # w
  /\ \A v \in Live(warehouses) : CodeOf[v] # CodeOf[w]
  /\ warehouses' = [warehouses EXCEPT ![w] = Standing]
  /\ UNCHANGED <<zones, locations, tasks, stock, ledger, request, raced, doubled>>

Child(parent) == [state |-> "live", parent |-> parent]

Within(table, parents) == {id \in Live(table) : table[id].parent \in parents}

CreateZone(z, w) ==
  /\ zones[z] = Absent
  /\ w \in Live(warehouses)
  /\ \A y \in Within(zones, {w}) : CodeOf[y] # CodeOf[z]
  /\ zones' = [zones EXCEPT ![z] = Child(w)]
  /\ UNCHANGED <<warehouses, locations, tasks, stock, ledger, request, raced, doubled>>

CreateLocation(l, z) ==
  /\ locations[l] = Absent
  /\ \A p \in KnownPlaces : p[2] # l
  /\ z \in Live(zones)
  /\ \A k \in Within(locations, {z}) : CodeOf[k] # CodeOf[l]
  /\ locations' = [locations EXCEPT ![l] = Child(z)]
  /\ UNCHANGED <<warehouses, zones, tasks, stock, ledger, request, raced, doubled>>

CreateTask(t, w) ==
  /\ tasks[t] = Absent
  /\ w \in Live(warehouses)
  /\ tasks' = [tasks EXCEPT ![t] = [state |-> "live", warehouse |-> w, status |-> "open"]]
  /\ UNCHANGED <<warehouses, zones, locations, stock, ledger, request, raced, doubled>>

\* From any status to any other.
SetTaskStatus(t, status) ==
  /\ t \in Live(tasks)
  /\ tasks' = [tasks EXCEPT ![t].status = status]
  /\ UNCHANGED <<warehouses, zones, locations, stock, ledger, request, raced, doubled>>

-----------------------------------------------------------------------------
(* Tearing down.  Stock of a warehouse goes with it; stock of a location    *)
(* stays, with location_id NULL, and so do its movements.                   *)

\* A row that an open request has inserted locks what it refers to.
Locked(ws, ls) ==
  \E r \in Open : \E s \in DOMAIN request[r].new :
    request[r].new[s].warehouse \in ws \/ request[r].new[s].location \in ls

Without(table, ids) == [id \in DOMAIN table |-> IF id \in ids THEN Absent ELSE table[id]]

\* Mutant: ON DELETE CASCADE where the schema says SET NULL.
OnTheFloorGone(s, ls) == IF stock[s].location \in ls THEN Absent ELSE stock[s]

OnTheFloor(s, ls) == IF stock[s].location \in ls THEN [stock[s] EXCEPT !.location = Floor] ELSE stock[s]

\* The stock and the movements, without those of ws, those in ls on the floor.
Cleared(ws, ls) ==
  /\ stock' = [s \in StockId |->
                 IF s \notin Live(stock) THEN stock[s]
                 ELSE IF stock[s].warehouse \in ws THEN Absent
                 ELSE OnTheFloor(s, ls)]
  /\ ledger' = [p \in Place |->
                  IF p[1] \in ws \/ p[2] \in ls THEN 0
                  ELSE IF p[2] = Floor THEN ledger[p] + SumFunction([l \in ls |-> ledger[<<p[1], l>>]])
                  ELSE ledger[p]]
  /\ doubled' = (doubled \cup {stock[s].warehouse : s \in {t \in Live(stock) : stock[t].location \in ls}}) \ ws

DeleteLocation(l) ==
  /\ l \in Live(locations)
  /\ ~Locked({}, {l})
  /\ locations' = Without(locations, {l})
  /\ Cleared({}, {l})
  /\ UNCHANGED <<warehouses, zones, tasks, request, raced>>

DeleteZone(z) ==
  /\ z \in Live(zones)
  /\ LET ls == Within(locations, {z})
     IN  /\ ~Locked({}, ls)
         /\ locations' = Without(locations, ls)
         /\ Cleared({}, ls)
  /\ zones' = Without(zones, {z})
  /\ UNCHANGED <<warehouses, tasks, request, raced>>

DeleteWarehouse(w) ==
  /\ w \in Live(warehouses)
  /\ LET zs == Within(zones, {w})
         ls == Within(locations, zs)
     IN  /\ ~Locked({w}, ls)
         /\ zones' = Without(zones, zs)
         /\ locations' = Without(locations, ls)
         /\ Cleared({w}, ls)
  /\ warehouses' = Without(warehouses, {w})
  /\ tasks' = Without(tasks, {t \in Live(tasks) : tasks[t].warehouse = w})
  /\ UNCHANGED <<request, raced>>

-----------------------------------------------------------------------------
(* Requests on stock.                                                       *)

At(place) == {s \in Live(stock) : PlaceOf(stock[s]) = place}

FreshKeys == {s \in StockId : stock[s] = Absent /\ s \notin KnownRows}

\* The foreign keys of a new row, and of a movement.
Exists(place) == place[1] \in Live(warehouses) /\ place[2] \in Live(locations) \cup {Floor}

NewRow(place, quantity) ==
  [state |-> "live", warehouse |-> place[1], location |-> place[2], quantity |-> quantity]

Opens(r, plan) ==
  /\ request[r] = Idle
  /\ \A p \in DOMAIN plan.entries : ledger[p] + plan.entries[p] \in -MaxQuantity..MaxQuantity
  /\ request' = [request EXCEPT ![r] = plan]
  /\ UNCHANGED <<tables, stock, ledger, raced, doubled>>

\* receive_stock and adjust_stock: any one of the rows the place has, or, when
\* _get_or_create_stock finds none, a new one.
ChangeStock(r, place, delta) ==
  \/ \E s \in At(place) :
       /\ stock[s].quantity + delta \in 0..MaxQuantity
       /\ Opens(r, Plan([t \in {s} |-> stock[s].quantity + delta], Nothing,
                        [p \in {place} |-> delta]))
  \/ /\ At(place) = {}
     /\ Exists(place)
     /\ delta \in 0..MaxQuantity
     /\ \E s \in FreshKeys :
          Opens(r, Plan(Nothing, [t \in {s} |-> NewRow(place, delta)], [p \in {place} |-> delta]))

ReceiveStock(r, place) == \E q \in Amount : ChangeStock(r, place, q)

AdjustStock(r, place) == \E q \in Amount : ChangeStock(r, place, q) \/ ChangeStock(r, place, -q)

\* transfer_stock, from floor to floor.  A source without a row has nothing.
TransferStock(r, from, to, q) ==
  LET source == <<from, Floor>>
      target == <<to, Floor>>
      moved == [p \in {source, target} |-> IF p = source THEN -q ELSE q]
  IN  /\ from # to
      /\ \E s \in At(source) :
           /\ stock[s].quantity >= q
           /\ \/ \E t \in At(target) :
                   /\ stock[t].quantity + q <= MaxQuantity
                   /\ Opens(r, Plan([u \in {s, t} |-> stock[u].quantity + moved[PlaceOf(stock[u])]],
                                    Nothing, moved))
              \/ /\ At(target) = {}
                 /\ Exists(target)
                 /\ \E t \in FreshKeys :
                      Opens(r, Plan([u \in {s} |-> stock[s].quantity - q],
                                    [u \in {t} |-> NewRow(target, q)], moved))

\* Mutant: movements have no foreign keys.
PassesUnattached(plan) ==
  /\ DOMAIN plan.writes \subseteq Live(stock)
  /\ \A s \in DOMAIN plan.new : plan.new[s].location = Floor \/ At(PlaceOf(plan.new[s])) = {}

\* Mutant: there is no unique constraint.
PassesTwice(plan) ==
  /\ DOMAIN plan.writes \subseteq Live(stock)
  /\ \A p \in DOMAIN plan.entries : Exists(p)

\* Every row to update is found, the movements' foreign keys hold, and no bin
\* gets a second row.  NULL is not equal to NULL: the floor may.
Passes(plan) ==
  /\ DOMAIN plan.writes \subseteq Live(stock)
  /\ \A p \in DOMAIN plan.entries : Exists(p)
  /\ \A s \in DOMAIN plan.new : plan.new[s].location = Floor \/ At(PlaceOf(plan.new[s])) = {}

Commit(r) ==
  LET plan == request[r]
      others == Open \ {r}
      bare(q) == {request[q].new[s].warehouse :
                    s \in {t \in DOMAIN request[q].new : request[q].new[t].location = Floor}}
  IN  /\ r \in Open
      /\ Passes(plan)
      /\ stock' = [s \in StockId |->
                     IF s \in DOMAIN plan.writes THEN [stock[s] EXCEPT !.quantity = plan.writes[s]]
                     ELSE IF s \in DOMAIN plan.new THEN plan.new[s]
                     ELSE stock[s]]
      /\ ledger' = [p \in Place |->
                      IF p \in DOMAIN plan.entries THEN ledger[p] + plan.entries[p] ELSE ledger[p]]
      /\ request' = [request EXCEPT ![r] = Idle]
      /\ raced' = (raced \/ \E q \in others : DOMAIN request[q].writes \cap DOMAIN plan.writes # {})
      /\ doubled' = doubled \cup (bare(r) \cap UNION {bare(q) : q \in others})
      /\ UNCHANGED tables

\* The database refuses a row: the request is rolled back.
Fail(r) ==
  /\ r \in Open
  /\ ~Passes(request[r])
  /\ request' = [request EXCEPT ![r] = Idle]
  /\ UNCHANGED <<tables, stock, ledger, raced, doubled>>

-----------------------------------------------------------------------------
Build ==
  \/ \E w \in WarehouseId : CreateWarehouse(w)
  \/ \E z \in ZoneId, w \in WarehouseId : CreateZone(z, w)
  \/ \E l \in LocationId, z \in ZoneId : CreateLocation(l, z)

Clear ==
  \/ \E w \in WarehouseId : DeleteWarehouse(w)
  \/ \E z \in ZoneId : DeleteZone(z)
  \/ \E l \in LocationId : DeleteLocation(l)

TaskStep ==
  \E t \in TaskId :
    \/ \E w \in WarehouseId : CreateTask(t, w)
    \/ \E status \in TaskStatus : SetTaskStatus(t, status)

StockStep(r) ==
  \/ \E p \in Place : ReceiveStock(r, p) \/ AdjustStock(r, p)
  \/ \E from, to \in WarehouseId, q \in Amount : TransferStock(r, from, to, q)
  \/ Commit(r)
  \/ Fail(r)

Next == Build \/ Clear \/ TaskStep \/ \E r \in Request : StockStep(r)

Spec == Init /\ [][Next]_vars
-----------------------------------------------------------------------------
(* Properties.                                                              *)

Held(place) == SumFunction([s \in At(place) |-> stock[s].quantity])

\* As long as no request overwrites what another has committed to the same row,
\* what lies at a place is what its movements say, on whichever of its rows and
\* wherever they lay before a location was deleted.  Two that read the same row
\* at a time lose one of the updates and keep both movements.
LedgerExplainsPlaces == ~raced => \A p \in Place : Held(p) = ledger[p]

\* A bin never has two rows.  The floor of a warehouse has two only when first
\* requests for it overlapped, or a location with stock was deleted; the
\* operations then work on any one of them.
OneRowPerPlace ==
  \A p \in Place : p[2] # Floor \/ p[1] \notin doubled => Cardinality(At(p)) <= 1
=============================================================================
