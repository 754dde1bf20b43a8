------------------------------- MODULE Orders -------------------------------
(***************************************************************************)
(* backend/app/modules/orders: the order lifecycle on top of the stock     *)
(* tables.  transition_order and cancel_order call reserve_stock and       *)
(* release_reservation, and each of those commits, so one request is a     *)
(* series of transactions that other requests interleave with and that a   *)
(* refusal or a crash cuts short.                                          *)
(*                                                                         *)
(* A worker carries what its session read at the start (sessions do not    *)
(* expire on commit): the status of the order, and for each reservation    *)
(* it listed, the status "active".  A step of a request is one             *)
(* transaction, and no two overlap.                                        *)
(*                                                                         *)
(* Left out: prices, totals, customers, and the domain event of a status   *)
(* change, which is written in the transaction that appends the history.   *)
(***************************************************************************)
EXTENDS Inventory, Sequences

CONSTANTS
  Order,          \* order numbers
  Worker,         \* requests served at the same time
  Basket,         \* the sets of item rows an order may be created with
  MaxHistory,     \* bounds order_status_history, per order
  Exclusive,      \* callers send one status request per order at a time
  Crashes,        \* a request may die between two of its transactions
  Direct          \* what staff reserve stock for through the stock API

ItemRow == UNION Basket

OrderTransitions ==
  [draft              |-> {"confirmed", "cancelled"},
   confirmed          |-> {"reserved", "cancelled"},
   reserved           |-> {"picking", "cancelled"},
   picking            |-> {"packed", "cancelled"},
   packed             |-> {"ready_for_dispatch", "cancelled"},
   ready_for_dispatch |-> {"dispatched", "cancelled"},
   dispatched         |-> {"delivered"},
   delivered          |-> {},
   cancelled          |-> {},
   on_hold            |-> {"confirmed", "cancelled"}]

Status == DOMAIN OrderTransitions

OrderRow   == [status: Status, items: SUBSET ItemRow]
HistoryRow == [from: Status \cup {"new"}, to: Status]

\* todo: the items still to reserve or the reservations still to settle, and
\* NoRow until the request has listed them.
RequestRow == [order: Order, from: Status, target: Status,
               warehouse: Warehouse \cup {NoRow},
               todo: (SUBSET (ItemRow \cup ReservationId)) \cup {NoRow}]

ASSUME OrdersAssumption ==
  /\ Order \subseteq Ref
  /\ \A item \in ItemRow : item.product \in Product /\ item.quantity \in Quantity
  /\ MaxHistory \in Nat
  /\ {Exclusive, Crashes} \subseteq BOOLEAN
  /\ Direct \subseteq Ref \ Order
  /\ NoRow \notin OrderRow \cup RequestRow

VARIABLES
  orders,   \* table orders with its order_items
  history,  \* table order_status_history, per order in order of creation
  request   \* what each worker is serving

vars == <<inventoryVars, orders, history, request>>

OrdersTypeOK ==
  /\ TypeOK
  /\ orders \in [Order -> OrderRow \cup {NoRow}]
  /\ \A o \in Order : \A i \in 1..Len(history[o]) : history[o][i] \in HistoryRow
  /\ request \in [Worker -> RequestRow \cup {NoRow}]

OrdersInit ==
  /\ Init
  /\ orders = [o \in Order |-> NoRow]
  /\ history = [o \in Order |-> <<>>]
  /\ request = [w \in Worker |-> NoRow]

-----------------------------------------------------------------------------
(* Drafts: one transaction each.                                            *)

\* Mutant: the status "new" of the first history row is stored on the order.
CreateOrderAsNew(o, items) ==
  /\ orders[o] = NoRow
  /\ orders' = [orders EXCEPT ![o] = [status |-> "new", items |-> items]]
  /\ history' = [history EXCEPT ![o] = <<[from |-> "new", to |-> "draft"]>>]
  /\ UNCHANGED <<inventoryVars, request>>

CreateOrder(o, items) ==
  /\ orders[o] = NoRow
  /\ orders' = [orders EXCEPT ![o] = [status |-> "draft", items |-> items]]
  /\ history' = [history EXCEPT ![o] = <<[from |-> "new", to |-> "draft"]>>]
  /\ UNCHANGED <<inventoryVars, request>>

\* One commit for the whole file; the rows whose number exists are skipped.  A
\* row that the database refuses leaves the session unusable: the commit then
\* fails, and nothing of the file is stored.
ImportOrders(rows, items) ==
  LET created == {o \in rows : orders[o] = NoRow}
  IN  /\ orders' = [o \in Order |-> IF o \in created
                                    THEN [status |-> "draft", items |-> items[o]]
                                    ELSE orders[o]]
      /\ history' = [o \in Order |-> IF o \in created
                                     THEN <<[from |-> "new", to |-> "draft"]>>
                                     ELSE history[o]]
      /\ UNCHANGED <<inventoryVars, request>>

Editable(o) == orders[o] # NoRow /\ orders[o].status \in {"draft", "on_hold"}

AddOrderItem(o, item) ==
  /\ Editable(o)
  /\ item \notin orders[o].items
  /\ orders' = [orders EXCEPT ![o].items = @ \cup {item}]
  /\ UNCHANGED <<inventoryVars, history, request>>

RemoveOrderItem(o, item) ==
  /\ Editable(o)
  /\ item \in orders[o].items
  /\ orders' = [orders EXCEPT ![o].items = @ \ {item}]
  /\ UNCHANGED <<inventoryVars, history, request>>

-----------------------------------------------------------------------------
(* Status requests.                                                         *)

InProgress(o) == \E w \in Worker : request[w] # NoRow /\ request[w].order = o

ActiveFor(o) == {r \in ReservationId : IsActive(r) /\ reservations[r].ref = o}

Accept(w, o, target, warehouse) ==
  /\ request[w] = NoRow
  /\ orders[o] # NoRow
  /\ Exclusive => ~InProgress(o)
  /\ request' = [request EXCEPT
                   ![w] = [order |-> o, from |-> orders[o].status, target |-> target,
                           warehouse |-> warehouse, todo |-> NoRow]]
  /\ UNCHANGED <<inventoryVars, orders, history>>

\* transition_order up to its guards.
StartTransition(w, o, target, warehouse) ==
  /\ Accept(w, o, target, warehouse)
  /\ target \in OrderTransitions[orders[o].status]
  /\ (target = "reserved") = (warehouse # NoRow)

\* cancel_order up to its guard, which is wider than OrderTransitions.
StartCancel(w, o) ==
  /\ Accept(w, o, "cancelled", NoRow)
  /\ orders[o].status \notin {"delivered", "cancelled"}

\* Mutants of ListWork: a dispatch, or a cancellation, lists no reservations.
ListWorkOf(w, todo) ==
  /\ request[w] # NoRow
  /\ request[w].todo = NoRow
  /\ request' = [request EXCEPT ![w].todo = todo]
  /\ UNCHANGED <<inventoryVars, orders, history>>
ListWorkNoCancel(w) ==
  ListWorkOf(w, CASE request[w].target = "reserved" -> orders[request[w].order].items
                  [] request[w].target = "dispatched" -> ActiveFor(request[w].order)
                  [] OTHER -> {})

\* The query that lists what the request has to work through.
ListWork(w) ==
  LET req == request[w]
  IN  /\ req # NoRow
      /\ req.todo = NoRow
      /\ request' = [request EXCEPT ![w].todo =
                       CASE req.target = "reserved" -> orders[req.order].items
                         [] req.target \in {"cancelled", "dispatched"} -> ActiveFor(req.order)
                         [] OTHER -> {}]
      /\ UNCHANGED <<inventoryVars, orders, history>>

\* Working(w) guards the steps that follow ListWork.
Working(w) == request[w] # NoRow /\ request[w].todo # NoRow

ReserveItem(w) ==
  /\ Working(w)
  /\ request[w].target = "reserved"
  /\ \E item \in request[w].todo, r \in ReservationId :
       /\ ReserveStock(r, <<item.product, request[w].warehouse>>,
                       item.quantity, request[w].order)
       /\ request' = [request EXCEPT ![w].todo = @ \ {item}]
  /\ UNCHANGED <<orders, history>>

\* Mutant: the conflict is swallowed and the request goes on without the item.
RefuseItemAndGoOn(w) ==
  /\ Working(w)
  /\ request[w].target = "reserved"
  /\ \E item \in request[w].todo :
       /\ Available(FloorKey(<<item.product, request[w].warehouse>>)) < item.quantity
       /\ request' = [request EXCEPT ![w].todo = @ \ {item}]
  /\ UNCHANGED <<inventoryVars, orders, history>>

\* ConflictError in reserve_stock: the request ends, what it reserved stays.
RefuseItem(w) ==
  /\ Working(w)
  /\ request[w].target = "reserved"
  /\ \E item \in request[w].todo :
       Available(FloorKey(<<item.product, request[w].warehouse>>)) < item.quantity
  /\ request' = [request EXCEPT ![w] = NoRow]
  /\ UNCHANGED <<inventoryVars, orders, history>>

\* Mutant: a cancellation consumes like a dispatch.
SettleListedConsuming(w) ==
  /\ Working(w)
  /\ request[w].target \in {"cancelled", "dispatched"}
  /\ \E r \in request[w].todo :
       /\ SettleReservation(r, TRUE)
       /\ request' = [request EXCEPT ![w].todo = @ \ {r}]
  /\ UNCHANGED <<orders, history>>

\* release_reservation on a row listed earlier: its status check passes on the
\* value read then, whatever the table says now.
SettleListed(w) ==
  /\ Working(w)
  /\ request[w].target \in {"cancelled", "dispatched"}
  /\ \E r \in request[w].todo :
       /\ SettleReservation(r, request[w].target = "dispatched")
       /\ request' = [request EXCEPT ![w].todo = @ \ {r}]
  /\ UNCHANGED <<orders, history>>

\* Mutants of Finish: the status is written before the work is done; the
\* history row starts at the new status.
FinishAs(w, entries) ==
  /\ Working(w)
  /\ Len(history[request[w].order]) < MaxHistory
  /\ orders' = [orders EXCEPT ![request[w].order].status = request[w].target]
  /\ history' = [history EXCEPT ![request[w].order] = @ \o entries]
  /\ request' = [request EXCEPT ![w] = NoRow]
  /\ UNCHANGED inventoryVars
FinishFirst(w) ==
  FinishAs(w, <<[from |-> request[w].from, to |-> request[w].target]>>)
FinishFromTarget(w) ==
  /\ Working(w) /\ request[w].todo = {}
  /\ FinishAs(w, <<[from |-> request[w].target, to |-> request[w].target]>>)
\* The last transaction: the status is overwritten without being read again.
Finish(w) ==
  LET req == request[w]
  IN  /\ Working(w)
      /\ req.todo = {}
      /\ Len(history[req.order]) < MaxHistory
      /\ orders' = [orders EXCEPT ![req.order].status = req.target]
      /\ history' = [history EXCEPT ![req.order] =
                       Append(@, [from |-> req.from, to |-> req.target])]
      /\ request' = [request EXCEPT ![w] = NoRow]
      /\ UNCHANGED inventoryVars

\* The process dies, or the database refuses: the open transaction is lost.
Crash(w) ==
  /\ Crashes
  /\ request[w] # NoRow
  /\ request' = [request EXCEPT ![w] = NoRow]
  /\ UNCHANGED <<inventoryVars, orders, history>>

-----------------------------------------------------------------------------
DraftStep ==
  \/ \E o \in Order, items \in Basket : CreateOrder(o, items)
  \/ \E rows \in (SUBSET Order) \ {{}} : \E items \in [rows -> Basket] : ImportOrders(rows, items)
  \/ \E o \in Order, item \in ItemRow : AddOrderItem(o, item)
  \/ \E o \in Order, item \in ItemRow : RemoveOrderItem(o, item)

WorkStep(w) ==
  \/ ListWork(w)
  \/ ReserveItem(w)
  \/ RefuseItem(w)
  \/ SettleListed(w)
  \/ Finish(w)

RequestStep(w) ==
  \/ \E o \in Order, target \in Status, warehouse \in Warehouse \cup {NoRow} :
        StartTransition(w, o, target, warehouse)
  \/ \E o \in Order : StartCancel(w, o)
  \/ WorkStep(w)
  \/ Crash(w)

\* The rest of the API on the stock tables: staff leave the reservations of
\* orders to the orders.  What it does to alerts is the subject of Inventory.
DirectReservation ==
  \/ \E r \in ReservationId, place \in Place, q \in Quantity, ref \in Direct :
        ReserveStock(r, place, q, ref)
  \/ \E r \in ReservationId, consume \in BOOLEAN :
        /\ IsActive(r)
        /\ reservations[r].ref \in Direct
        /\ ReleaseReservation(r, consume)

StockRequest ==
  /\ StockStep \/ DirectReservation
  /\ UNCHANGED <<orders, history, request>>

OrdersNext ==
  \/ DraftStep
  \/ \E w \in Worker : RequestStep(w)
  \/ StockRequest

OrdersSpec == OrdersInit /\ [][OrdersNext]_vars

-----------------------------------------------------------------------------
(* Properties.                                                              *)

Quiet(o) == orders[o] # NoRow /\ ~InProgress(o)

\* The units that items ask for of a product: unit i of an item row.
AskedUnits(items, p) ==
  UNION {{item} \X (1..item.quantity) : item \in {i \in items : i.product = p}}

\* The units that an order's reservations hold, or took, at a place.
UnitsFor(o, place, statuses) ==
  UNION {UnitsOf(r) : r \in {s \in ReservationId : /\ reservations[s] # NoRow
                                                /\ reservations[s].ref = o
                                                /\ reservations[s].place = place
                                                /\ reservations[s].status \in statuses}}

\* As many, of every product, from one warehouse.
Suffices(o, warehouse, statuses, items) ==
  \A p \in Product :
    Cardinality(UnitsFor(o, <<p, warehouse>>, statuses)) >= Cardinality(AskedUnits(items, p))

Covers(o, statuses) ==
  \E warehouse \in Warehouse : Suffices(o, warehouse, statuses, orders[o].items)

\* From reserved to ready_for_dispatch an order holds, in one warehouse, at
\* least what its items ask for: no retry, refusal or other order's request
\* takes it away.  Dispatched and delivered orders have consumed as much.
ReservedIsCovered ==
  \A o \in Order : Quiet(o) =>
    /\ orders[o].status \in {"reserved", "picking", "packed", "ready_for_dispatch"}
         => Covers(o, {"active"})
    /\ orders[o].status \in {"dispatched", "delivered"} => Covers(o, {"consumed"})

\* An order that has left the warehouse or was cancelled holds no stock: what
\* earlier attempts reserved has been settled, all of it, by the request that
\* moved the order there.
ClosedHoldsNothing ==
  \A o \in Order :
    orders[o] # NoRow /\ orders[o].status \in {"dispatched", "delivered", "cancelled"}
      => ActiveFor(o) = {}

\* The history of an order is a path that ends where the order is: each row
\* starts where the one before ended, although its start is what the request
\* read before its other commits.
HistoryIsPath ==
  \A o \in Order : orders[o] # NoRow =>
    /\ orders[o].status = history[o][Len(history[o])].to
    /\ \A i \in 2..Len(history[o]) : history[o][i].from = history[o][i - 1].to

\* Stock leaves for an order only through its one dispatch: while an order is
\* short of dispatch and no dispatch of it is under way, none of its
\* reservations is consumed.
ConsumedByDispatch ==
  \A o \in Order :
    (\E r \in ReservationId : /\ reservations[r] # NoRow
                              /\ reservations[r].ref = o
                              /\ reservations[r].status = "consumed")
      => \/ orders[o].status \in {"dispatched", "delivered", "cancelled"}
         \/ \E w \in Worker : /\ request[w] # NoRow
                              /\ request[w].order = o
                              /\ request[w].target = "dispatched"
=============================================================================
