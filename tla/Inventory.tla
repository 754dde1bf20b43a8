----------------------------- MODULE Inventory -----------------------------
(***************************************************************************)
(* The stock tables of backend/app/modules/inventory and the service       *)
(* functions that change them.  Every service function commits exactly     *)
(* once, so here each one is a single step: this is the module's serial    *)
(* semantics, the one its callers count on.  Requests made of several      *)
(* transactions are the subject of Orders; reads and commits of one        *)
(* service call that overlap with another's, that of Warehouse.            *)
(*                                                                         *)
(* Products exist and belong to one organization; a refused call (an       *)
(* early raise) rolls back and is a step that is not enabled.              *)
(***************************************************************************)
EXTENDS Integers, FiniteSets

CONSTANTS
  Product,        \* ids of products
  Warehouse,      \* ids of warehouses
  Location,       \* ids of the bins of the warehouses
  Unlocated,      \* the NULL location_id
  ReservationId,  \* ids stock_reservations can use (bounds the table)
  AlertId,        \* ids stock_alerts can use (bounds the table)
  Ref,            \* values of (ref_type, ref_id), what a reservation is for
  Quantity,       \* the amounts a request may carry
  Threshold,      \* the thresholds an alert may carry
  NoRow,          \* "the table has no such row"
  MaxMovements    \* bounds the length of stock_movements

Place == Product \X Warehouse
Key   == Product \X Warehouse \X (Location \cup {Unlocated})

StockRow       == [quantity: Int, reserved: Int]
ReservationRow == [place: Place, quantity: Quantity, ref: Ref,
                   status: {"active", "released", "consumed"}]
AlertRow       == [place: Place, threshold: Threshold,
                   triggered: BOOLEAN, resolved: BOOLEAN]

MovementType == {"receipt", "adjustment_+", "adjustment_-", "transfer_out",
                 "transfer_in", "reservation", "release", "ship"}

ASSUME InventoryAssumption ==
  /\ Unlocated \notin Location
  /\ IsFiniteSet(ReservationId)
  /\ Quantity \subseteq Nat \ {0}
  /\ Threshold \subseteq Nat
  /\ MaxMovements \in Nat
  /\ NoRow \notin StockRow \cup ReservationRow \cup AlertRow

VARIABLES
  stock,          \* table stock, by its unique key
  reservations,   \* table stock_reservations
  alerts,         \* table stock_alerts
  ledger,         \* per key and type, the sum over the rows of stock_movements
  movements       \* number of rows of stock_movements

inventoryVars == <<stock, reservations, alerts, ledger, movements>>

TypeOK ==
  /\ stock \in [Key -> StockRow \cup {NoRow}]
  /\ reservations \in [ReservationId -> ReservationRow \cup {NoRow}]
  /\ alerts \in [AlertId -> AlertRow \cup {NoRow}]
  /\ ledger \in [Key -> [MovementType -> Int]]
  /\ movements \in Nat

Init ==
  /\ stock = [k \in Key |-> NoRow]
  /\ reservations = [r \in ReservationId |-> NoRow]
  /\ alerts = [a \in AlertId |-> NoRow]
  /\ ledger = [k \in Key |-> [t \in MovementType |-> 0]]
  /\ movements = 0

-----------------------------------------------------------------------------
(* Helpers of the service functions.                                        *)

\* _get_or_create_stock: the row of a key, inserted with zeros when missing.
StockOf(k) == IF stock[k] = NoRow THEN [quantity |-> 0, reserved |-> 0]
                                  ELSE stock[k]

\* That row after quantity and reserved_quantity moved by these amounts.
Booked(k, onHand, held) ==
  [quantity |-> StockOf(k).quantity + onHand, reserved |-> StockOf(k).reserved + held]

\* The row reservations and transfers use: the one with a NULL location.
FloorKey(place) == <<place[1], place[2], Unlocated>>

Available(k) == StockOf(k).quantity - StockOf(k).reserved

\* _log_movement, n rows in one transaction.
CanLog(n) == movements + n <= MaxMovements

LogMovement(k, type, quantity) ==
  /\ CanLog(1)
  /\ ledger' = [ledger EXCEPT ![k][type] = @ + quantity]
  /\ movements' = movements + 1

IsActive(r) == reservations[r] # NoRow /\ reservations[r].status = "active"

Unresolved(table, place) ==
  {a \in AlertId : /\ table[a] # NoRow
                   /\ table[a].place = place
                   /\ ~table[a].resolved}

\* The quantities the alert check may read: its query names the product and
\* the warehouse, not the location, and takes whichever row comes first.
OnHandRead(rows, place) ==
  LET Keys == {k \in Key : <<k[1], k[2]>> = place /\ rows[k] # NoRow}
  IN  IF Keys = {} THEN {0} ELSE {rows[k].quantity : k \in Keys}

\* Mutants of Judged: an alert is never resolved, or only triggers below.
JudgedNeverResolves(alert, onHand) ==
  IF onHand <= alert.threshold THEN [alert EXCEPT !.triggered = TRUE] ELSE alert

\* What the check does to the unresolved alert it picked.
Judged(alert, onHand) ==
  IF onHand <= alert.threshold
  THEN [alert EXCEPT !.triggered = TRUE]
  ELSE [alert EXCEPT !.resolved = alert.triggered]

\* _check_alerts: the tables one check of `place` may leave behind.  It picks
\* one unresolved alert, in no stated order, and leaves the others alone.
CheckAlerts(table, rows, place) ==
  IF Unresolved(table, place) = {} THEN {table}
  ELSE {[table EXCEPT ![a] = Judged(@, onHand)] :
          a \in Unresolved(table, place), onHand \in OnHandRead(rows, place)}

-----------------------------------------------------------------------------
(* Stock.                                                                   *)

ReceiveStock(k, q) ==
  /\ stock' = [stock EXCEPT ![k] = Booked(k, q, 0)]
  /\ LogMovement(k, "receipt", q)
  /\ alerts' \in CheckAlerts(alerts, stock', <<k[1], k[2]>>)
  /\ UNCHANGED reservations

\* Mutant: the log forgets the sign of a negative adjustment.
AdjustStockUnsigned(k, delta) ==
  /\ delta # 0
  /\ StockOf(k).quantity + delta >= 0
  /\ stock' = [stock EXCEPT ![k] = Booked(k, delta, 0)]
  /\ IF delta > 0 THEN LogMovement(k, "adjustment_+", delta)
                   ELSE LogMovement(k, "adjustment_-", -delta)
  /\ alerts' \in CheckAlerts(alerts, stock', <<k[1], k[2]>>)
  /\ UNCHANGED reservations

AdjustStock(k, delta) ==
  /\ delta # 0
  /\ StockOf(k).quantity + delta >= 0
  /\ stock' = [stock EXCEPT ![k] = Booked(k, delta, 0)]
  /\ LogMovement(k, IF delta > 0 THEN "adjustment_+" ELSE "adjustment_-", delta)
  /\ alerts' \in CheckAlerts(alerts, stock', <<k[1], k[2]>>)
  /\ UNCHANGED reservations

TransferStock(p, from, to, q) ==
  LET src == FloorKey(<<p, from>>)
      dst == FloorKey(<<p, to>>)
  IN  /\ from # to
      /\ Available(src) >= q
      /\ stock' = [stock EXCEPT ![src] = Booked(src, -q, 0), ![dst] = Booked(dst, q, 0)]
      /\ CanLog(2)
      /\ ledger' = [ledger EXCEPT ![src]["transfer_out"] = @ - q,
                                  ![dst]["transfer_in"] = @ + q]
      /\ movements' = movements + 2
      /\ \E checked \in CheckAlerts(alerts, stock', <<p, from>>) :
            alerts' \in CheckAlerts(checked, stock', <<p, to>>)
      /\ UNCHANGED reservations

-----------------------------------------------------------------------------
(* Reservations.                                                            *)

\* Mutant: the refusal looks at what is on hand, not at what is available.
ReserveStockOnHand(r, place, q, ref) ==
  LET k == FloorKey(place)
  IN  /\ reservations[r] = NoRow
      /\ StockOf(k).quantity >= q
      /\ stock' = [stock EXCEPT ![k] = Booked(k, 0, q)]
      /\ reservations' = [reservations EXCEPT
                            ![r] = [place |-> place, quantity |-> q,
                                    ref |-> ref, status |-> "active"]]
      /\ LogMovement(k, "reservation", q)
      /\ UNCHANGED alerts

ReserveStock(r, place, q, ref) ==
  LET k == FloorKey(place)
  IN  /\ reservations[r] = NoRow
      /\ Available(k) >= q
      /\ stock' = [stock EXCEPT ![k] = Booked(k, 0, q)]
      /\ reservations' = [reservations EXCEPT
                            ![r] = [place |-> place, quantity |-> q,
                                    ref |-> ref, status |-> "active"]]
      /\ LogMovement(k, "reservation", q)
      /\ UNCHANGED alerts

\* Mutants of SettleReservation: the movement type is stored as the status;
\* shipping does not give back what was held; shipping is logged as a release.
SettleMistyped(r, consume) ==
  LET row == reservations[r]
      k   == FloorKey(row.place)
  IN  /\ row # NoRow
      /\ stock' = [stock EXCEPT ![k] =
                     Booked(k, IF consume THEN -row.quantity ELSE 0, -row.quantity)]
      /\ reservations' = [reservations EXCEPT ![r].status =
                            IF consume THEN "ship" ELSE "release"]
      /\ LogMovement(k, IF consume THEN "ship" ELSE "release", row.quantity)
      /\ alerts' \in CheckAlerts(alerts, stock', row.place)
SettleKeepsHeld(r, consume) ==
  LET row == reservations[r]
      k   == FloorKey(row.place)
  IN  /\ row # NoRow
      /\ stock' = [stock EXCEPT ![k] = IF consume THEN Booked(k, -row.quantity, 0)
                                                  ELSE Booked(k, 0, -row.quantity)]
      /\ reservations' = [reservations EXCEPT ![r].status =
                            IF consume THEN "consumed" ELSE "released"]
      /\ LogMovement(k, IF consume THEN "ship" ELSE "release", row.quantity)
      /\ alerts' \in CheckAlerts(alerts, stock', row.place)

\* The body of release_reservation below its status check.
SettleReservation(r, consume) ==
  LET row == reservations[r]
      k   == FloorKey(row.place)
  IN  /\ row # NoRow
      /\ stock' = [stock EXCEPT ![k] =
                     Booked(k, IF consume THEN -row.quantity ELSE 0, -row.quantity)]
      /\ reservations' = [reservations EXCEPT ![r].status =
                            IF consume THEN "consumed" ELSE "released"]
      /\ LogMovement(k, IF consume THEN "ship" ELSE "release", row.quantity)
      /\ alerts' \in CheckAlerts(alerts, stock', row.place)

ReleaseReservation(r, consume) ==
  /\ IsActive(r)
  /\ SettleReservation(r, consume)

-----------------------------------------------------------------------------
(* Alerts.                                                                  *)

CreateAlert(a, place, threshold) ==
  /\ alerts[a] = NoRow
  /\ alerts' = [alerts EXCEPT ![a] = [place |-> place, threshold |-> threshold,
                                      triggered |-> FALSE, resolved |-> FALSE]]
  /\ UNCHANGED <<stock, reservations, ledger, movements>>

UpdateAlert(a, threshold) ==
  /\ alerts[a] # NoRow
  /\ alerts' \in CheckAlerts([alerts EXCEPT ![a].threshold = threshold],
                             stock, alerts[a].place)
  /\ UNCHANGED <<stock, reservations, ledger, movements>>

ResolveAlert(a) ==
  /\ alerts[a] # NoRow
  /\ alerts' = [alerts EXCEPT ![a].resolved = TRUE]
  /\ UNCHANGED <<stock, reservations, ledger, movements>>

\* low_stock_scan repeats, once per unresolved alert, the same check on the
\* place of that alert.  Nothing is flushed in between, so every repetition
\* for a place reads the same first alert and the same first stock row.
LowStockScan ==
  LET Open == UNION {Unresolved(alerts, place) : place \in Place}
  IN  \E first \in SUBSET Open :
        /\ \A a \in Open : \E b \in first : alerts[a].place = alerts[b].place
        /\ \A a, b \in first : alerts[a].place = alerts[b].place => a = b
        /\ \E onHand \in [first -> UNION {OnHandRead(stock, place) : place \in Place}] :
             /\ \A a \in first : onHand[a] \in OnHandRead(stock, alerts[a].place)
             /\ alerts' = [a \in AlertId |-> IF a \in first
                                             THEN Judged(alerts[a], onHand[a])
                                             ELSE alerts[a]]
        /\ UNCHANGED <<stock, reservations, ledger, movements>>

-----------------------------------------------------------------------------
Adjust(k) == \E q \in Quantity : AdjustStock(k, q) \/ AdjustStock(k, -q)

StockStep ==
  \/ \E k \in Key, q \in Quantity : ReceiveStock(k, q)
  \/ \E k \in Key : Adjust(k)
  \/ \E p \in Product, from, to \in Warehouse, q \in Quantity :
        TransferStock(p, from, to, q)

ReservationStep ==
  \/ \E r \in ReservationId, place \in Place, q \in Quantity, ref \in Ref :
        ReserveStock(r, place, q, ref)
  \/ \E r \in ReservationId, consume \in BOOLEAN : ReleaseReservation(r, consume)

AlertStep ==
  \/ \E a \in AlertId, place \in Place, t \in Threshold : CreateAlert(a, place, t)
  \/ \E a \in AlertId, t \in Threshold : UpdateAlert(a, t)
  \/ \E a \in AlertId : ResolveAlert(a)
  \/ LowStockScan

Next == StockStep \/ ReservationStep \/ AlertStep

Spec == Init /\ [][Next]_inventoryVars

-----------------------------------------------------------------------------
(* Properties.                                                              *)

\* The units active reservations hold at a place, each one distinct: unit i of
\* reservation r.  Their number is the sum of the active quantities.
ActiveAt(place) == {r \in ReservationId : IsActive(r) /\ reservations[r].place = place}

UnitsOf(r) == {r} \X (1..reservations[r].quantity)

HeldUnits(place) == UNION {UnitsOf(r) : r \in ActiveAt(place)}

\* reserved_quantity, a counter that reserve_stock and release_reservation
\* keep by hand, always equals the total of the active reservations of the
\* place, and a bin of a location never holds any.
ReservedIsHeld ==
  /\ \A place \in Place :
        StockOf(FloorKey(place)).reserved = Cardinality(HeldUnits(place))
  /\ \A k \in Key : k[3] # Unlocated => StockOf(k).reserved = 0

\* The movement log explains every stock row: quantity is what came in minus
\* what left (transfer_out and adjustment_- are logged negative, ship is not),
\* reserved is what was reserved and neither released nor shipped.
LedgerExplainsStock ==
  \A k \in Key :
    LET sum == ledger[k]
    IN  /\ StockOf(k).quantity = sum["receipt"] + sum["adjustment_+"] + sum["adjustment_-"]
                                 + sum["transfer_in"] + sum["transfer_out"] - sum["ship"]
        /\ StockOf(k).reserved = sum["reservation"] - sum["release"] - sum["ship"]

\* Only a manual adjustment can take a row from covering its reservations to
\* not covering them: receipts, transfers, reservations, releases and
\* shipments all keep available stock at zero or more.
OnlyAdjustmentsOvercommit ==
  [][\A k \in Key : Available(k) >= 0 /\ Available(k)' < 0 => Adjust(k)]_inventoryVars

\* A reservation that was released or consumed stays exactly as it is, and a
\* live one only ever changes its status: nothing is settled twice.
SettledOnce ==
  [][\A r \in ReservationId :
       reservations[r] # NoRow /\ reservations'[r] # reservations[r] =>
         /\ IsActive(r)
         /\ reservations'[r] = [reservations[r] EXCEPT !.status = reservations'[r].status]
         /\ reservations'[r].status \in {"released", "consumed"}]_inventoryVars

\* An alert that is alone at its place and watches a single stock row.
Sole(a) ==
  /\ alerts[a] # NoRow
  /\ \A b \in AlertId \ {a} : alerts[b] # NoRow => alerts[b].place # alerts[a].place
  /\ Cardinality({k \in Key : <<k[1], k[2]>> = alerts[a].place /\ stock[k] # NoRow}) <= 1

OnHandAt(place) == CHOOSE q \in OnHandRead(stock, place) : TRUE

\* A triggered alert that stands alone is telling the truth: on hand is at or
\* below its threshold for as long as it is triggered and not resolved.
TriggeredIsLow ==
  \A a \in AlertId :
    Sole(a) /\ alerts[a].triggered /\ ~alerts[a].resolved
      => OnHandAt(alerts[a].place) <= alerts[a].threshold
=============================================================================
