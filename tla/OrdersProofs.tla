---------------------------- MODULE OrdersProofs ----------------------------
(***************************************************************************)
(* What is proved of Inventory, for every value of its constants, and of   *)
(* Orders, for any orders, stock and requests: there, what holds as long   *)
(* as callers send one status request per order at a time, however         *)
(* requests are refused, die or are repeated.                              *)
(***************************************************************************)
EXTENDS Orders, FiniteSetTheorems, TLAPS

-----------------------------------------------------------------------------
(* The helpers, on well-typed tables.                                       *)

\* The amounts of requests are positive integers.
LEMMA QuantityType ==
  ASSUME NEW q \in Quantity
  PROVE  q \in Nat /\ q > 0
BY InventoryAssumption

\* _get_or_create_stock hands every caller a stock row.
LEMMA StockOfType ==
  ASSUME TypeOK, NEW k \in Key
  PROVE  StockOf(k) \in StockRow
BY DEF TypeOK, StockOf, StockRow

\* ... and moving its two counters leaves a stock row.
LEMMA BookedType ==
  ASSUME TypeOK, NEW k \in Key, NEW onHand \in Int, NEW held \in Int
  PROVE  Booked(k, onHand, held) \in StockRow
BY StockOfType DEF Booked, StockRow

\* The row reservations of a place use is a row of the table.
LEMMA FloorKeyType ==
  ASSUME NEW place \in Place
  PROVE  /\ FloorKey(place) \in Key
         /\ FloorKey(place)[3] = Unlocated
         /\ <<FloorKey(place)[1], FloorKey(place)[2]>> = place
BY DEF Place, Key, FloorKey

\* Two places never share a row.
LEMMA FloorKeyInjective ==
  ASSUME NEW p \in Place, NEW q \in Place, FloorKey(p) = FloorKey(q)
  PROVE  p = q
BY FloorKeyType

\* What the check reads is a quantity.
LEMMA OnHandReadType ==
  ASSUME NEW rows \in [Key -> StockRow \cup {NoRow}], NEW place \in Place,
         NEW onHand \in OnHandRead(rows, place)
  PROVE  onHand \in Int
<1> DEFINE Keys == {k \in Key : <<k[1], k[2]>> = place /\ rows[k] # NoRow}
<1>1. CASE Keys = {}
  BY <1>1 DEF OnHandRead
<1>2. CASE Keys # {}
  <2>1. PICK k \in Keys : onHand = rows[k].quantity
    BY <1>2 DEF OnHandRead
  <2>2. rows[k] \in StockRow
    BY <2>1
  <2>. QED
    BY <2>1, <2>2 DEF StockRow
<1>. QED
  BY <1>1, <1>2

\* Judging an alert leaves an alert row.
LEMMA JudgedType ==
  ASSUME NEW alert \in AlertRow, NEW onHand \in Int
  PROVE  Judged(alert, onHand) \in AlertRow
BY DEF Judged, AlertRow

\* _check_alerts leaves an alerts table.
LEMMA CheckAlertsType ==
  ASSUME NEW table \in [AlertId -> AlertRow \cup {NoRow}],
         NEW rows \in [Key -> StockRow \cup {NoRow}], NEW place \in Place,
         NEW checked \in CheckAlerts(table, rows, place)
  PROVE  checked \in [AlertId -> AlertRow \cup {NoRow}]
<1>1. CASE Unresolved(table, place) = {}
  BY <1>1 DEF CheckAlerts
<1>2. CASE Unresolved(table, place) # {}
  <2>1. PICK a \in Unresolved(table, place), onHand \in OnHandRead(rows, place) :
              checked = [table EXCEPT ![a] = Judged(@, onHand)]
    BY <1>2 DEF CheckAlerts
  <2>2. a \in AlertId /\ table[a] \in AlertRow
    BY DEF Unresolved
  <2>3. Judged(table[a], onHand) \in AlertRow
    BY <2>2, OnHandReadType, JudgedType
  <2>. QED
    BY <2>1, <2>2, <2>3
<1>. QED
  BY <1>1, <1>2

\* _log_movement keeps the sums of the log integers.
LEMMA LogMovementType ==
  ASSUME TypeOK, NEW k \in Key, NEW type \in MovementType, NEW q \in Int,
         LogMovement(k, type, q)
  PROVE  /\ ledger' \in [Key -> [MovementType -> Int]]
         /\ movements' \in Nat
BY DEF TypeOK, LogMovement

-----------------------------------------------------------------------------
(* Type correctness, one lemma per operation.                               *)

\* Writing a stock row that was got or created keeps the table well typed.
LEMMA WriteStockType ==
  ASSUME TypeOK, NEW k \in Key, NEW row \in StockRow
  PROVE  [stock EXCEPT ![k] = row] \in [Key -> StockRow \cup {NoRow}]
BY DEF TypeOK

\* receive_stock keeps the tables well typed.
LEMMA ReceiveStockType ==
  ASSUME TypeOK, NEW k \in Key, NEW q \in Quantity, ReceiveStock(k, q)
  PROVE  TypeOK'
<1>1. q \in Int
  BY InventoryAssumption
<1>2. stock' \in [Key -> StockRow \cup {NoRow}]
  <2>1. Booked(k, q, 0) \in StockRow
    BY <1>1, BookedType
  <2>. QED
    BY <2>1, WriteStockType DEF ReceiveStock
<1>3. alerts' \in [AlertId -> AlertRow \cup {NoRow}]
  <2>1. <<k[1], k[2]>> \in Place
    BY DEF Key, Place
  <2>. QED
    BY <2>1, <1>2, CheckAlertsType DEF ReceiveStock, TypeOK
<1>4. ledger' \in [Key -> [MovementType -> Int]] /\ movements' \in Nat
  BY <1>1, LogMovementType DEF ReceiveStock, MovementType
<1>. QED
  BY <1>2, <1>3, <1>4 DEF TypeOK, ReceiveStock

\* adjust_stock keeps the tables well typed.
LEMMA AdjustStockType ==
  ASSUME TypeOK, NEW k \in Key, NEW delta \in Int, AdjustStock(k, delta)
  PROVE  TypeOK'
<1>1. stock' \in [Key -> StockRow \cup {NoRow}]
  <2>1. Booked(k, delta, 0) \in StockRow
    BY BookedType
  <2>. QED
    BY <2>1, WriteStockType DEF AdjustStock
<1>2. alerts' \in [AlertId -> AlertRow \cup {NoRow}]
  <2>1. <<k[1], k[2]>> \in Place
    BY DEF Key, Place
  <2>. QED
    BY <2>1, <1>1, CheckAlertsType DEF AdjustStock, TypeOK
<1>3. ledger' \in [Key -> [MovementType -> Int]] /\ movements' \in Nat
  BY LogMovementType DEF AdjustStock, MovementType
<1>. QED
  BY <1>1, <1>2, <1>3 DEF TypeOK, AdjustStock

\* transfer_stock keeps the tables well typed.
LEMMA TransferStockType ==
  ASSUME TypeOK, NEW p \in Product, NEW from \in Warehouse, NEW to \in Warehouse,
         NEW q \in Quantity, TransferStock(p, from, to, q)
  PROVE  TypeOK'
<1> DEFINE src == FloorKey(<<p, from>>)
           dst == FloorKey(<<p, to>>)
<1>1. q \in Int /\ <<p, from>> \in Place /\ <<p, to>> \in Place
  BY InventoryAssumption DEF Place
<1>2. src \in Key /\ dst \in Key
  BY <1>1, FloorKeyType
<1>3. stock' \in [Key -> StockRow \cup {NoRow}]
  <2>1. Booked(src, -q, 0) \in StockRow /\ Booked(dst, q, 0) \in StockRow
    BY <1>1, <1>2, BookedType
  <2>. QED
    BY <2>1, <1>2 DEF TransferStock, TypeOK
<1>4. alerts' \in [AlertId -> AlertRow \cup {NoRow}]
  <2>1. PICK checked \in CheckAlerts(alerts, stock', <<p, from>>) :
              alerts' \in CheckAlerts(checked, stock', <<p, to>>)
    BY DEF TransferStock
  <2>2. checked \in [AlertId -> AlertRow \cup {NoRow}]
    BY <1>1, <1>3, CheckAlertsType DEF TypeOK
  <2>. QED
    BY <2>1, <2>2, <1>1, <1>3, CheckAlertsType
<1>5. ledger' \in [Key -> [MovementType -> Int]]
  <2>. DEFINE once == [ledger EXCEPT ![src]["transfer_out"] = @ - q]
  <2>1. once \in [Key -> [MovementType -> Int]]
    BY <1>1, <1>2 DEF TypeOK, MovementType
  <2>2. ledger' = [once EXCEPT ![dst]["transfer_in"] = @ + q]
    BY DEF TransferStock
  <2>. HIDE DEF once
  <2>. QED
    BY <2>1, <2>2, <1>1, <1>2 DEF MovementType
<1>6. reservations' = reservations /\ movements' = movements + 2
  BY DEF TransferStock
<1>. QED
  BY <1>3, <1>4, <1>5, <1>6 DEF TypeOK

\* reserve_stock keeps the tables well typed.
LEMMA ReserveStockType ==
  ASSUME TypeOK, NEW r \in ReservationId, NEW place \in Place,
         NEW q \in Quantity, NEW ref \in Ref, ReserveStock(r, place, q, ref)
  PROVE  TypeOK'
<1> DEFINE k == FloorKey(place)
<1>1. q \in Int /\ k \in Key
  BY InventoryAssumption, FloorKeyType
<1>2. stock' \in [Key -> StockRow \cup {NoRow}]
  <2>1. Booked(k, 0, q) \in StockRow
    BY <1>1, BookedType
  <2>. QED
    BY <2>1, <1>1, WriteStockType DEF ReserveStock
<1>3. reservations' \in [ReservationId -> ReservationRow \cup {NoRow}]
  BY DEF TypeOK, ReserveStock, ReservationRow
<1>4. ledger' \in [Key -> [MovementType -> Int]] /\ movements' \in Nat
  BY <1>1, LogMovementType DEF ReserveStock, MovementType
<1>. QED
  BY <1>2, <1>3, <1>4 DEF TypeOK, ReserveStock

\* The body of release_reservation keeps the tables well typed.
LEMMA SettleReservationType ==
  ASSUME TypeOK, NEW r \in ReservationId, NEW consume \in BOOLEAN,
         SettleReservation(r, consume)
  PROVE  TypeOK'
<1> DEFINE row == reservations[r]
           k   == FloorKey(row.place)
<1>1. row \in ReservationRow
  BY DEF TypeOK, SettleReservation
<1>2. row.place \in Place /\ row.quantity \in Int /\ k \in Key
  <2>1. row.place \in Place /\ row.quantity \in Quantity
    BY <1>1 DEF ReservationRow
  <2>2. row.quantity \in Int
    BY <2>1, QuantityType
  <2>. QED
    BY <2>1, <2>2, FloorKeyType
<1>3. stock' \in [Key -> StockRow \cup {NoRow}]
  <2> DEFINE taken == IF consume THEN -row.quantity ELSE 0
  <2>1. Booked(k, taken, -row.quantity) \in StockRow
    BY <1>2, BookedType
  <2>. QED
    BY <2>1, <1>2, WriteStockType DEF SettleReservation
<1>4. reservations' \in [ReservationId -> ReservationRow \cup {NoRow}]
  BY <1>1 DEF TypeOK, SettleReservation, ReservationRow
<1>5. alerts' \in [AlertId -> AlertRow \cup {NoRow}]
  BY <1>2, <1>3, CheckAlertsType DEF SettleReservation, TypeOK
<1>6. ledger' \in [Key -> [MovementType -> Int]] /\ movements' \in Nat
  BY <1>2, LogMovementType DEF SettleReservation, MovementType
<1>. QED
  BY <1>3, <1>4, <1>5, <1>6 DEF TypeOK

\* create_alert, update_alert, resolve_alert and the scan keep the tables well
\* typed.
LEMMA AlertStepType ==
  ASSUME TypeOK, AlertStep
  PROVE  TypeOK'
<1>1. ASSUME NEW a \in AlertId, NEW place \in Place, NEW t \in Threshold,
             CreateAlert(a, place, t)
      PROVE  TypeOK'
  <2> DEFINE row == [place |-> place, threshold |-> t,
                     triggered |-> FALSE, resolved |-> FALSE]
  <2>1. row \in AlertRow
    BY DEF AlertRow
  <2>2. alerts' = [alerts EXCEPT ![a] = row]
    BY <1>1 DEF CreateAlert
  <2> HIDE DEF row
  <2>3. alerts' \in [AlertId -> AlertRow \cup {NoRow}]
    BY <2>1, <2>2 DEF TypeOK
  <2>. QED
    BY <1>1, <2>3 DEF CreateAlert, TypeOK
<1>2. ASSUME NEW a \in AlertId, NEW t \in Threshold, UpdateAlert(a, t)
      PROVE  TypeOK'
  <2> DEFINE table == [alerts EXCEPT ![a].threshold = t]
  <2>1. alerts[a] \in AlertRow
    BY <1>2 DEF UpdateAlert, TypeOK
  <2>2. alerts[a].place \in Place
    BY <2>1 DEF AlertRow
  <2>3. table \in [AlertId -> AlertRow \cup {NoRow}]
    BY <2>1 DEF TypeOK, AlertRow
  <2>4. alerts' \in CheckAlerts(table, stock, alerts[a].place)
    BY <1>2 DEF UpdateAlert
  <2> HIDE DEF table
  <2>5. alerts' \in [AlertId -> AlertRow \cup {NoRow}]
    BY <2>2, <2>3, <2>4, CheckAlertsType DEF TypeOK
  <2>. QED
    BY <1>2, <2>5 DEF UpdateAlert, TypeOK
<1>3. ASSUME NEW a \in AlertId, ResolveAlert(a)
      PROVE  TypeOK'
  <2>1. alerts[a] \in AlertRow
    BY <1>3 DEF ResolveAlert, TypeOK
  <2>2. alerts' \in [AlertId -> AlertRow \cup {NoRow}]
    BY <1>3, <2>1 DEF ResolveAlert, TypeOK, AlertRow
  <2>. QED
    BY <1>3, <2>2 DEF ResolveAlert, TypeOK
<1>4. ASSUME LowStockScan
      PROVE  TypeOK'
  <2> DEFINE Open == UNION {Unresolved(alerts, place) : place \in Place}
             Read == UNION {OnHandRead(stock, place) : place \in Place}
  <2>0. PICK first \in SUBSET Open :
          \E onHand \in [first -> Read] :
            /\ \A a \in first : onHand[a] \in OnHandRead(stock, alerts[a].place)
            /\ alerts' = [a \in AlertId |-> IF a \in first
                                            THEN Judged(alerts[a], onHand[a])
                                            ELSE alerts[a]]
    BY <1>4 DEF LowStockScan
  <2>1. PICK onHand \in [first -> Read] :
          /\ \A a \in first : onHand[a] \in OnHandRead(stock, alerts[a].place)
          /\ alerts' = [a \in AlertId |-> IF a \in first
                                          THEN Judged(alerts[a], onHand[a])
                                          ELSE alerts[a]]
    BY <2>0
  <2>2. ASSUME NEW a \in first
        PROVE  Judged(alerts[a], onHand[a]) \in AlertRow
    <3>1. alerts[a] \in AlertRow
      BY DEF Unresolved, TypeOK
    <3>2. alerts[a].place \in Place
      BY <3>1 DEF AlertRow
    <3>3. onHand[a] \in Int
      BY <2>1, <3>2, OnHandReadType DEF TypeOK
    <3>. QED
      BY <3>1, <3>3, JudgedType
  <2>3. alerts' \in [AlertId -> AlertRow \cup {NoRow}]
    BY <2>1, <2>2 DEF TypeOK
  <2>4. UNCHANGED <<stock, reservations, ledger, movements>>
    BY <1>4 DEF LowStockScan
  <2>. QED
    BY <2>3, <2>4 DEF TypeOK
<1>. QED
  BY <1>1, <1>2, <1>3, <1>4 DEF AlertStep

\* Every step of the service keeps the tables well typed.
LEMMA NextType ==
  ASSUME TypeOK, [Next]_inventoryVars
  PROVE  TypeOK'
<1>1. ASSUME StockStep
      PROVE  TypeOK'
  <2>1. ASSUME NEW k \in Key, NEW q \in Quantity,
               AdjustStock(k, q) \/ AdjustStock(k, -q)
        PROVE  TypeOK'
    <3>1. q \in Int /\ -q \in Int
      BY QuantityType
    <3>. QED
      BY <2>1, <3>1, AdjustStockType
  <2>. QED
    BY <1>1, <2>1, ReceiveStockType, TransferStockType DEF StockStep, Adjust
<1>2. ASSUME ReservationStep
      PROVE  TypeOK'
  <2>1. ASSUME NEW r \in ReservationId, NEW consume \in BOOLEAN,
               ReleaseReservation(r, consume)
        PROVE  TypeOK'
    BY <2>1, SettleReservationType DEF ReleaseReservation
  <2>. QED
    BY <1>2, <2>1, ReserveStockType DEF ReservationStep
<1>3. CASE UNCHANGED inventoryVars
  BY <1>3 DEF inventoryVars, TypeOK
<1>. QED
  BY <1>1, <1>2, <1>3, AlertStepType DEF Next

\* The tables are well typed in every reachable state.
THEOREM TypeCorrect == Spec => []TypeOK
<1>1. Init => TypeOK
  BY DEF Init, TypeOK, StockRow, MovementType
<1>. QED
  BY <1>1, NextType, PTL DEF Spec

-----------------------------------------------------------------------------
(* The movement log explains the stock rows.                                *)

\* NULL is not a row: a written row is read back as written.
LEMMA RowIsNotNoRow ==
  /\ \A row \in StockRow : row # NoRow
  /\ \A row \in ReservationRow : row # NoRow
BY InventoryAssumption

\* After one row was booked, that row reads as booked and the others as before.
LEMMA StockWritten ==
  ASSUME TypeOK, NEW k \in Key, NEW onHand \in Int, NEW held \in Int,
         stock' = [stock EXCEPT ![k] = Booked(k, onHand, held)]
  PROVE  \A j \in Key : StockOf(j)' = IF j = k THEN Booked(k, onHand, held) ELSE StockOf(j)
<1>1. Booked(k, onHand, held) # NoRow
  BY BookedType, RowIsNotNoRow
<1>. QED
  BY <1>1 DEF TypeOK, StockOf

\* How much a movement of `type` and `q` moves quantity and reserved.
OnHandMoved(type, q) ==
  IF type = "ship" THEN -q ELSE IF type \in {"reservation", "release"} THEN 0 ELSE q
HeldMoved(type, q) ==
  IF type = "reservation" THEN q ELSE IF type \in {"release", "ship"} THEN -q ELSE 0

\* The sums of a key explain its row; LedgerExplainsStock says it of all keys.
Explains(sum, row) ==
  /\ row.quantity = sum["receipt"] + sum["adjustment_+"] + sum["adjustment_-"]
                    + sum["transfer_in"] + sum["transfer_out"] - sum["ship"]
  /\ row.reserved = sum["reservation"] - sum["release"] - sum["ship"]

\* Booking a row by what is logged of it keeps it explained.
LEMMA BookedIsExplained ==
  ASSUME TypeOK, LedgerExplainsStock, NEW k \in Key, NEW type \in MovementType, NEW q \in Int
  PROVE  Explains([ledger[k] EXCEPT ![type] = @ + q],
                  Booked(k, OnHandMoved(type, q), HeldMoved(type, q)))
<1> DEFINE sum == ledger[k]
           row == StockOf(k)
<1>1. sum \in [MovementType -> Int]
  BY DEF TypeOK
<1>2. Explains(sum, row)
  BY DEF LedgerExplainsStock, Explains
<1>3. row \in StockRow
  BY StockOfType
<1>4. row.quantity \in Int /\ row.reserved \in Int
  BY <1>3 DEF StockRow
<1> HIDE DEF sum, row
<1>5. Explains([sum EXCEPT ![type] = @ + q],
               [quantity |-> row.quantity + OnHandMoved(type, q),
                reserved |-> row.reserved + HeldMoved(type, q)])
  BY <1>1, <1>2, <1>4 DEF Explains, OnHandMoved, HeldMoved, MovementType
<1>. QED
  BY <1>5 DEF Booked, sum, row

\* A step that books one row by what it logs keeps every row explained.
LEMMA BookAndLog ==
  ASSUME TypeOK, LedgerExplainsStock,
         NEW k \in Key, NEW type \in MovementType, NEW q \in Int,
         stock' = [stock EXCEPT ![k] = Booked(k, OnHandMoved(type, q), HeldMoved(type, q))],
         LogMovement(k, type, q)
  PROVE  LedgerExplainsStock'
<1>1. OnHandMoved(type, q) \in Int /\ HeldMoved(type, q) \in Int
  BY DEF OnHandMoved, HeldMoved
<1>2. ASSUME NEW j \in Key
      PROVE  Explains(ledger'[j], StockOf(j)')
  <2>1. ledger' = [ledger EXCEPT ![k] = [ledger[k] EXCEPT ![type] = @ + q]]
    BY DEF LogMovement
  <2>2. CASE j = k
    <3>1. StockOf(k)' = Booked(k, OnHandMoved(type, q), HeldMoved(type, q))
      BY <1>1, StockWritten
    <3>2. ledger'[k] = [ledger[k] EXCEPT ![type] = @ + q]
      BY <2>1 DEF TypeOK
    <3>3. Explains([ledger[k] EXCEPT ![type] = @ + q],
                   Booked(k, OnHandMoved(type, q), HeldMoved(type, q)))
      BY BookedIsExplained
    <3>. QED
      BY <2>2, <3>1, <3>2, <3>3
  <2>3. CASE j # k
    <3>1. ledger'[j] = ledger[j] /\ StockOf(j)' = StockOf(j)
      BY <1>1, <2>1, <2>3, StockWritten DEF TypeOK
    <3>. QED
      BY <3>1 DEF LedgerExplainsStock, Explains
  <2>. QED
    BY <2>2, <2>3
<1>. QED
  BY <1>2 DEF LedgerExplainsStock, Explains

\* A transfer books and logs two rows, each by the same amount.
LEMMA TransferIsExplained ==
  ASSUME TypeOK, LedgerExplainsStock,
         NEW p \in Product, NEW from \in Warehouse, NEW to \in Warehouse,
         NEW q \in Quantity, TransferStock(p, from, to, q)
  PROVE  LedgerExplainsStock'
<1> DEFINE src == FloorKey(<<p, from>>)
           dst == FloorKey(<<p, to>>)
           sent == Booked(src, -q, 0)
           got  == Booked(dst, q, 0)
<1>1. q \in Int /\ -q \in Int
  BY QuantityType
<1>2. src \in Key /\ dst \in Key /\ src # dst
  <2>1. <<p, from>> \in Place /\ <<p, to>> \in Place /\ <<p, from>> # <<p, to>>
    BY DEF TransferStock, Place
  <2>. QED
    BY <2>1, FloorKeyType, FloorKeyInjective
<1>3. sent \in StockRow /\ got \in StockRow
  BY <1>1, <1>2, BookedType
<1>4. Explains([ledger[src] EXCEPT !["transfer_out"] = @ + (-q)], sent)
  <2>1. OnHandMoved("transfer_out", -q) = -q /\ HeldMoved("transfer_out", -q) = 0
    BY DEF OnHandMoved, HeldMoved
  <2>. QED
    BY <2>1, <1>1, <1>2, BookedIsExplained DEF MovementType
<1>5. Explains([ledger[dst] EXCEPT !["transfer_in"] = @ + q], got)
  <2>1. OnHandMoved("transfer_in", q) = q /\ HeldMoved("transfer_in", q) = 0
    BY DEF OnHandMoved, HeldMoved
  <2>. QED
    BY <2>1, <1>1, <1>2, BookedIsExplained DEF MovementType
<1>6. /\ stock' = [stock EXCEPT ![src] = sent, ![dst] = got]
      /\ ledger' = [ledger EXCEPT ![src]["transfer_out"] = @ - q,
                                  ![dst]["transfer_in"] = @ + q]
  BY DEF TransferStock
<1>7. /\ ledger'[src] = [ledger[src] EXCEPT !["transfer_out"] = @ + (-q)]
      /\ ledger'[dst] = [ledger[dst] EXCEPT !["transfer_in"] = @ + q]
      /\ \A j \in Key \ {src, dst} : ledger'[j] = ledger[j]
  BY <1>1, <1>2, <1>6 DEF TypeOK, MovementType
<1> HIDE DEF src, dst, sent, got
<1>8. /\ StockOf(src)' = sent /\ StockOf(dst)' = got
      /\ \A j \in Key \ {src, dst} : StockOf(j)' = StockOf(j)
  BY <1>2, <1>3, <1>6, RowIsNotNoRow DEF TypeOK, StockOf
<1>9. \A j \in Key \ {src, dst} : Explains(ledger'[j], StockOf(j)')
  BY <1>7, <1>8 DEF LedgerExplainsStock, Explains
<1>. QED
  BY <1>4, <1>5, <1>7, <1>8, <1>9 DEF LedgerExplainsStock, Explains

\* Every step of the service keeps every stock row explained by the log.
LEMMA NextExplained ==
  ASSUME TypeOK, LedgerExplainsStock, [Next]_inventoryVars
  PROVE  LedgerExplainsStock'
<1>1. ASSUME NEW k \in Key, NEW q \in Quantity, ReceiveStock(k, q)
      PROVE  LedgerExplainsStock'
  <2>1. OnHandMoved("receipt", q) = q /\ HeldMoved("receipt", q) = 0
    BY DEF OnHandMoved, HeldMoved
  <2>2. /\ stock' = [stock EXCEPT ![k] = Booked(k, q, 0)]
        /\ LogMovement(k, "receipt", q)
    BY <1>1 DEF ReceiveStock
  <2>3. q \in Int
    BY QuantityType
  <2>. QED
    BY <2>1, <2>2, <2>3, BookAndLog DEF MovementType
<1>2. ASSUME NEW k \in Key, NEW delta \in Int, AdjustStock(k, delta)
      PROVE  LedgerExplainsStock'
  <2> DEFINE type == IF delta > 0 THEN "adjustment_+" ELSE "adjustment_-"
  <2>1. OnHandMoved(type, delta) = delta /\ HeldMoved(type, delta) = 0
    BY DEF OnHandMoved, HeldMoved
  <2>2. type \in MovementType
    BY DEF MovementType
  <2>3. /\ stock' = [stock EXCEPT ![k] = Booked(k, delta, 0)]
        /\ LogMovement(k, type, delta)
    BY <1>2 DEF AdjustStock
  <2>. QED
    BY <2>1, <2>2, <2>3, BookAndLog
<1>3. ASSUME NEW r \in ReservationId, NEW place \in Place, NEW q \in Quantity,
             NEW ref \in Ref, ReserveStock(r, place, q, ref)
      PROVE  LedgerExplainsStock'
  <2> DEFINE k == FloorKey(place)
  <2>1. OnHandMoved("reservation", q) = 0 /\ HeldMoved("reservation", q) = q
    BY DEF OnHandMoved, HeldMoved
  <2>2. /\ stock' = [stock EXCEPT ![k] = Booked(k, 0, q)]
        /\ LogMovement(k, "reservation", q)
    BY <1>3 DEF ReserveStock
  <2>3. q \in Int /\ k \in Key
    BY QuantityType, FloorKeyType
  <2>. QED
    BY <2>1, <2>2, <2>3, BookAndLog DEF MovementType
<1>4. ASSUME NEW r \in ReservationId, NEW consume \in BOOLEAN, SettleReservation(r, consume)
      PROVE  LedgerExplainsStock'
  <2> DEFINE q == reservations[r].quantity
             k == FloorKey(reservations[r].place)
             type == IF consume THEN "ship" ELSE "release"
  <2>1. reservations[r] \in ReservationRow
    BY <1>4 DEF SettleReservation, TypeOK
  <2>2. reservations[r].place \in Place /\ q \in Quantity
    BY <2>1 DEF ReservationRow
  <2>3. q \in Int /\ k \in Key
    BY <2>2, QuantityType, FloorKeyType
  <2>4. /\ OnHandMoved(type, q) = IF consume THEN -q ELSE 0
        /\ HeldMoved(type, q) = -q
        /\ type \in MovementType
    BY <2>3 DEF OnHandMoved, HeldMoved, MovementType
  <2>5. /\ stock' = [stock EXCEPT ![k] = Booked(k, IF consume THEN -q ELSE 0, -q)]
        /\ LogMovement(k, type, q)
    BY <1>4 DEF SettleReservation
  <2> HIDE DEF q, k, type
  <2>. QED
    BY <2>3, <2>4, <2>5, BookAndLog
<1>5. CASE AlertStep \/ UNCHANGED inventoryVars
  <2>1. UNCHANGED <<stock, ledger>>
    BY <1>5 DEF AlertStep, CreateAlert, UpdateAlert, ResolveAlert, LowStockScan, inventoryVars
  <2>. QED
    BY <2>1 DEF LedgerExplainsStock, StockOf
<1>6. ASSUME StockStep
      PROVE  LedgerExplainsStock'
  <2>1. \A q \in Quantity : q \in Int /\ -q \in Int
    BY QuantityType
  <2>. QED
    BY <1>6, <2>1, <1>1, <1>2, TransferIsExplained DEF StockStep, Adjust
<1>7. ASSUME ReservationStep
      PROVE  LedgerExplainsStock'
  BY <1>7, <1>3, <1>4 DEF ReservationStep, ReleaseReservation
<1>. QED
  BY <1>5, <1>6, <1>7 DEF Next

\* quantity and reserved_quantity are, in every reachable state, what the rows
\* of stock_movements add up to.
THEOREM LedgerIsExact == Spec => []LedgerExplainsStock
<1>1. Init => LedgerExplainsStock
  BY DEF Init, LedgerExplainsStock, StockOf, MovementType
<1>2. TypeOK /\ LedgerExplainsStock /\ [Next]_inventoryVars => LedgerExplainsStock'
  BY NextExplained
<1>. QED
  BY <1>1, <1>2, TypeCorrect, PTL DEF Spec

-----------------------------------------------------------------------------
(* Nothing is settled twice.                                                *)

\* Receiving, adjusting and moving stock leave the reservations alone.
LEMMA StockKeepsReservations == StockStep => UNCHANGED reservations
<1>1. ASSUME NEW k \in Key, NEW q \in Quantity, ReceiveStock(k, q)
      PROVE  UNCHANGED reservations
  BY <1>1 DEF ReceiveStock
<1>2. ASSUME NEW k \in Key, Adjust(k) PROVE UNCHANGED reservations
  BY <1>2 DEF Adjust, AdjustStock
<1>3. ASSUME NEW p \in Product, NEW from \in Warehouse, NEW to \in Warehouse, NEW q \in Quantity,
             TransferStock(p, from, to, q)
      PROVE  UNCHANGED reservations
  BY <1>3 DEF TransferStock
<1>. QED
  BY <1>1, <1>2, <1>3 DEF StockStep

LEMMA AlertsKeepReservations == AlertStep => UNCHANGED reservations
<1>1. ASSUME NEW a \in AlertId, NEW place \in Place, NEW t \in Threshold, CreateAlert(a, place, t)
      PROVE  UNCHANGED reservations
  BY <1>1 DEF CreateAlert
<1>2. ASSUME NEW a \in AlertId, NEW t \in Threshold, UpdateAlert(a, t)
      PROVE  UNCHANGED reservations
  BY <1>2 DEF UpdateAlert
<1>3. ASSUME NEW a \in AlertId, ResolveAlert(a) PROVE UNCHANGED reservations
  BY <1>3 DEF ResolveAlert
<1>4. LowStockScan => UNCHANGED reservations
  BY DEF LowStockScan
<1>. QED
  BY <1>1, <1>2, <1>3, <1>4 DEF AlertStep

\* A reservation that was released or consumed stays as it is, and a live one
\* only changes its status: whatever the tables hold, a step of the service
\* keeps to it, so it needs no invariant but the types.
THEOREM SettlesOnce == Spec => SettledOnce
<1> DEFINE Once ==
      \A r \in ReservationId :
        reservations[r] # NoRow /\ reservations'[r] # reservations[r] =>
          /\ IsActive(r)
          /\ reservations'[r] = [reservations[r] EXCEPT !.status = reservations'[r].status]
          /\ reservations'[r].status \in {"released", "consumed"}
<1>1. ASSUME TypeOK, [Next]_inventoryVars
      PROVE  [Once]_inventoryVars
  <2>1. ASSUME NEW r \in ReservationId, NEW place \in Place, NEW q \in Quantity,
               NEW ref \in Ref, ReserveStock(r, place, q, ref)
        PROVE  Once
    BY <1>1, <2>1 DEF ReserveStock, TypeOK
  <2>2. ASSUME NEW r \in ReservationId, NEW consume \in BOOLEAN,
               ReleaseReservation(r, consume)
        PROVE  Once
    <3> DEFINE now == IF consume THEN "consumed" ELSE "released"
    <3>1. reservations' = [reservations EXCEPT ![r] = [reservations[r] EXCEPT !.status = now]]
      BY <2>2 DEF ReleaseReservation, SettleReservation
    <3>2. reservations[r] # NoRow
      BY <2>2 DEF ReleaseReservation, IsActive
    <3>. HIDE DEF now
    <3>3. [reservations[r] EXCEPT !.status = now].status = now
      BY <1>1, <3>2 DEF ReservationRow, TypeOK
    <3>4. IsActive(r) /\ now \in {"released", "consumed"}
      BY <2>2 DEF ReleaseReservation, now
    <3>. QED
      BY <1>1, <3>1, <3>3, <3>4 DEF TypeOK
  <2>3. CASE StockStep \/ AlertStep \/ UNCHANGED inventoryVars
    BY <2>3, StockKeepsReservations, AlertsKeepReservations DEF inventoryVars
  <2>. HIDE DEF Once
  <2>4. CASE ReservationStep
    BY <2>1, <2>2, <2>4 DEF ReservationStep
  <2>. QED
    BY <1>1, <2>3, <2>4 DEF Next
<1>. QED
  BY <1>1, TypeCorrect, PTL DEF Spec, SettledOnce

-----------------------------------------------------------------------------
(* Only an adjustment takes available stock below zero.                     *)

\* Available stock is an integer.
LEMMA AvailableType ==
  ASSUME TypeOK, NEW k \in Key
  PROVE  Available(k) \in Int
BY StockOfType DEF Available, StockRow

\* Booking a row moves what is available there by the difference.
LEMMA AvailableBooked ==
  ASSUME TypeOK, NEW k \in Key, NEW onHand \in Int, NEW held \in Int,
         stock' = [stock EXCEPT ![k] = Booked(k, onHand, held)], NEW j \in Key
  PROVE  Available(j)' = IF j = k THEN Available(j) + onHand - held ELSE Available(j)
<1>1. StockOf(j).quantity \in Int /\ StockOf(j).reserved \in Int
  BY StockOfType DEF StockRow
<1>2. StockOf(j)' = IF j = k THEN Booked(k, onHand, held) ELSE StockOf(j)
  BY StockWritten
<1>. QED
  BY <1>1, <1>2 DEF Available, Booked

\* A transfer moves available stock from the one row to the other.
LEMMA AvailableTransferred ==
  ASSUME TypeOK, NEW p \in Product, NEW from \in Warehouse, NEW to \in Warehouse,
         NEW q \in Quantity, TransferStock(p, from, to, q), NEW k \in Key,
         Available(k) >= 0
  PROVE  Available(k)' \in Nat
<1> DEFINE src == FloorKey(<<p, from>>)
           dst == FloorKey(<<p, to>>)
           sent == Booked(src, -q, 0)
           got  == Booked(dst, q, 0)
<1>1. q \in Nat /\ src \in Key /\ dst \in Key /\ src # dst
  <2>1. <<p, from>> \in Place /\ <<p, to>> \in Place /\ <<p, from>> # <<p, to>>
    BY DEF TransferStock, Place
  <2>. QED
    BY <2>1, QuantityType, FloorKeyType, FloorKeyInjective
<1>2. sent \in StockRow /\ got \in StockRow
  BY <1>1, BookedType
<1>3. stock' = [stock EXCEPT ![src] = sent, ![dst] = got] /\ Available(src) >= q
  BY DEF TransferStock
<1>4. StockOf(k) \in StockRow
  BY StockOfType
<1>5. CASE k = src
  <2>1. StockOf(k)' = sent
    BY <1>1, <1>2, <1>3, <1>5, RowIsNotNoRow DEF TypeOK, StockOf
  <2>. QED
    BY <1>1, <1>3, <1>4, <1>5, <2>1 DEF Available, Booked, StockRow
<1>6. CASE k = dst
  <2>1. StockOf(k)' = got
    BY <1>1, <1>2, <1>3, <1>6, RowIsNotNoRow DEF TypeOK, StockOf
  <2>. QED
    BY <1>1, <1>4, <1>6, <2>1 DEF Available, Booked, StockRow
<1>7. CASE k # src /\ k # dst
  <2>1. StockOf(k)' = StockOf(k)
    BY <1>1, <1>3, <1>7 DEF TypeOK, StockOf
  <2>. QED
    BY <2>1, AvailableType DEF Available
<1>. QED
  BY <1>5, <1>6, <1>7

\* A release gives back what it held, or takes what it held from both counters.
LEMMA AvailableSettled ==
  ASSUME TypeOK, NEW r \in ReservationId, NEW consume \in BOOLEAN,
         SettleReservation(r, consume), NEW j \in Key, Available(j) >= 0
  PROVE  Available(j)' \in Nat
<1> DEFINE q == reservations[r].quantity
           k == FloorKey(reservations[r].place)
           taken == IF consume THEN -q ELSE 0
<1>1. reservations[r] \in ReservationRow
  BY DEF SettleReservation, TypeOK
<1>2. reservations[r].place \in Place /\ q \in Quantity
  BY <1>1 DEF ReservationRow
<1>3. q \in Nat /\ k \in Key
  BY <1>2, QuantityType, FloorKeyType
<1>4. stock' = [stock EXCEPT ![k] = Booked(k, taken, -q)]
  BY DEF SettleReservation
<1>5. taken \in Int /\ -q \in Int /\ taken - (-q) >= 0
  BY <1>3
<1> HIDE DEF q, k, taken
<1>6. Available(j)' = IF j = k THEN Available(j) + taken - (-q) ELSE Available(j)
  BY <1>3, <1>4, <1>5, AvailableBooked
<1>. QED
  BY <1>3, <1>5, <1>6, AvailableType

\* A receipt adds to what is available.
LEMMA AvailableReceived ==
  ASSUME TypeOK, NEW k \in Key, NEW q \in Quantity, ReceiveStock(k, q),
         NEW j \in Key, Available(j) >= 0
  PROVE  Available(j)' \in Nat
<1>1. q \in Nat /\ stock' = [stock EXCEPT ![k] = Booked(k, q, 0)]
  BY QuantityType DEF ReceiveStock
<1>. q \in Int /\ 0 \in Int
  BY <1>1
<1>2. Available(j)' = IF j = k THEN Available(j) + q - 0 ELSE Available(j)
  BY <1>1, AvailableBooked
<1>. QED
  BY <1>1, <1>2, AvailableType

\* A reservation takes no more than what is available.
LEMMA AvailableReserved ==
  ASSUME TypeOK, NEW r \in ReservationId, NEW place \in Place, NEW q \in Quantity,
         NEW ref \in Ref, ReserveStock(r, place, q, ref),
         NEW j \in Key, Available(j) >= 0
  PROVE  Available(j)' \in Nat
<1> DEFINE k == FloorKey(place)
<1>1. /\ q \in Nat /\ k \in Key
      /\ stock' = [stock EXCEPT ![k] = Booked(k, 0, q)]
      /\ Available(k) >= q
  BY QuantityType, FloorKeyType DEF ReserveStock
<1>. q \in Int /\ 0 \in Int
  BY <1>1
<1> HIDE DEF k
<1>2. Available(j)' = IF j = k THEN Available(j) + 0 - q ELSE Available(j)
  BY <1>1, AvailableBooked
<1>. QED
  BY <1>1, <1>2, AvailableType

\* An adjustment leaves the other rows alone.
LEMMA AvailableAdjusted ==
  ASSUME TypeOK, NEW k \in Key, NEW delta \in Int, AdjustStock(k, delta),
         NEW j \in Key, j # k, Available(j) >= 0
  PROVE  Available(j)' \in Nat
<1>1. stock' = [stock EXCEPT ![k] = Booked(k, delta, 0)]
  BY DEF AdjustStock
<1>. 0 \in Int
  OBVIOUS
<1>2. Available(j)' = IF j = k THEN Available(j) + delta - 0 ELSE Available(j)
  BY <1>1, AvailableBooked
<1>. QED
  BY <1>2, AvailableType

\* Receipts, transfers, reservations, releases and shipments keep the available
\* stock of every row at zero or more: only an adjustment of that row does not.
THEOREM OnlyAdjustmentsOvercommitStock == Spec => OnlyAdjustmentsOvercommit
<1>1. ASSUME TypeOK, [Next]_inventoryVars, NEW k \in Key, Available(k) >= 0, ~Adjust(k)
      PROVE  Available(k)' \in Nat
  <2>1. CASE StockStep
    <3>1. ASSUME NEW j \in Key, Adjust(j)
          PROVE  Available(k)' \in Nat
      <4>1. PICK q \in Quantity : AdjustStock(j, q) \/ AdjustStock(j, -q)
        BY <3>1 DEF Adjust
      <4>2. q \in Int /\ -q \in Int /\ j # k
        BY <1>1, <3>1, QuantityType
      <4>. QED
        BY <1>1, <4>1, <4>2, AvailableAdjusted
    <3>. QED
      BY <1>1, <2>1, <3>1, AvailableReceived, AvailableTransferred DEF StockStep
  <2>2. CASE ReservationStep
    BY <1>1, <2>2, AvailableReserved, AvailableSettled DEF ReservationStep, ReleaseReservation
  <2>3. CASE AlertStep \/ UNCHANGED inventoryVars
    <3>1. stock' = stock
      BY <2>3 DEF AlertStep, CreateAlert, UpdateAlert, ResolveAlert, LowStockScan, inventoryVars
    <3>. QED
      BY <1>1, <3>1, AvailableType DEF Available, StockOf
  <2>. QED
    BY <1>1, <2>1, <2>2, <2>3 DEF Next
<1>2. TypeOK /\ [Next]_inventoryVars
        => [\A k \in Key : Available(k) >= 0 /\ Available(k)' < 0 => Adjust(k)]_inventoryVars
  <2>1. \A n \in Nat : ~(n < 0)
    OBVIOUS
  <2>. QED
    BY <1>1, <2>1
<1>. QED
  BY <1>2, TypeCorrect, PTL DEF Spec, OnlyAdjustmentsOvercommit

-----------------------------------------------------------------------------
(* The reserved counter is what active reservations hold.                   *)
(*                                                                          *)
(* The inductive invariant adds that the held units of a place are finitely *)
(* many, so that adding and taking those of one reservation moves their     *)
(* number by its quantity.                                                  *)

HeldInv == ReservedIsHeld /\ \A place \in Place : IsFiniteSet(HeldUnits(place))

\* A reservation of q units has q of them.
LEMMA UnitsCounted ==
  ASSUME NEW r, NEW q \in Quantity
  PROVE  IsFiniteSet({r} \X (1..q)) /\ Cardinality({r} \X (1..q)) = q
<1>1. q \in Nat /\ q > 0
  BY QuantityType
<1>2. IsFiniteSet({r}) /\ Cardinality({r}) = 1
  BY FS_Singleton
<1>3. IsFiniteSet(1..q) /\ Cardinality(1..q) = q
  BY <1>1, FS_Interval
<1>4. /\ IsFiniteSet({r} \X (1..q))
      /\ Cardinality({r} \X (1..q)) = Cardinality({r}) * Cardinality(1..q)
  BY <1>2, <1>3, FS_Product
<1>. QED
  BY <1>1, <1>2, <1>3, <1>4

\* Disjoint sets add up.
LEMMA DisjointUnion ==
  ASSUME NEW S, IsFiniteSet(S), NEW T, IsFiniteSet(T), S \cap T = {}
  PROVE  IsFiniteSet(S \cup T) /\ Cardinality(S \cup T) = Cardinality(S) + Cardinality(T)
<1>1. /\ IsFiniteSet(S \cup T)
      /\ Cardinality(S \cup T) = Cardinality(S) + Cardinality(T) - Cardinality({})
  BY FS_Union
<1>2. Cardinality(S) \in Int /\ Cardinality(T) \in Int
  BY FS_CardinalityType
<1>. QED
  BY <1>1, <1>2, FS_EmptySet

\* Taking a subset away takes its number away.
LEMMA SubsetTaken ==
  ASSUME NEW S, IsFiniteSet(S), NEW T \in SUBSET S
  PROVE  IsFiniteSet(S \ T) /\ Cardinality(S \ T) = Cardinality(S) - Cardinality(T)
<1>1. S \cap T = T
  OBVIOUS
<1>. QED
  BY <1>1, FS_Difference

\* When the counter of a place and the units held there move by the same n, and
\* those of other places stay, the invariant is kept.
LEMMA HeldFollows ==
  ASSUME HeldInv, NEW place \in Place, NEW n \in Int,
         \A j \in Key : StockOf(j)'.reserved = IF j = FloorKey(place)
                                               THEN StockOf(j).reserved + n
                                               ELSE StockOf(j).reserved,
         \A other \in Place \ {place} : HeldUnits(other)' = HeldUnits(other),
         IsFiniteSet(HeldUnits(place)'),
         Cardinality(HeldUnits(place)') = Cardinality(HeldUnits(place)) + n
  PROVE  HeldInv'
<1>1. \A other \in Place : /\ FloorKey(other) \in Key /\ FloorKey(other)[3] = Unlocated
                           /\ other # place => FloorKey(other) # FloorKey(place)
  BY FloorKeyType, FloorKeyInjective
<1>2. \A other \in Place : /\ IsFiniteSet(HeldUnits(other)')
                           /\ StockOf(FloorKey(other))'.reserved = Cardinality(HeldUnits(other)')
  BY <1>1 DEF HeldInv, ReservedIsHeld
<1>3. \A j \in Key : j[3] # Unlocated => StockOf(j)'.reserved = 0
  BY <1>1 DEF HeldInv, ReservedIsHeld
<1>. QED
  BY <1>2, <1>3 DEF HeldInv, ReservedIsHeld

\* A step that books one row moves the counters by what it books.
LEMMA ReservedBooked ==
  ASSUME TypeOK, NEW k \in Key, NEW onHand \in Int, NEW held \in Int,
         stock' = [stock EXCEPT ![k] = Booked(k, onHand, held)], NEW j \in Key
  PROVE  StockOf(j)'.reserved = IF j = k THEN StockOf(j).reserved + held
                                         ELSE StockOf(j).reserved
<1>1. StockOf(j)' = IF j = k THEN Booked(k, onHand, held) ELSE StockOf(j)
  BY StockWritten
<1>. QED
  BY <1>1 DEF Booked

\* reserve_stock adds to the counter of its place what it adds to the units
\* held there.
LEMMA ReserveHolds ==
  ASSUME TypeOK, HeldInv, NEW r \in ReservationId, NEW place \in Place,
         NEW q \in Quantity, NEW ref \in Ref, ReserveStock(r, place, q, ref)
  PROVE  HeldInv'
<1> DEFINE k == FloorKey(place)
           units == {r} \X (1..q)
<1>. q \in Int /\ 0 \in Int /\ k \in Key
  BY QuantityType, FloorKeyType
<1>1. stock' = [stock EXCEPT ![k] = Booked(k, 0, q)]
  BY DEF ReserveStock
<1> HIDE DEF k
<1>2. \A j \in Key : StockOf(j)'.reserved = IF j = k THEN StockOf(j).reserved + q
                                                     ELSE StockOf(j).reserved
  BY <1>1, ReservedBooked
<1>3. /\ reservations[r] = NoRow
      /\ reservations' = [reservations EXCEPT ![r] = [place |-> place, quantity |-> q,
                                                      ref |-> ref, status |-> "active"]]
      /\ reservations'[r] # NoRow
  BY RowIsNotNoRow DEF ReserveStock, TypeOK, ReservationRow
<1>4. /\ reservations'[r].place = place /\ reservations'[r].quantity = q
      /\ reservations'[r].status = "active"
      /\ \A s \in ReservationId \ {r} : reservations'[s] = reservations[s]
  BY <1>3 DEF TypeOK
<1>5. /\ ActiveAt(place)' = ActiveAt(place) \cup {r}
      /\ \A other \in Place \ {place} : ActiveAt(other)' = ActiveAt(other)
      /\ \A other \in Place : r \notin ActiveAt(other)
  BY <1>3, <1>4 DEF ActiveAt, IsActive
<1>6. /\ UnitsOf(r)' = units
      /\ \A s \in ReservationId \ {r} : UnitsOf(s)' = UnitsOf(s)
  BY <1>4 DEF UnitsOf
<1>7. /\ HeldUnits(place)' = HeldUnits(place) \cup units
      /\ \A other \in Place \ {place} : HeldUnits(other)' = HeldUnits(other)
      /\ HeldUnits(place) \cap units = {}
  BY <1>5, <1>6 DEF HeldUnits, UnitsOf, ActiveAt
<1>8. IsFiniteSet(units) /\ Cardinality(units) = q /\ IsFiniteSet(HeldUnits(place))
  BY UnitsCounted DEF HeldInv
<1> HIDE DEF units
<1>9. /\ IsFiniteSet(HeldUnits(place)')
      /\ Cardinality(HeldUnits(place)') = Cardinality(HeldUnits(place)) + q
  BY <1>7, <1>8, DisjointUnion
<1>. QED
  BY <1>2, <1>7, <1>9, HeldFollows DEF k

\* release_reservation, on a reservation that is active, takes from the counter
\* of its place what it takes from the units held there.
LEMMA ReleaseHolds ==
  ASSUME TypeOK, HeldInv, NEW r \in ReservationId, NEW consume \in BOOLEAN,
         ReleaseReservation(r, consume)
  PROVE  HeldInv'
<1>1. IsActive(r) /\ reservations[r] # NoRow /\ reservations[r].status = "active"
  BY DEF ReleaseReservation, IsActive
<1>2. reservations[r] \in ReservationRow
  BY <1>1 DEF TypeOK
<1>3. PICK place \in Place : place = reservations[r].place
  BY <1>2 DEF ReservationRow
<1>4. PICK q \in Quantity : q = reservations[r].quantity
  BY <1>2 DEF ReservationRow
<1> DEFINE k == FloorKey(place)
           now == IF consume THEN "consumed" ELSE "released"
           taken == IF consume THEN -q ELSE 0
           units == {r} \X (1..q)
<1>. q \in Int /\ -q \in Int /\ taken \in Int /\ k \in Key
  BY QuantityType, FloorKeyType
<1>5. /\ stock' = [stock EXCEPT ![k] = Booked(k, taken, -q)]
      /\ reservations' = [reservations EXCEPT ![r] = [reservations[r] EXCEPT !.status = now]]
  BY <1>3, <1>4 DEF ReleaseReservation, SettleReservation
<1>6. /\ [reservations[r] EXCEPT !.status = now].status = now
      /\ now # "active"
  BY <1>2 DEF ReservationRow
<1> HIDE DEF k, taken, now
<1>7. \A j \in Key : StockOf(j)'.reserved = IF j = k THEN StockOf(j).reserved + (-q)
                                                     ELSE StockOf(j).reserved
  BY <1>5, ReservedBooked
<1>8. /\ reservations'[r].status # "active"
      /\ \A s \in ReservationId \ {r} : reservations'[s] = reservations[s]
  BY <1>5, <1>6 DEF TypeOK
<1>9. /\ ActiveAt(place)' = ActiveAt(place) \ {r} /\ r \in ActiveAt(place)
      /\ \A other \in Place \ {place} : ActiveAt(other)' = ActiveAt(other)
      /\ \A other \in Place : r \notin ActiveAt(other)'
  BY <1>1, <1>3, <1>8 DEF ActiveAt, IsActive
<1>10. UnitsOf(r) = units /\ \A s \in ReservationId \ {r} : UnitsOf(s)' = UnitsOf(s)
  BY <1>4, <1>8 DEF UnitsOf
<1>11. /\ HeldUnits(place)' = HeldUnits(place) \ units
       /\ \A other \in Place \ {place} : HeldUnits(other)' = HeldUnits(other)
       /\ units \in SUBSET HeldUnits(place)
  BY <1>9, <1>10 DEF HeldUnits, UnitsOf, ActiveAt
<1> HIDE DEF units
<1>12. /\ IsFiniteSet(HeldUnits(place)')
       /\ Cardinality(HeldUnits(place)') = Cardinality(HeldUnits(place)) + (-q)
  <2>1. IsFiniteSet(HeldUnits(place)) /\ Cardinality(units) = q
    BY UnitsCounted DEF HeldInv, units
  <2>. QED
    BY <1>11, <2>1, SubsetTaken, FS_CardinalityType
<1>. QED
  BY <1>7, <1>11, <1>12, HeldFollows DEF k

\* The other steps move neither the counters nor the reservations.
LEMMA OthersHold ==
  ASSUME TypeOK, HeldInv, StockStep \/ AlertStep \/ UNCHANGED inventoryVars
  PROVE  HeldInv'
<1>1. ASSUME UNCHANGED reservations, \A j \in Key : StockOf(j)'.reserved = StockOf(j).reserved
      PROVE  HeldInv'
  <2>1. \A place \in Place : HeldUnits(place)' = HeldUnits(place)
    BY <1>1 DEF HeldUnits, UnitsOf, ActiveAt, IsActive
  <2>. QED
    BY <1>1, <2>1, FloorKeyType DEF HeldInv, ReservedIsHeld
<1>2. \A j \in Key : StockOf(j).reserved \in Int
  BY StockOfType DEF StockRow
<1>. 0 \in Int
  OBVIOUS
<1>3. ASSUME NEW k \in Key, NEW q \in Quantity, ReceiveStock(k, q)
      PROVE  HeldInv'
  <2>1. q \in Int /\ stock' = [stock EXCEPT ![k] = Booked(k, q, 0)] /\ UNCHANGED reservations
    BY <1>3, QuantityType DEF ReceiveStock
  <2>2. \A j \in Key : StockOf(j)'.reserved = IF j = k THEN StockOf(j).reserved + 0
                                                       ELSE StockOf(j).reserved
    BY <2>1, ReservedBooked
  <2>. QED
    BY <1>1, <1>2, <2>1, <2>2
<1>4. ASSUME NEW k \in Key, NEW delta \in Int, AdjustStock(k, delta)
      PROVE  HeldInv'
  <2>1. stock' = [stock EXCEPT ![k] = Booked(k, delta, 0)] /\ UNCHANGED reservations
    BY <1>4 DEF AdjustStock
  <2>2. \A j \in Key : StockOf(j)'.reserved = IF j = k THEN StockOf(j).reserved + 0
                                                       ELSE StockOf(j).reserved
    BY <2>1, ReservedBooked
  <2>. QED
    BY <1>1, <1>2, <2>1, <2>2
<1>5. ASSUME NEW p \in Product, NEW from \in Warehouse, NEW to \in Warehouse,
             NEW q \in Quantity, TransferStock(p, from, to, q)
      PROVE  HeldInv'
  <2> DEFINE src == FloorKey(<<p, from>>)
             dst == FloorKey(<<p, to>>)
             sent == Booked(src, -q, 0)
             got  == Booked(dst, q, 0)
  <2>1. q \in Int /\ -q \in Int /\ src \in Key /\ dst \in Key
    BY QuantityType, FloorKeyType DEF Place
  <2>2. sent \in StockRow /\ got \in StockRow
    BY <2>1, BookedType
  <2>3. sent.reserved = StockOf(src).reserved /\ got.reserved = StockOf(dst).reserved
    BY <1>2, <2>1 DEF Booked
  <2>4. stock' = [stock EXCEPT ![src] = sent, ![dst] = got] /\ UNCHANGED reservations
    BY <1>5 DEF TransferStock
  <2> HIDE DEF src, dst, sent, got
  <2>5. \A j \in Key : StockOf(j)' = IF j = dst THEN got ELSE IF j = src THEN sent ELSE StockOf(j)
    BY <2>1, <2>2, <2>4, RowIsNotNoRow DEF TypeOK, StockOf
  <2>. QED
    BY <1>1, <2>3, <2>4, <2>5
<1>6. CASE AlertStep \/ UNCHANGED inventoryVars
  <2>1. UNCHANGED <<stock, reservations>>
    BY <1>6 DEF AlertStep, CreateAlert, UpdateAlert, ResolveAlert, LowStockScan, inventoryVars
  <2>. QED
    BY <1>1, <2>1 DEF StockOf
<1>7. CASE StockStep
  <2>1. \A q \in Quantity : q \in Int /\ -q \in Int
    BY QuantityType
  <2>. QED
    BY <1>3, <1>4, <1>5, <1>7, <2>1 DEF StockStep, Adjust
<1>. QED
  BY <1>6, <1>7

\* reserved_quantity of a place is, in every reachable state, the number of
\* units its active reservations hold; the rows of bins reserve nothing.
THEOREM ReservedIsExact == Spec => []ReservedIsHeld
<1>1. Init => HeldInv
  <2>1. SUFFICES ASSUME Init PROVE HeldInv
    OBVIOUS
  <2>2. \A k \in Key : StockOf(k).reserved = 0
    BY <2>1 DEF Init, StockOf
  <2>3. \A place \in Place : HeldUnits(place) = {}
    BY <2>1 DEF Init, HeldUnits, ActiveAt, IsActive
  <2>. QED
    BY <2>2, <2>3, FloorKeyType, FS_EmptySet DEF HeldInv, ReservedIsHeld
<1>2. TypeOK /\ HeldInv /\ [Next]_inventoryVars => HeldInv'
  <2>1. SUFFICES ASSUME TypeOK, HeldInv, [Next]_inventoryVars PROVE HeldInv'
    OBVIOUS
  <2>2. CASE ReservationStep
    BY <2>1, <2>2, ReserveHolds, ReleaseHolds DEF ReservationStep
  <2>. QED
    BY <2>1, <2>2, OthersHold DEF Next
<1>3. HeldInv => ReservedIsHeld
  BY DEF HeldInv
<1>. QED
  BY <1>1, <1>2, <1>3, TypeCorrect, PTL DEF Spec

-----------------------------------------------------------------------------
(* Low-stock alerts.                                                        *)

RowsAt(rows, place) == {k \in Key : <<k[1], k[2]>> = place /\ rows[k] # NoRow}

OneRow(rows, place) == \A j, k \in RowsAt(rows, place) : j = k

Alone(table, a) ==
  /\ table[a] # NoRow
  /\ \A b \in AlertId \ {a} : table[b] # NoRow => table[b].place # table[a].place

Low(table, rows, a) ==
  table[a].triggered /\ ~table[a].resolved =>
    \A q \in OnHandRead(rows, table[a].place) : q <= table[a].threshold

\* The alerts of some places tell the truth, those that stand alone there and
\* watch one row.
Truthful(table, rows, places) ==
  \A a \in AlertId :
    Alone(table, a) /\ table[a].place \in places /\ OneRow(rows, table[a].place)
      => Low(table, rows, a)

\* Stock rows are never deleted, and one call inserts two of them at most.
FewRows == IsFiniteSet({k \in Key : stock[k] # NoRow})

LowInv == FewRows /\ Truthful(alerts, stock, Place)

\* A check of another table than `table` that keeps who stands where.
SameAlerts(table, other) ==
  \A a \in AlertId :
    /\ (other[a] = NoRow) <=> (table[a] = NoRow)
    /\ table[a] # NoRow =>
         /\ other[a].place = table[a].place
         /\ table[a].resolved => other[a].resolved

AlertTable == [AlertId -> AlertRow \cup {NoRow}]
StockTable == [Key -> StockRow \cup {NoRow}]

LEMMA AlertIsARow ==
  ASSUME NEW table \in AlertTable, NEW a \in AlertId, table[a] # NoRow
  PROVE  /\ table[a] \in AlertRow /\ table[a].place \in Place
         /\ table[a].threshold \in Nat
         /\ table[a].triggered \in BOOLEAN /\ table[a].resolved \in BOOLEAN
BY InventoryAssumption DEF AlertTable, AlertRow

\* A judged alert that is left triggered and open is about what was read.
LEMMA JudgedIsLow ==
  ASSUME NEW alert \in AlertRow, NEW onHand \in Int
  PROVE  /\ Judged(alert, onHand) \in AlertRow
         /\ Judged(alert, onHand).place = alert.place
         /\ Judged(alert, onHand).threshold = alert.threshold
         /\ Judged(alert, onHand).triggered /\ ~Judged(alert, onHand).resolved
              => onHand <= alert.threshold
<1> DEFINE new == Judged(alert, onHand)
<1>1. /\ alert.place \in Place /\ alert.threshold \in Threshold
      /\ alert.triggered \in BOOLEAN /\ alert.resolved \in BOOLEAN
  BY DEF AlertRow
<1>2. CASE onHand <= alert.threshold
  <2>1. new = [alert EXCEPT !.triggered = TRUE]
    BY <1>2 DEF Judged
  <2>2. /\ new \in AlertRow
        /\ new.place = alert.place /\ new.threshold = alert.threshold
        /\ new.resolved = alert.resolved
    BY <2>1 DEF AlertRow
  <2>. QED
    BY <1>2, <2>2
<1>3. CASE ~(onHand <= alert.threshold)
  <2>1. new = [alert EXCEPT !.resolved = alert.triggered]
    BY <1>3 DEF Judged
  <2>2. /\ new \in AlertRow
        /\ new.place = alert.place /\ new.threshold = alert.threshold
        /\ new.triggered = alert.triggered /\ new.resolved = alert.triggered
    BY <1>1, <2>1 DEF AlertRow
  <2>. QED
    BY <2>2
<1>. QED
  BY <1>2, <1>3

\* Alerts that keep their places stand alone as before.
LEMMA StaysAlone ==
  ASSUME NEW table, NEW other, SameAlerts(table, other), NEW a \in AlertId
  PROVE  Alone(other, a) <=> Alone(table, a)
BY DEF SameAlerts, Alone

\* A check changes one open alert of its place at most, and none of its places.
LEMMA CheckChangesOne ==
  ASSUME NEW table \in AlertTable, NEW rows \in StockTable, NEW place \in Place,
         NEW checked \in CheckAlerts(table, rows, place)
  PROVE  /\ SameAlerts(table, checked)
         /\ \A a \in AlertId : table[a] # NoRow /\ table[a].place # place => checked[a] = table[a]
<1>1. CASE Unresolved(table, place) = {}
  BY <1>1 DEF CheckAlerts, SameAlerts
<1>2. CASE Unresolved(table, place) # {}
  <2>1. PICK a \in Unresolved(table, place), onHand \in OnHandRead(rows, place) :
              checked = [table EXCEPT ![a] = Judged(@, onHand)]
    BY <1>2 DEF CheckAlerts
  <2>2. a \in AlertId /\ table[a] # NoRow /\ table[a].place = place /\ ~table[a].resolved
    BY DEF Unresolved
  <2>3. table[a] \in AlertRow
    BY <2>2, AlertIsARow
  <2>4. onHand \in Int
    BY OnHandReadType DEF StockTable
  <2>5. checked[a] = Judged(table[a], onHand) /\ \A b \in AlertId \ {a} : checked[b] = table[b]
    BY <2>1, <2>2 DEF AlertTable
  <2>6. checked[a] # NoRow
    BY <2>3, <2>4, <2>5, JudgedIsLow, InventoryAssumption
  <2>. QED
    BY <2>2, <2>3, <2>4, <2>5, <2>6, JudgedIsLow DEF SameAlerts
<1>. QED
  BY <1>1, <1>2

\* What is read of a place that has one row is the same whenever it is read.
LEMMA OneRead ==
  ASSUME NEW rows, NEW place, OneRow(rows, place),
         NEW p \in OnHandRead(rows, place), NEW q \in OnHandRead(rows, place)
  PROVE  p = q
BY DEF OnHandRead, OneRow, RowsAt

\* The check of a place leaves an alert that stands alone there true.
LEMMA CheckedIsLow ==
  ASSUME NEW table \in AlertTable, NEW rows \in StockTable, NEW a \in AlertId,
         Alone(table, a), OneRow(rows, table[a].place),
         NEW checked \in CheckAlerts(table, rows, table[a].place)
  PROVE  Low(checked, rows, a)
<1> DEFINE place == table[a].place
<1>1. table[a] # NoRow
  BY DEF Alone
<1>2. table[a] \in AlertRow /\ place \in Place /\ table[a].resolved \in BOOLEAN
  BY <1>1, AlertIsARow
<1>3. CASE table[a].resolved
  BY <1>1, <1>2, <1>3, CheckChangesOne DEF Low, SameAlerts
<1>4. CASE ~table[a].resolved
  <2>1. Unresolved(table, place) = {a}
    BY <1>1, <1>4 DEF Unresolved, Alone
  <2>2. PICK onHand \in OnHandRead(rows, place) : checked = [table EXCEPT ![a] = Judged(@, onHand)]
    BY <2>1 DEF CheckAlerts
  <2>3. onHand \in Int
    BY <1>2, OnHandReadType DEF StockTable
  <2>4. checked[a] = Judged(table[a], onHand)
    BY <2>2 DEF AlertTable
  <2>5. checked[a].place = place /\ checked[a].threshold = table[a].threshold
    BY <1>2, <2>3, <2>4, JudgedIsLow
  <2>6. checked[a].triggered /\ ~checked[a].resolved => onHand <= checked[a].threshold
    BY <1>2, <2>3, <2>4, JudgedIsLow
  <2>7. \A q \in OnHandRead(rows, place) : q = onHand
    BY OneRead
  <2>. QED
    BY <2>5, <2>6, <2>7 DEF Low
<1>. QED
  BY <1>2, <1>3, <1>4

\* Rows and alerts of a place that are as before.
LEMMA ElsewhereAsBefore ==
  ASSUME NEW rows, NEW other, NEW place,
         \A k \in Key : <<k[1], k[2]>> = place => other[k] = rows[k]
  PROVE  /\ OnHandRead(other, place) = OnHandRead(rows, place)
         /\ OneRow(other, place) <=> OneRow(rows, place)
<1>1. RowsAt(other, place) = RowsAt(rows, place)
  BY DEF RowsAt
<1>2. \A k \in RowsAt(rows, place) : other[k] = rows[k]
  BY DEF RowsAt
<1>. QED
  BY <1>1, <1>2 DEF OneRow, OnHandRead, RowsAt

\* Whoever changes rows or alerts of a place and checks it adds it to those whose
\* alerts tell the truth.
LEMMA CheckMakesTruthful ==
  ASSUME NEW places \in SUBSET Place, NEW place \in Place,
         NEW table \in AlertTable, NEW changed \in AlertTable,
         NEW rows \in StockTable, NEW booked \in StockTable,
         NEW checked \in CheckAlerts(changed, booked, place),
         Truthful(table, rows, places),
         \A k \in Key : <<k[1], k[2]>> \in places \ {place} => booked[k] = rows[k],
         SameAlerts(table, changed),
         \A a \in AlertId : table[a] # NoRow /\ table[a].place # place => changed[a] = table[a]
  PROVE  Truthful(checked, booked, places \cup {place})
<1> SUFFICES ASSUME NEW a \in AlertId, Alone(checked, a),
                    checked[a].place \in places \cup {place}, OneRow(booked, checked[a].place)
             PROVE  Low(checked, booked, a)
  BY DEF Truthful
<1>1. /\ SameAlerts(changed, checked)
      /\ \A b \in AlertId : changed[b] # NoRow /\ changed[b].place # place => checked[b] = changed[b]
  BY CheckChangesOne
<1>2. Alone(changed, a) /\ Alone(table, a)
  BY <1>1, StaysAlone
<1>3. table[a] # NoRow /\ changed[a] # NoRow
  BY <1>2 DEF Alone
<1>4. checked[a].place = changed[a].place /\ changed[a].place = table[a].place
  BY <1>1, <1>3 DEF SameAlerts
<1>5. CASE checked[a].place = place
  BY <1>2, <1>4, <1>5, CheckedIsLow
<1>6. CASE checked[a].place # place
  <2>1. checked[a] = table[a] /\ table[a].place \in places
    BY <1>1, <1>3, <1>4, <1>6
  <2>0. \A k \in Key : <<k[1], k[2]>> = table[a].place => booked[k] = rows[k]
    BY <1>4, <1>6, <2>1
  <2>2. /\ OnHandRead(booked, table[a].place) = OnHandRead(rows, table[a].place)
        /\ OneRow(booked, table[a].place) <=> OneRow(rows, table[a].place)
    BY <2>0, ElsewhereAsBefore
  <2>3. Low(table, rows, a)
    BY <1>2, <1>4, <2>1, <2>2 DEF Truthful
  <2>. QED
    BY <2>1, <2>2, <2>3 DEF Low
<1>. QED
  BY <1>5, <1>6

-----------------------------------------------------------------------------
(* Each step keeps the alerts true.                                         *)

LEMMA RowIsBooked ==
  ASSUME TypeOK, NEW k \in Key, NEW onHand \in Int, NEW held \in Int,
         stock' = [stock EXCEPT ![k] = Booked(k, onHand, held)]
  PROVE  /\ stock' \in StockTable
         /\ \A j \in Key \ {k} : stock'[j] = stock[j]
         /\ stock'[k] = Booked(k, onHand, held) /\ stock'[k] # NoRow
<1>1. Booked(k, onHand, held) \in StockRow
  BY BookedType
<1>. QED
  BY <1>1, WriteStockType, RowIsNotNoRow DEF StockTable, TypeOK

LEMMA FewMoreRows ==
  ASSUME FewRows, NEW S, IsFiniteSet(S),
         \A j \in Key \ S : stock'[j] = stock[j]
  PROVE  FewRows'
<1>1. IsFiniteSet({k \in Key : stock[k] # NoRow} \cup S)
  BY FS_Union DEF FewRows
<1>2. {k \in Key : stock'[k] # NoRow} \subseteq {k \in Key : stock[k] # NoRow} \cup S
  OBVIOUS
<1>. QED
  BY <1>1, <1>2, FS_Subset DEF FewRows

LEMMA SameAlertsRefl == ASSUME NEW table PROVE SameAlerts(table, table)
BY DEF SameAlerts

\* receive_stock, adjust_stock and release_reservation book a row and check.
LEMMA BookAndCheck ==
  ASSUME TypeOK, LowInv, NEW k \in Key, NEW onHand \in Int, NEW held \in Int,
         stock' = [stock EXCEPT ![k] = Booked(k, onHand, held)],
         alerts' \in CheckAlerts(alerts, stock', <<k[1], k[2]>>)
  PROVE  LowInv'
<1> DEFINE place == <<k[1], k[2]>>
<1>1. place \in Place /\ Place \cup {place} = Place
  BY DEF Key, Place
<1>2. stock' \in StockTable /\ \A j \in Key \ {k} : stock'[j] = stock[j]
  BY RowIsBooked
<1>3. \A j \in Key : <<j[1], j[2]>> \in Place \ {place} => stock'[j] = stock[j]
  BY <1>2
<1>4. stock \in StockTable /\ alerts \in AlertTable
  BY DEF TypeOK, StockTable, AlertTable
<1>5. Truthful(alerts, stock, Place)
  BY DEF LowInv
<1>6. Truthful(alerts', stock', Place \cup {place})
  <2>1. alerts' \in CheckAlerts(alerts, stock', place)
    OBVIOUS
  <2>2. PICK places \in SUBSET Place : places = Place
    OBVIOUS
  <2>3. \A j \in Key : <<j[1], j[2]>> \in places \ {place} => stock'[j] = stock[j]
    BY <1>3, <2>2
  <2>4. Truthful(alerts, stock, places) /\ SameAlerts(alerts, alerts)
    BY <1>5, <2>2, SameAlertsRefl
  <2>5. place \in Place /\ stock' \in StockTable /\ places \in SUBSET Place
    BY <1>1, <1>2
  <2> HIDE DEF place
  <2>6. Truthful(alerts', stock', places \cup {place})
    BY <1>4, <2>1, <2>3, <2>4, <2>5, CheckMakesTruthful
  <2>. QED
    BY <1>1, <2>2, <2>6
<1>7. FewRows'
  BY <1>2, FewMoreRows, FS_Singleton DEF LowInv
<1>. QED
  BY <1>1, <1>6, <1>7 DEF LowInv

LEMMA TransferIsLow ==
  ASSUME TypeOK, LowInv, NEW p \in Product, NEW from \in Warehouse, NEW to \in Warehouse,
         NEW q \in Quantity, TransferStock(p, from, to, q)
  PROVE  LowInv'
<1> DEFINE src == FloorKey(<<p, from>>)
           dst == FloorKey(<<p, to>>)
           source == <<p, from>>
           target == <<p, to>>
           others == Place \ {source, target}
<1>1. source \in Place /\ target \in Place /\ source # target
  BY DEF TransferStock, Place
<1>2. /\ src \in Key /\ dst \in Key /\ src # dst
      /\ <<src[1], src[2]>> = source /\ <<dst[1], dst[2]>> = target
  BY <1>1, FloorKeyType DEF FloorKey
<1>3. stock' = [stock EXCEPT ![src] = Booked(src, -q, 0), ![dst] = Booked(dst, q, 0)]
  BY DEF TransferStock
<1>4. q \in Int /\ -q \in Int
  BY QuantityType
<1>5. Booked(src, -q, 0) \in StockRow /\ Booked(dst, q, 0) \in StockRow
  BY <1>2, <1>4, BookedType
<1>6. stock' \in StockTable /\ \A j \in Key \ {src, dst} : stock'[j] = stock[j]
  BY <1>2, <1>3, <1>5 DEF TypeOK, StockTable
<1>7. PICK checked \in CheckAlerts(alerts, stock', source) :
             alerts' \in CheckAlerts(checked, stock', target)
  BY DEF TransferStock
<1>8. stock \in StockTable /\ alerts \in AlertTable
  BY DEF TypeOK, StockTable, AlertTable
<1>9. checked \in AlertTable
  BY <1>1, <1>6, <1>7, <1>8, CheckAlertsType DEF StockTable, AlertTable
<1>10. \A j \in Key : <<j[1], j[2]>> \in others => stock'[j] = stock[j]
  BY <1>2, <1>6
<1>11. Truthful(alerts, stock, others)
  BY DEF LowInv, Truthful
<1> HIDE DEF src, dst, source, target
<1>12. Truthful(checked, stock', others \cup {source})
  <2>1. \A j \in Key : <<j[1], j[2]>> \in others \ {source} => stock'[j] = stock[j]
    BY <1>10
  <2> HIDE DEF others
  <2>2. others \in SUBSET Place
    BY DEF others
  <2>. QED
    BY <1>1, <1>6, <1>7, <1>8, <1>11, <2>1, <2>2, SameAlertsRefl, CheckMakesTruthful
<1>13. Truthful(alerts', stock', Place)
  <2>1. others \cup {source} \in SUBSET Place /\ (others \cup {source}) \cup {target} = Place
    BY <1>1
  <2>2. PICK places \in SUBSET Place : places = others \cup {source}
    BY <2>1
  <2> HIDE DEF others
  <2>. QED
    BY <1>1, <1>6, <1>7, <1>9, <1>12, <2>1, <2>2, SameAlertsRefl, CheckMakesTruthful
<1>14. FewRows'
  <2>1. IsFiniteSet({src} \cup {dst}) /\ {src} \cup {dst} = {src, dst}
    BY FS_Singleton, FS_Union
  <2>. QED
    BY <1>6, <2>1, FewMoreRows DEF LowInv
<1>. QED
  BY <1>13, <1>14 DEF LowInv

LEMMA StockStepIsLow ==
  ASSUME TypeOK, LowInv, StockStep
  PROVE  LowInv'
<1>1. ASSUME NEW k \in Key, NEW q \in Quantity, ReceiveStock(k, q)
      PROVE  LowInv'
  <2>1. q \in Int /\ 0 \in Int
    BY QuantityType
  <2>2. /\ stock' = [stock EXCEPT ![k] = Booked(k, q, 0)]
        /\ alerts' \in CheckAlerts(alerts, stock', <<k[1], k[2]>>)
    BY <1>1 DEF ReceiveStock
  <2>. QED
    BY <2>1, <2>2, BookAndCheck
<1>2. ASSUME NEW k \in Key, NEW q \in Int, AdjustStock(k, q)
      PROVE  LowInv'
  <2>1. /\ stock' = [stock EXCEPT ![k] = Booked(k, q, 0)]
        /\ alerts' \in CheckAlerts(alerts, stock', <<k[1], k[2]>>)
    BY <1>2 DEF AdjustStock
  <2>2. 0 \in Int
    OBVIOUS
  <2>. QED
    BY <2>1, <2>2, BookAndCheck
<1>3. ASSUME NEW k \in Key, Adjust(k)
      PROVE  LowInv'
  <2>1. \A q \in Quantity : q \in Int /\ -q \in Int
    BY QuantityType
  <2>. QED
    BY <1>2, <1>3, <2>1 DEF Adjust
<1>. QED
  BY <1>1, <1>3, TransferIsLow DEF StockStep

\* reserve_stock checks nothing: what is on hand stays, and a row it inserts has
\* what was read for no row.
LEMMA ReserveIsLow ==
  ASSUME TypeOK, LowInv, NEW r \in ReservationId, NEW place \in Place,
         NEW q \in Quantity, NEW ref \in Ref, ReserveStock(r, place, q, ref)
  PROVE  LowInv'
<1> DEFINE k == FloorKey(place)
<1>1. k \in Key /\ <<k[1], k[2]>> = place /\ q \in Int /\ 0 \in Int
  BY QuantityType, FloorKeyType
<1>2. stock' = [stock EXCEPT ![k] = Booked(k, 0, q)] /\ alerts' = alerts
  BY DEF ReserveStock
<1> HIDE DEF k
<1>3. /\ \A j \in Key \ {k} : stock'[j] = stock[j]
      /\ stock'[k] = Booked(k, 0, q) /\ stock'[k] # NoRow
  BY <1>1, <1>2, RowIsBooked
<1>4. /\ stock'[k].quantity = StockOf(k).quantity + 0
      /\ StockOf(k).quantity \in Int
  BY <1>1, <1>3, StockOfType DEF Booked, StockRow
<1>5. /\ stock[k] = NoRow => stock'[k].quantity = 0
      /\ stock[k] # NoRow => stock'[k].quantity = stock[k].quantity
  BY <1>4 DEF StockOf
<1>6. k \in RowsAt(stock', place)
  BY <1>1, <1>3 DEF RowsAt
<1>7. ASSUME OneRow(stock', place)
      PROVE  OneRow(stock, place) /\ OnHandRead(stock', place) = OnHandRead(stock, place)
  <2>1. RowsAt(stock', place) = {k}
    BY <1>6, <1>7 DEF OneRow
  <2>2. RowsAt(stock, place) \subseteq {k}
    BY <1>3, <2>1 DEF RowsAt
  <2>3. OnHandRead(stock', place) = {stock'[k].quantity}
    BY <2>1 DEF OnHandRead, RowsAt
  <2>4. CASE stock[k] = NoRow
    <3>1. RowsAt(stock, place) = {}
      BY <2>2, <2>4 DEF RowsAt
    <3>2. OnHandRead(stock, place) = {0}
      BY <3>1 DEF OnHandRead, RowsAt
    <3>. QED
      BY <1>5, <2>3, <2>4, <3>1, <3>2 DEF OneRow
  <2>5. CASE stock[k] # NoRow
    <3>1. RowsAt(stock, place) = {k}
      BY <1>1, <2>2, <2>5 DEF RowsAt
    <3>2. OnHandRead(stock, place) = {stock[k].quantity}
      BY <3>1 DEF OnHandRead, RowsAt
    <3>. QED
      BY <1>5, <2>3, <2>5, <3>1, <3>2 DEF OneRow
  <2>. QED
    BY <2>4, <2>5
<1>8. Truthful(alerts', stock', Place)
  <2> SUFFICES ASSUME NEW a \in AlertId, Alone(alerts, a),
                      alerts[a].place \in Place, OneRow(stock', alerts[a].place)
               PROVE  Low(alerts, stock', a)
    BY <1>2 DEF Truthful
  <2>1. CASE alerts[a].place = place
    BY <1>7, <2>1 DEF LowInv, Truthful, Low
  <2>2. CASE alerts[a].place # place
    <3>1. \A j \in Key : <<j[1], j[2]>> = alerts[a].place => stock'[j] = stock[j]
      BY <1>1, <1>3, <2>2
    <3>2. /\ OnHandRead(stock', alerts[a].place) = OnHandRead(stock, alerts[a].place)
          /\ OneRow(stock, alerts[a].place)
      BY <3>1, ElsewhereAsBefore
    <3>. QED
      BY <3>2 DEF LowInv, Truthful, Low
  <2>. QED
    BY <2>1, <2>2
<1>9. FewRows'
  BY <1>1, <1>3, FewMoreRows, FS_Singleton DEF LowInv
<1>. QED
  BY <1>8, <1>9 DEF LowInv

LEMMA ReleaseIsLow ==
  ASSUME TypeOK, LowInv, NEW r \in ReservationId, NEW consume \in BOOLEAN,
         ReleaseReservation(r, consume)
  PROVE  LowInv'
<1>1. reservations[r] \in ReservationRow
  BY DEF TypeOK, ReleaseReservation, SettleReservation
<1>2. PICK place \in Place : place = reservations[r].place
  BY <1>1 DEF ReservationRow
<1>3. PICK q \in Quantity : q = reservations[r].quantity
  BY <1>1 DEF ReservationRow
<1> DEFINE k == FloorKey(place)
           taken == IF consume THEN -q ELSE 0
<1>4. taken \in Int /\ -q \in Int /\ k \in Key /\ <<k[1], k[2]>> = place
  BY QuantityType, FloorKeyType
<1>5. /\ stock' = [stock EXCEPT ![k] = Booked(k, taken, -q)]
      /\ alerts' \in CheckAlerts(alerts, stock', place)
  BY <1>2, <1>3 DEF ReleaseReservation, SettleReservation
<1> HIDE DEF k, taken
<1>. QED
  BY <1>4, <1>5, BookAndCheck

LEMMA AlertStepIsLow ==
  ASSUME TypeOK, LowInv, AlertStep
  PROVE  LowInv'
<1>0. UNCHANGED stock /\ FewRows'
  <2>1. ASSUME LowStockScan PROVE UNCHANGED stock
    BY <2>1 DEF LowStockScan
  <2>2. UNCHANGED stock
    BY <2>1 DEF AlertStep, CreateAlert, UpdateAlert, ResolveAlert
  <2>. QED
    BY <2>2 DEF LowInv, FewRows
<1>1. stock \in StockTable /\ alerts \in AlertTable /\ Truthful(alerts, stock, Place)
  BY DEF TypeOK, StockTable, AlertTable, LowInv
<1>2. ASSUME NEW a \in AlertId, NEW place \in Place, NEW t \in Threshold, CreateAlert(a, place, t)
      PROVE  LowInv'
  <2> SUFFICES ASSUME NEW b \in AlertId, Alone(alerts', b),
                      alerts'[b].place \in Place, OneRow(stock, alerts'[b].place)
               PROVE  Low(alerts', stock, b)
    BY <1>0 DEF LowInv, Truthful
  <2>1. /\ alerts[a] = NoRow /\ ~alerts'[a].triggered
        /\ \A c \in AlertId \ {a} : alerts'[c] = alerts[c]
    BY <1>1, <1>2 DEF CreateAlert, AlertTable
  <2>2. CASE b = a
    BY <2>1, <2>2 DEF Low
  <2>3. CASE b # a
    <3>1. Alone(alerts, b)
      BY <2>1, <2>3 DEF Alone
    <3>. QED
      BY <1>1, <2>1, <2>3, <3>1 DEF Truthful, Low
  <2>. QED
    BY <2>2, <2>3
<1>3. ASSUME NEW a \in AlertId, NEW t \in Threshold, UpdateAlert(a, t)
      PROVE  LowInv'
  <2> DEFINE table == [alerts EXCEPT ![a].threshold = t]
             place == alerts[a].place
  <2>1. alerts[a] \in AlertRow /\ place \in Place
    BY <1>1, <1>3, AlertIsARow DEF UpdateAlert
  <2>2. alerts' \in CheckAlerts(table, stock, place)
    BY <1>3 DEF UpdateAlert
  <2>3. PICK row \in AlertRow : /\ row = [alerts[a] EXCEPT !.threshold = t]
                                /\ row.place = place /\ row.resolved = alerts[a].resolved
    <3>1. [alerts[a] EXCEPT !.threshold = t] \in AlertRow
      BY <2>1 DEF AlertRow
    <3>2. /\ [alerts[a] EXCEPT !.threshold = t].place = place
          /\ [alerts[a] EXCEPT !.threshold = t].resolved = alerts[a].resolved
      BY <2>1 DEF AlertRow
    <3>. QED
      BY <3>1, <3>2
  <2>4. table[a] = row /\ \A b \in AlertId \ {a} : table[b] = alerts[b]
    BY <1>1, <2>3 DEF AlertTable
  <2>5. table \in AlertTable
    BY <1>1, <2>3 DEF AlertTable
  <2>6. row # NoRow
    BY InventoryAssumption
  <2> HIDE DEF table
  <2>7. SameAlerts(alerts, table)
    BY <1>3, <2>3, <2>4, <2>6 DEF SameAlerts, UpdateAlert
  <2>8. \A b \in AlertId : alerts[b] # NoRow /\ alerts[b].place # place => table[b] = alerts[b]
    BY <2>4
  <2>9. PICK places \in SUBSET Place : places = Place /\ places \cup {place} = Place
    BY <2>1
  <2> HIDE DEF place
  <2>10. Truthful(alerts', stock, Place)
    BY <1>1, <2>1, <2>2, <2>5, <2>7, <2>8, <2>9, CheckMakesTruthful
  <2>. QED
    BY <1>0, <2>10 DEF LowInv
<1>4. ASSUME NEW a \in AlertId, ResolveAlert(a)
      PROVE  LowInv'
  <2>1. alerts[a] \in AlertRow /\ alerts[a] # NoRow
    BY <1>1, <1>4, AlertIsARow DEF ResolveAlert
  <2>2. PICK row \in AlertRow : /\ row = [alerts[a] EXCEPT !.resolved = TRUE]
                                /\ row.place = alerts[a].place /\ row.resolved
    <3>1. [alerts[a] EXCEPT !.resolved = TRUE] \in AlertRow
      BY <2>1 DEF AlertRow
    <3>2. /\ [alerts[a] EXCEPT !.resolved = TRUE].place = alerts[a].place
          /\ [alerts[a] EXCEPT !.resolved = TRUE].resolved
      BY <2>1 DEF AlertRow
    <3>. QED
      BY <3>1, <3>2
  <2>3. alerts'[a] = row /\ \A b \in AlertId \ {a} : alerts'[b] = alerts[b]
    BY <1>1, <1>4, <2>2 DEF AlertTable, ResolveAlert
  <2>4. row # NoRow
    BY InventoryAssumption
  <2>5. SameAlerts(alerts, alerts')
    BY <2>1, <2>2, <2>3, <2>4 DEF SameAlerts
  <2> SUFFICES ASSUME NEW b \in AlertId, Alone(alerts', b),
                      alerts'[b].place \in Place, OneRow(stock, alerts'[b].place)
               PROVE  Low(alerts', stock, b)
    BY <1>0 DEF LowInv, Truthful
  <2>6. CASE b = a
    BY <2>2, <2>3, <2>6 DEF Low
  <2>7. CASE b # a
    <3>1. Alone(alerts, b) /\ alerts'[b] = alerts[b]
      BY <2>3, <2>5, <2>7, StaysAlone
    <3>. QED
      BY <1>1, <3>1 DEF Truthful, Low
  <2>. QED
    BY <2>6, <2>7
<1>5. ASSUME LowStockScan
      PROVE  LowInv'
  <2> DEFINE Open == UNION {Unresolved(alerts, place) : place \in Place}
             Read == UNION {OnHandRead(stock, place) : place \in Place}
  <2>1. PICK first \in SUBSET Open :
          /\ \A a \in Open : \E b \in first : alerts[a].place = alerts[b].place
          /\ \E onHand \in [first -> Read] :
               /\ \A a \in first : onHand[a] \in OnHandRead(stock, alerts[a].place)
               /\ alerts' = [a \in AlertId |-> IF a \in first
                                               THEN Judged(alerts[a], onHand[a])
                                               ELSE alerts[a]]
    BY <1>5 DEF LowStockScan
  <2>2. PICK onHand \in [first -> Read] :
          /\ \A a \in first : onHand[a] \in OnHandRead(stock, alerts[a].place)
          /\ alerts' = [a \in AlertId |-> IF a \in first
                                          THEN Judged(alerts[a], onHand[a])
                                          ELSE alerts[a]]
    BY <2>1
  <2>3. ASSUME NEW a \in first
        PROVE  /\ alerts[a] \in AlertRow /\ alerts[a] # NoRow /\ ~alerts[a].resolved
               /\ onHand[a] \in Int
               /\ alerts'[a] = Judged(alerts[a], onHand[a])
    <3>1. a \in AlertId /\ alerts[a] # NoRow /\ ~alerts[a].resolved
      BY DEF Unresolved
    <3>2. alerts[a] \in AlertRow /\ alerts[a].place \in Place
      BY <1>1, <3>1, AlertIsARow
    <3>3. onHand[a] \in Int
      BY <1>1, <2>2, <3>2, OnHandReadType DEF StockTable
    <3>. QED
      BY <2>2, <3>1, <3>2, <3>3
  <2>4. \A a \in AlertId \ first : alerts'[a] = alerts[a]
    BY <2>2
  <2>5. \A a \in first : Judged(alerts[a], onHand[a]) # NoRow
    BY <2>3, JudgedIsLow, InventoryAssumption
  <2>6. SameAlerts(alerts, alerts')
    BY <2>3, <2>4, <2>5, JudgedIsLow DEF SameAlerts
  <2> SUFFICES ASSUME NEW a \in AlertId, Alone(alerts', a),
                      alerts'[a].place \in Place, OneRow(stock, alerts'[a].place)
               PROVE  Low(alerts', stock, a)
    BY <1>0 DEF LowInv, Truthful
  <2>7. Alone(alerts, a) /\ alerts[a] # NoRow /\ alerts'[a].place = alerts[a].place
    BY <2>6, StaysAlone DEF Alone, SameAlerts
  <2>8. CASE a \in first
    <3>1. \A q \in OnHandRead(stock, alerts[a].place) : q = onHand[a]
      BY <2>2, <2>7, <2>8, OneRead
    <3>2. /\ alerts'[a].threshold = alerts[a].threshold
          /\ alerts'[a].triggered /\ ~alerts'[a].resolved => onHand[a] <= alerts[a].threshold
      BY <2>3, <2>8, JudgedIsLow
    <3>. QED
      BY <2>7, <3>1, <3>2 DEF Low
  <2>9. CASE a \notin first
    <3>1. a \notin Open
      <4>1. ASSUME a \in Open PROVE FALSE
        <5>1. PICK b \in first : alerts[a].place = alerts[b].place
          BY <2>1, <4>1
        <5>2. b \in AlertId \ {a} /\ alerts[b] # NoRow
          BY <2>3, <2>9 DEF Unresolved
        <5>. QED
          BY <2>7, <5>1, <5>2 DEF Alone
      <4>. QED
        BY <4>1
    <3>2. alerts[a].place \in Place
      BY <2>7
    <3>3. alerts[a].resolved
      BY <2>7, <3>1, <3>2 DEF Unresolved
    <3>. QED
      BY <2>4, <2>9, <3>3 DEF Low
  <2>. QED
    BY <2>8, <2>9
<1>. QED
  BY <1>2, <1>3, <1>4, <1>5 DEF AlertStep

\* An alert that stands alone at its place and watches one stock row is triggered
\* and open only while what is on hand is at or below its threshold, for any
\* number of products, warehouses and alerts.
THEOREM AlertsTellTheTruth == Spec => []TriggeredIsLow
<1>1. Init => LowInv
  <2> SUFFICES ASSUME Init PROVE LowInv
    OBVIOUS
  <2>1. {k \in Key : stock[k] # NoRow} = {} /\ \A a \in AlertId : alerts[a] = NoRow
    BY DEF Init
  <2>. QED
    BY <2>1, FS_EmptySet DEF LowInv, FewRows, Truthful, Alone
<1>2. TypeOK /\ LowInv /\ [Next]_inventoryVars => LowInv'
  <2> SUFFICES ASSUME TypeOK, LowInv, [Next]_inventoryVars PROVE LowInv'
    OBVIOUS
  <2>1. CASE ReservationStep
    BY <2>1, ReserveIsLow, ReleaseIsLow DEF ReservationStep
  <2>2. CASE UNCHANGED inventoryVars
    BY <2>2 DEF inventoryVars, LowInv, FewRows, Truthful, Low, Alone, OneRow, RowsAt
  <2>. QED
    BY <2>1, <2>2, StockStepIsLow, AlertStepIsLow DEF Next
<1>3. TypeOK /\ LowInv => TriggeredIsLow
  <2> SUFFICES ASSUME TypeOK, LowInv, NEW a \in AlertId,
                      Sole(a), alerts[a].triggered, ~alerts[a].resolved
               PROVE  OnHandAt(alerts[a].place) <= alerts[a].threshold
    BY DEF TriggeredIsLow
  <2> DEFINE place == alerts[a].place
  <2>1. Alone(alerts, a) /\ Cardinality(RowsAt(stock, place)) <= 1
    BY DEF Sole, Alone, RowsAt
  <2>2. place \in Place
    BY <2>1, AlertIsARow DEF Alone, TypeOK, AlertTable
  <2>3. IsFiniteSet(RowsAt(stock, place))
    BY FS_Subset DEF LowInv, FewRows, RowsAt
  <2>4. ASSUME NEW j \in RowsAt(stock, place), NEW k \in RowsAt(stock, place), j # k
        PROVE  FALSE
    <3>1. {j, k} \subseteq RowsAt(stock, place) /\ {j, k} = {j} \cup {k}
      OBVIOUS
    <3>2. IsFiniteSet({j}) /\ Cardinality({j}) = 1
      BY FS_Singleton
    <3>3. Cardinality({j} \cup {k}) = 2
      <4>1. k \notin {j}
        BY <2>4
      <4>. QED
        BY <3>2, <4>1, FS_AddElement
    <3>4. Cardinality({j, k}) <= Cardinality(RowsAt(stock, place))
      BY <2>3, <3>1, FS_Subset
    <3>5. Cardinality(RowsAt(stock, place)) \in Nat
      BY <2>3, FS_CardinalityType
    <3>. QED
      BY <2>1, <3>1, <3>3, <3>4, <3>5
  <2>5. OneRow(stock, place)
    BY <2>4 DEF OneRow
  <2>6. OnHandRead(stock, place) # {}
    BY DEF OnHandRead
  <2>7. OnHandAt(place) \in OnHandRead(stock, place)
    BY <2>6 DEF OnHandAt
  <2>. QED
    BY <2>1, <2>2, <2>5, <2>7 DEF LowInv, Truthful, Low
<1>. QED
  BY <1>1, <1>2, <1>3, TypeCorrect, PTL DEF Spec

-----------------------------------------------------------------------------
(* Orders.                                                                  *)

\* The statuses, written out.
LEMMA OrderStatuses ==
  Status = {"draft", "confirmed", "reserved", "picking", "packed", "ready_for_dispatch",
            "dispatched", "delivered", "cancelled", "on_hold"}
BY DEF Status, OrderTransitions

-----------------------------------------------------------------------------
(* Types.                                                                   *)

\* Orders are never deleted.
OrdersStay == \A o \in Order : orders[o] # NoRow => orders'[o] # NoRow

\* A request is about an order that exists, and what it still has to do is a set
\* of items when it reserves, and of reservations otherwise.
WorkOf(target) == IF target = "reserved" THEN ItemRow ELSE ReservationId

WorkTyped ==
  \A w \in Worker : request[w] # NoRow =>
    /\ orders[request[w].order] # NoRow
    /\ request[w].target = "reserved" => request[w].warehouse \in Warehouse
    /\ request[w].todo # NoRow => request[w].todo \subseteq WorkOf(request[w].target)

OrdersTyped ==
  /\ TypeOK
  /\ orders \in [Order -> OrderRow \cup {NoRow}]
  /\ history \in [Order -> Seq(HistoryRow)]
  /\ request \in [Worker -> RequestRow \cup {NoRow}]
  /\ WorkTyped

LEMMA OrdersTypedInit == OrdersInit => OrdersTyped
<1> SUFFICES ASSUME OrdersInit PROVE OrdersTyped
    OBVIOUS
<1>1. TypeOK
    BY DEF OrdersInit, Init, TypeOK, StockRow, MovementType
<1>2. WorkTyped
    BY DEF OrdersInit, WorkTyped
<1> QED
    BY <1>1, <1>2 DEF OrdersInit, OrdersTyped

\* Replacing what one worker serves, by nothing or by a typed request.
LEMMA RequestWritten ==
  ASSUME OrdersTyped, NEW w \in Worker, NEW row \in RequestRow \cup {NoRow},
         request' = [request EXCEPT ![w] = row], OrdersStay,
         row # NoRow => /\ orders'[row.order] # NoRow
                        /\ row.target = "reserved" => row.warehouse \in Warehouse
                        /\ row.todo # NoRow => row.todo \subseteq WorkOf(row.target)
  PROVE  /\ request' \in [Worker -> RequestRow \cup {NoRow}]
         /\ WorkTyped'
<1>1. request' \in [Worker -> RequestRow \cup {NoRow}]
    BY DEF OrdersTyped
<1>2. request'[w] = row /\ \A v \in Worker \ {w} : request'[v] = request[v]
    BY DEF OrdersTyped
<1>3. \A v \in Worker : request[v] # NoRow => request[v].order \in Order
    BY DEF OrdersTyped, RequestRow
<1>4. WorkTyped'
    BY <1>2, <1>3 DEF OrdersTyped, WorkTyped, WorkOf, OrdersStay
<1> QED
    BY <1>1, <1>4

\* Taking an item or a reservation off the list of a worker.
LEMMA WorkTaken ==
  ASSUME OrdersTyped, NEW w \in Worker, request[w] # NoRow, request[w].todo # NoRow,
         NEW done, request' = [request EXCEPT ![w].todo = @ \ {done}],
         UNCHANGED orders
  PROVE  /\ request' \in [Worker -> RequestRow \cup {NoRow}]
         /\ WorkTyped'
<1>1. request[w] \in RequestRow /\ request[w].todo \subseteq WorkOf(request[w].target)
    BY DEF OrdersTyped, WorkTyped
<1> DEFINE row == [request[w] EXCEPT !.todo = @ \ {done}]
<1>2. WorkOf(request[w].target) \subseteq ItemRow \cup ReservationId
    BY DEF WorkOf
<1>3. /\ row \in RequestRow
      /\ row.target = request[w].target
      /\ row.warehouse = request[w].warehouse
      /\ row.order = request[w].order
      /\ row.todo \subseteq WorkOf(row.target)
    BY <1>1, <1>2 DEF RequestRow
<1>4. request' = [request EXCEPT ![w] = row]
    OBVIOUS
<1>5. /\ orders'[row.order] # NoRow
      /\ row.target = "reserved" => row.warehouse \in Warehouse
      /\ OrdersStay
    BY <1>3 DEF OrdersTyped, WorkTyped, OrdersStay
<1> HIDE DEF row
<1> QED
    BY <1>3, <1>4, <1>5, RequestWritten

LEMMA TypedDraft ==
  ASSUME OrdersTyped, DraftStep
  PROVE  OrdersTyped'
<1>1. "draft" \in Status /\ [from |-> "new", to |-> "draft"] \in HistoryRow
    BY OrderStatuses DEF HistoryRow
<1>2. <<[from |-> "new", to |-> "draft"]>> \in Seq(HistoryRow)
    BY <1>1
<1>3. \A items \in Basket : /\ [status |-> "draft", items |-> items] \in OrderRow
                            /\ [status |-> "draft", items |-> items] # NoRow
    BY <1>1, OrdersAssumption DEF OrderRow, ItemRow
<1>4. UNCHANGED <<inventoryVars, request>>
    BY DEF DraftStep, CreateOrder, ImportOrders, AddOrderItem, RemoveOrderItem
<1>5. TypeOK' /\ request' \in [Worker -> RequestRow \cup {NoRow}]
    BY <1>4 DEF OrdersTyped, TypeOK, inventoryVars
<1>6. ASSUME NEW o \in Order, NEW items \in Basket, CreateOrder(o, items)
      PROVE  /\ orders' \in [Order -> OrderRow \cup {NoRow}]
             /\ history' \in [Order -> Seq(HistoryRow)]
             /\ OrdersStay
    BY <1>2, <1>3, <1>6 DEF CreateOrder, OrdersTyped, OrdersStay
<1>7. ASSUME NEW rows \in SUBSET Order, NEW items \in [rows -> Basket], ImportOrders(rows, items)
      PROVE  /\ orders' \in [Order -> OrderRow \cup {NoRow}]
             /\ history' \in [Order -> Seq(HistoryRow)]
             /\ OrdersStay
    BY <1>2, <1>3, <1>7 DEF ImportOrders, OrdersTyped, OrdersStay
<1>8. ASSUME NEW o \in Order, NEW item \in ItemRow, AddOrderItem(o, item) \/ RemoveOrderItem(o, item)
      PROVE  /\ orders' \in [Order -> OrderRow \cup {NoRow}]
             /\ history' \in [Order -> Seq(HistoryRow)]
             /\ OrdersStay
    <2>1. orders[o] \in OrderRow
        BY <1>8 DEF AddOrderItem, RemoveOrderItem, Editable, OrdersTyped
    <2>2. /\ [orders[o] EXCEPT !.items = @ \cup {item}] \in OrderRow
          /\ [orders[o] EXCEPT !.items = @ \ {item}] \in OrderRow
        BY <2>1 DEF OrderRow
    <2>3. PICK row \in OrderRow : orders' = [orders EXCEPT ![o] = row]
        BY <1>8, <2>2 DEF AddOrderItem, RemoveOrderItem
    <2> QED
        BY <1>8, <2>3, OrdersAssumption DEF AddOrderItem, RemoveOrderItem, OrdersTyped, OrdersStay
<1>9. /\ orders' \in [Order -> OrderRow \cup {NoRow}]
      /\ history' \in [Order -> Seq(HistoryRow)]
      /\ OrdersStay
    BY <1>6, <1>7, <1>8 DEF DraftStep
<1>10. WorkTyped'
    BY <1>4, <1>9 DEF OrdersTyped, WorkTyped, OrdersStay, RequestRow, WorkOf
<1> QED
    BY <1>5, <1>9, <1>10 DEF OrdersTyped

\* The rest of the stock API.
LEMMA StockRequestIsStock == StockRequest => [Next]_inventoryVars /\ UNCHANGED <<orders, history, request>>
BY OrdersAssumption DEF StockRequest, DirectReservation, Next, ReservationStep

LEMMA TypedStock ==
  ASSUME OrdersTyped, StockRequest
  PROVE  OrdersTyped'
<1>1. TypeOK'
    BY StockRequestIsStock, NextType DEF OrdersTyped
<1> QED
    BY <1>1, StockRequestIsStock DEF OrdersTyped, WorkTyped

LEMMA TypedAccept ==
  ASSUME OrdersTyped, NEW w \in Worker, NEW o \in Order, NEW target \in Status,
         NEW warehouse \in Warehouse \cup {NoRow}, Accept(w, o, target, warehouse),
         target = "reserved" => warehouse # NoRow
  PROVE  OrdersTyped'
<1> DEFINE row == [order |-> o, from |-> orders[o].status, target |-> target,
                   warehouse |-> warehouse, todo |-> NoRow]
<1>1. orders[o].status \in Status
    BY DEF Accept, OrdersTyped, OrderRow
<1>2. row \in RequestRow
    BY <1>1 DEF RequestRow
<1>6. row.target = target /\ row.warehouse = warehouse /\ row.todo = NoRow /\ row.order = o
    OBVIOUS
<1>3. request' = [request EXCEPT ![w] = row] /\ UNCHANGED <<inventoryVars, orders, history>>
    BY DEF Accept
<1>5. orders'[o] # NoRow /\ OrdersStay
    BY DEF Accept, OrdersStay
<1> HIDE DEF row
<1>4. request' \in [Worker -> RequestRow \cup {NoRow}] /\ WorkTyped'
    BY <1>2, <1>3, <1>5, <1>6, RequestWritten
<1> QED
    BY <1>3, <1>4 DEF OrdersTyped, TypeOK, inventoryVars

LEMMA TypedRequest ==
  ASSUME OrdersTyped, NEW w \in Worker, RequestStep(w)
  PROVE  OrdersTyped'
<1>0. "cancelled" \in Status
    BY OrderStatuses
<1>1. ASSUME NEW o \in Order, NEW target \in Status, NEW warehouse \in Warehouse \cup {NoRow},
             StartTransition(w, o, target, warehouse)
      PROVE  OrdersTyped'
    BY <1>1, TypedAccept DEF StartTransition
<1>2. ASSUME NEW o \in Order, StartCancel(w, o)
      PROVE  OrdersTyped'
    BY <1>0, <1>2, TypedAccept DEF StartCancel
<1>3. CASE ListWork(w)
    <2> DEFINE todo == CASE request[w].target = "reserved" -> orders[request[w].order].items
                         [] request[w].target \in {"cancelled", "dispatched"} -> ActiveFor(request[w].order)
                         [] OTHER -> {}
               row == [request[w] EXCEPT !.todo = todo]
    <2>1. request[w] \in RequestRow
        BY <1>3 DEF ListWork, OrdersTyped
    <2>2. /\ request[w].order \in Order
          /\ orders[request[w].order] \in OrderRow
        BY <1>3, <2>1 DEF ListWork, OrdersTyped, WorkTyped, RequestRow
    <2>3. todo \subseteq WorkOf(request[w].target)
        BY <2>2 DEF WorkOf, OrderRow, ActiveFor
    <2>4. WorkOf(request[w].target) \subseteq ItemRow \cup ReservationId
        BY DEF WorkOf
    <2>5. request' = [request EXCEPT ![w] = row] /\ UNCHANGED <<inventoryVars, orders, history>>
        BY <1>3 DEF ListWork
    <2> HIDE DEF todo
    <2>6. /\ row \in RequestRow
          /\ row.target = request[w].target
          /\ row.warehouse = request[w].warehouse
          /\ row.order = request[w].order
          /\ row.todo = todo
        BY <2>1, <2>3, <2>4 DEF RequestRow
    <2>7. /\ orders'[row.order] # NoRow
          /\ row.target = "reserved" => row.warehouse \in Warehouse
          /\ OrdersStay
        BY <1>3, <2>5, <2>6 DEF ListWork, OrdersTyped, WorkTyped, OrdersStay
    <2> HIDE DEF row
    <2>8. request' \in [Worker -> RequestRow \cup {NoRow}] /\ WorkTyped'
        BY <2>3, <2>5, <2>6, <2>7, RequestWritten
    <2> QED
        BY <2>5, <2>8 DEF OrdersTyped, TypeOK, inventoryVars
<1>4. CASE ReserveItem(w)
    <2>1. PICK item \in request[w].todo, r \in ReservationId :
            /\ ReserveStock(r, <<item.product, request[w].warehouse>>, item.quantity, request[w].order)
            /\ request' = [request EXCEPT ![w].todo = @ \ {item}]
        BY <1>4 DEF ReserveItem
    <2>2. /\ request[w] # NoRow /\ request[w].todo # NoRow
          /\ item \in ItemRow
          /\ request[w].warehouse \in Warehouse
          /\ request[w].order \in Ref
        BY <1>4, OrdersAssumption
          DEF ReserveItem, Working, OrdersTyped, WorkTyped, WorkOf, RequestRow
    <2>3. <<item.product, request[w].warehouse>> \in Place /\ item.quantity \in Quantity
        BY <2>2, OrdersAssumption DEF Place
    <2>4. TypeOK'
        BY <2>1, <2>2, <2>3, ReserveStockType DEF OrdersTyped
    <2> QED
        BY <1>4, <2>1, <2>2, <2>4, WorkTaken DEF ReserveItem, OrdersTyped
<1>5. CASE SettleListed(w)
    <2>1. PICK r \in request[w].todo :
            /\ SettleReservation(r, request[w].target = "dispatched")
            /\ request' = [request EXCEPT ![w].todo = @ \ {r}]
        BY <1>5 DEF SettleListed
    <2>2. /\ request[w] # NoRow /\ request[w].todo # NoRow
          /\ r \in ReservationId
        BY <1>5 DEF SettleListed, Working, OrdersTyped, WorkTyped, WorkOf
    <2>3. PICK consume \in BOOLEAN : consume = (request[w].target = "dispatched")
        OBVIOUS
    <2>4. TypeOK'
        BY <2>1, <2>2, <2>3, SettleReservationType DEF OrdersTyped
    <2> QED
        BY <1>5, <2>1, <2>2, <2>4, WorkTaken DEF SettleListed, OrdersTyped
<1>6. CASE RefuseItem(w) \/ Crash(w)
    <2>1. request' = [request EXCEPT ![w] = NoRow] /\ UNCHANGED <<inventoryVars, orders, history>>
        BY <1>6 DEF RefuseItem, Crash
    <2>2. OrdersStay
        BY <2>1 DEF OrdersStay
    <2>3. request' \in [Worker -> RequestRow \cup {NoRow}] /\ WorkTyped'
        BY <2>1, <2>2, RequestWritten
    <2> QED
        BY <2>1, <2>3 DEF OrdersTyped, TypeOK, inventoryVars
<1>7. CASE Finish(w)
    <2>1. /\ request' = [request EXCEPT ![w] = NoRow] /\ UNCHANGED inventoryVars
          /\ request[w] \in RequestRow
        BY <1>7 DEF Finish, Working, OrdersTyped
    <2>2. /\ request[w].order \in Order
          /\ request[w].target \in Status
          /\ [from |-> request[w].from, to |-> request[w].target] \in HistoryRow
          /\ orders[request[w].order] \in OrderRow
        BY <1>7, <2>1 DEF RequestRow, HistoryRow, Finish, Working, OrdersTyped, WorkTyped
    <2>3. history' \in [Order -> Seq(HistoryRow)]
        BY <1>7, <2>2 DEF Finish, OrdersTyped
    <2>4. [orders[request[w].order] EXCEPT !.status = request[w].target] \in OrderRow
        BY <2>2 DEF OrderRow
    <2>5. PICK row \in OrderRow : orders' = [orders EXCEPT ![request[w].order] = row]
        BY <1>7, <2>4 DEF Finish
    <2>6. orders' \in [Order -> OrderRow \cup {NoRow}] /\ OrdersStay
        BY <2>5, OrdersAssumption DEF OrdersTyped, OrdersStay
    <2>7. request' \in [Worker -> RequestRow \cup {NoRow}] /\ WorkTyped'
        BY <2>1, <2>6, RequestWritten
    <2> QED
        BY <2>1, <2>3, <2>6, <2>7 DEF OrdersTyped, TypeOK, inventoryVars
<1> QED
    BY <1>1, <1>2, <1>3, <1>4, <1>5, <1>6, <1>7 DEF RequestStep, WorkStep

LEMMA OrdersTypedStep == OrdersTyped /\ [OrdersNext]_vars => OrdersTyped'
<1> SUFFICES ASSUME OrdersTyped, [OrdersNext]_vars PROVE OrdersTyped'
    OBVIOUS
<1>1. CASE UNCHANGED vars
    BY <1>1 DEF vars, inventoryVars, OrdersTyped, TypeOK, WorkTyped
<1> QED
    BY <1>1, TypedDraft, TypedRequest, TypedStock DEF OrdersNext

\* The tables and the requests keep their types, orders and requests included.
THEOREM OrdersTypeCorrect == OrdersSpec => []OrdersTypeOK
<1>1. OrdersTyped => OrdersTypeOK
    BY DEF OrdersTyped, OrdersTypeOK
<1> QED
    BY <1>1, OrdersTypedInit, OrdersTypedStep, PTL DEF OrdersSpec

-----------------------------------------------------------------------------
(* One request per order at a time.                                         *)

\* No two workers serve the same order.
OnePerOrder ==
  \A v, w \in Worker :
    request[v] # NoRow /\ request[w] # NoRow /\ request[v].order = request[w].order => v = w

\* What a request read about its order is still so, its target may follow it,
\* and what a closing request still has to settle is what the order holds.
UpToDate(w) ==
  LET req == request[w]
  IN  req # NoRow =>
        /\ req.from = orders[req.order].status
        /\ req.target \in OrderTransitions[req.from] \cup {"cancelled"}
        /\ req.target \in {"cancelled", "dispatched"} /\ req.todo # NoRow
             => req.todo = ActiveFor(req.order)

HasHistory == \A o \in Order : orders[o] # NoRow => history[o] # <<>>

Serial ==
  /\ OrdersTyped
  /\ OnePerOrder
  /\ \A w \in Worker : UpToDate(w)
  /\ HasHistory
  /\ HistoryIsPath
  /\ ClosedHoldsNothing

LEMMA SerialInit == OrdersInit => Serial
<1> SUFFICES ASSUME OrdersInit PROVE Serial
    OBVIOUS
<1>1. \A o \in Order : orders[o] = NoRow
    BY DEF OrdersInit
<1>2. \A w \in Worker : request[w] = NoRow
    BY DEF OrdersInit
<1>3. OnePerOrder /\ (\A w \in Worker : UpToDate(w))
    BY <1>2 DEF OnePerOrder, UpToDate
<1>4. HasHistory /\ HistoryIsPath /\ ClosedHoldsNothing
    BY <1>1 DEF HasHistory, HistoryIsPath, ClosedHoldsNothing
<1> QED
    BY <1>3, <1>4, OrdersTypedInit DEF Serial

\* Reserving for one purpose leaves alone what is held for another.
LEMMA ReserveHoldsForOne ==
  ASSUME OrdersTyped, NEW r \in ReservationId, NEW place, NEW q, NEW ref,
         ReserveStock(r, place, q, ref), NEW o, o # ref
  PROVE  ActiveFor(o)' = ActiveFor(o)
<1> DEFINE row == [place |-> place, quantity |-> q, ref |-> ref, status |-> "active"]
<1>1. reservations' = [reservations EXCEPT ![r] = row]
    BY DEF ReserveStock
<1>2. reservations \in [ReservationId -> ReservationRow \cup {NoRow}]
    BY DEF OrdersTyped, TypeOK
<1>3. reservations'[r].ref = ref /\ \A s \in ReservationId \ {r} : reservations'[s] = reservations[s]
    BY <1>1, <1>2
<1>4. reservations[r] = NoRow
    BY DEF ReserveStock
<1> QED
    BY <1>3, <1>4 DEF ActiveFor, IsActive

\* A settled reservation is active no more, and the others are as they were.
LEMMA SettleEndsOne ==
  ASSUME OrdersTyped, NEW r \in ReservationId, NEW consume,
         SettleReservation(r, consume), NEW o
  PROVE  ActiveFor(o)' = ActiveFor(o) \ {r}
<1> DEFINE row == [reservations[r] EXCEPT !.status = IF consume THEN "consumed" ELSE "released"]
<1>1. reservations' = [reservations EXCEPT ![r] = row]
    BY DEF SettleReservation
<1>2. reservations \in [ReservationId -> ReservationRow \cup {NoRow}]
    BY DEF OrdersTyped, TypeOK
<1>3. reservations[r] \in ReservationRow
    BY <1>2 DEF SettleReservation
<1>4. row.status # "active"
    BY <1>3 DEF ReservationRow
<1> HIDE DEF row
<1>5. reservations'[r].status # "active" /\ \A s \in ReservationId \ {r} : reservations'[s] = reservations[s]
    BY <1>1, <1>2, <1>4
<1> QED
    BY <1>5 DEF ActiveFor, IsActive

\* A step that leaves the orders, their history, their reservations and the
\* requests alone.
LEMMA SerialBeside ==
  ASSUME Serial, OrdersTyped', UNCHANGED <<orders, history, request>>,
         \A o \in Order : ActiveFor(o)' = ActiveFor(o)
  PROVE  Serial'
<1>1. OnePerOrder' /\ HasHistory' /\ HistoryIsPath'
    BY DEF Serial, OnePerOrder, HasHistory, HistoryIsPath
<1>2. ASSUME NEW w \in Worker PROVE UpToDate(w)'
    <2>1. UpToDate(w) /\ (request[w] # NoRow => request[w].order \in Order)
        BY DEF Serial, OrdersTyped, RequestRow
    <2> QED
        BY <2>1 DEF UpToDate
<1>3. ClosedHoldsNothing'
    BY DEF Serial, ClosedHoldsNothing
<1> QED
    BY <1>1, <1>2, <1>3 DEF Serial

LEMMA SerialStock ==
  ASSUME Serial, StockRequest
  PROVE  Serial'
<1>1. OrdersTyped
    BY DEF Serial
<1>2. UNCHANGED <<orders, history, request>>
    BY DEF StockRequest
<1>3. CASE StockStep
    <2>1. UNCHANGED reservations
        BY <1>3, StockKeepsReservations
    <2>2. \A o \in Order : ActiveFor(o)' = ActiveFor(o)
        BY <2>1 DEF ActiveFor, IsActive
    <2> QED
        BY <1>1, <1>2, <2>2, TypedStock, SerialBeside
<1>4. CASE DirectReservation
    <2>1. ASSUME NEW o \in Order PROVE ActiveFor(o)' = ActiveFor(o)
        <3>1. CASE \E r \in ReservationId, place \in Place, q \in Quantity, ref \in Direct :
                     ReserveStock(r, place, q, ref)
            BY <1>1, <3>1, OrdersAssumption, ReserveHoldsForOne
        <3>2. CASE \E r \in ReservationId, consume \in BOOLEAN :
                     reservations[r].ref \in Direct /\ SettleReservation(r, consume)
            <4>1. PICK r \in ReservationId, consume \in BOOLEAN :
                    reservations[r].ref \in Direct /\ SettleReservation(r, consume)
                BY <3>2
            <4>2. r \notin ActiveFor(o)
                BY <4>1, OrdersAssumption DEF ActiveFor
            <4> QED
                BY <1>1, <4>1, <4>2, SettleEndsOne
        <3> QED
            BY <1>4, <3>1, <3>2 DEF DirectReservation, ReleaseReservation
    <2> QED
        BY <1>1, <1>2, <2>1, TypedStock, SerialBeside
<1> QED
    BY <1>3, <1>4 DEF StockRequest

\* Drafting creates orders without requests, and changes no status.
LEMMA SerialDraft ==
  ASSUME Serial, DraftStep
  PROVE  Serial'
<1>1. OrdersTyped /\ OrdersTyped'
    BY TypedDraft DEF Serial
<1>2. UNCHANGED <<inventoryVars, request>>
    BY DEF DraftStep, CreateOrder, ImportOrders, AddOrderItem, RemoveOrderItem
<1> DEFINE New(o)  == /\ orders[o] = NoRow
                      /\ orders'[o] # NoRow /\ orders'[o].status = "draft"
                      /\ history'[o] = <<[from |-> "new", to |-> "draft"]>>
           Same(o) == /\ history'[o] = history[o]
                      /\ orders'[o] # NoRow => orders[o] # NoRow /\ orders'[o].status = orders[o].status
<1>3. \A o \in Order : New(o) \/ Same(o)
    <2>1. ASSUME NEW o \in Order, NEW items \in Basket, CreateOrder(o, items), NEW x \in Order
          PROVE  New(x) \/ Same(x)
        <3>1. orders'[x] = IF x = o THEN [status |-> "draft", items |-> items] ELSE orders[x]
            BY <1>1, <2>1 DEF CreateOrder, OrdersTyped
        <3>2. history'[x] = IF x = o THEN <<[from |-> "new", to |-> "draft"]>> ELSE history[x]
            BY <1>1, <2>1 DEF CreateOrder, OrdersTyped
        <3>3. [status |-> "draft", items |-> items] \in OrderRow
            BY OrderStatuses DEF OrderRow, ItemRow
        <3> QED
            BY <2>1, <3>1, <3>2, <3>3, OrdersAssumption DEF CreateOrder
    <2>2. ASSUME NEW rows \in SUBSET Order, NEW items \in [rows -> Basket],
                 ImportOrders(rows, items), NEW x \in Order
          PROVE  New(x) \/ Same(x)
        <3>1. CASE x \in rows /\ orders[x] = NoRow
            <4>1. orders'[x] = [status |-> "draft", items |-> items[x]]
                  /\ history'[x] = <<[from |-> "new", to |-> "draft"]>>
                BY <2>2, <3>1 DEF ImportOrders
            <4>2. [status |-> "draft", items |-> items[x]] \in OrderRow
                BY <3>1, OrderStatuses DEF OrderRow, ItemRow
            <4> QED
                BY <3>1, <4>1, <4>2, OrdersAssumption
        <3>2. CASE ~(x \in rows /\ orders[x] = NoRow)
            BY <2>2, <3>2 DEF ImportOrders
        <3> QED
            BY <3>1, <3>2
    <2>3. ASSUME NEW o \in Order, NEW item, AddOrderItem(o, item) \/ RemoveOrderItem(o, item),
                 NEW x \in Order
          PROVE  Same(x)
        <3>1. PICK items : orders' = [orders EXCEPT ![o] = [orders[o] EXCEPT !.items = items]]
            BY <2>3 DEF AddOrderItem, RemoveOrderItem
        <3>2. orders[o] # NoRow /\ history' = history /\ orders[o] \in OrderRow
            BY <1>1, <2>3 DEF AddOrderItem, RemoveOrderItem, Editable, OrdersTyped
        <3>3. [orders[o] EXCEPT !.items = items].status = orders[o].status
            BY <3>2 DEF OrderRow
        <3>4. orders'[x] = IF x = o THEN [orders[o] EXCEPT !.items = items] ELSE orders[x]
            BY <1>1, <3>1 DEF OrdersTyped
        <3> QED
            BY <3>2, <3>3, <3>4
    <2> QED
        BY <2>1, <2>2, <2>3 DEF DraftStep
<1>4. \A o \in Order : ActiveFor(o)' = ActiveFor(o)
    BY <1>2 DEF ActiveFor, IsActive, inventoryVars
<1>5. OnePerOrder'
    BY <1>2 DEF Serial, OnePerOrder
<1>6. ASSUME NEW w \in Worker PROVE UpToDate(w)'
    <2>1. request[w] # NoRow => /\ request[w].order \in Order
                                /\ orders[request[w].order] # NoRow
                                /\ orders'[request[w].order] # NoRow
        BY <1>1, <1>2 DEF OrdersTyped, WorkTyped, RequestRow
    <2>2. UpToDate(w)
        BY DEF Serial
    <2> QED
        BY <1>2, <1>3, <1>4, <2>1, <2>2 DEF UpToDate
<1>7. HasHistory'
    BY <1>3 DEF Serial, HasHistory
<1>8. ASSUME NEW o \in Order, orders'[o] # NoRow
      PROVE  /\ orders'[o].status = history'[o][Len(history'[o])].to
             /\ \A i \in 2..Len(history'[o]) : history'[o][i].from = history'[o][i - 1].to
    <2>1. CASE New(o)
        <3>1. Len(history'[o]) = 1 /\ history'[o][1].to = "draft"
            BY <2>1
        <3> QED
            BY <2>1, <3>1
    <2>2. CASE Same(o)
        BY <1>8, <2>2 DEF Serial, HistoryIsPath
    <2> QED
        BY <1>3, <2>1, <2>2
<1>9. ClosedHoldsNothing'
    BY <1>3, <1>4 DEF Serial, ClosedHoldsNothing
<1> QED
    BY <1>1, <1>5, <1>6, <1>7, <1>8, <1>9 DEF Serial, HistoryIsPath

\* A step of one request that leaves orders and history alone, and changes the
\* reservations of no order but the one served: the others are not concerned.
LEMMA SerialWork ==
  ASSUME Serial, OrdersTyped', NEW w \in Worker, UNCHANGED <<orders, history>>,
         \A v \in Worker \ {w} : request'[v] = request[v],
         request'[w] # NoRow =>
           \A v \in Worker \ {w} : request[v] # NoRow => request[v].order # request'[w].order,
         UpToDate(w)',
         NEW served, request[w] # NoRow => request[w].order = served,
         \A o \in Order \ {served} : ActiveFor(o)' = ActiveFor(o),
         \/ ActiveFor(served)' = ActiveFor(served)
         \/ /\ request[w] # NoRow
            /\ \/ ActiveFor(served)' \subseteq ActiveFor(served)
               \/ orders[served].status \notin {"dispatched", "delivered", "cancelled"}
  PROVE  Serial'
<1>1. OnePerOrder'
    BY DEF Serial, OnePerOrder
<1>2. HasHistory' /\ HistoryIsPath'
    BY DEF Serial, HasHistory, HistoryIsPath
<1>3. ClosedHoldsNothing'
    BY DEF Serial, ClosedHoldsNothing
<1>4. ASSUME NEW v \in Worker PROVE UpToDate(v)'
    <2>1. CASE v = w
        BY <2>1
    <2>2. CASE v # w /\ request[v] # NoRow
        <3>1. request'[v] = request[v] /\ request[v].order \in Order
            BY <2>2 DEF Serial, OrdersTyped, RequestRow
        <3>2. ActiveFor(request[v].order)' = ActiveFor(request[v].order)
            BY <2>2, <3>1 DEF Serial, OnePerOrder
        <3>3. UpToDate(v)
            BY DEF Serial
        <3> QED
            BY <2>2, <3>1, <3>2, <3>3 DEF UpToDate
    <2>3. CASE v # w /\ request[v] = NoRow
        BY <2>3 DEF UpToDate
    <2> QED
        BY <2>1, <2>2, <2>3
<1> QED
    BY <1>1, <1>2, <1>3, <1>4 DEF Serial

\* Accepting a request, which no other worker is serving the order of.
LEMMA SerialAccept ==
  ASSUME Serial, OrdersTyped', Exclusive, NEW w \in Worker, NEW o \in Order, NEW target,
         NEW warehouse, Accept(w, o, target, warehouse),
         target \in OrderTransitions[orders[o].status] \cup {"cancelled"}
  PROVE  Serial'
<1> DEFINE row == [order |-> o, from |-> orders[o].status, target |-> target,
                   warehouse |-> warehouse, todo |-> NoRow]
<1>1. request' = [request EXCEPT ![w] = row] /\ UNCHANGED <<inventoryVars, orders, history>>
    BY DEF Accept
<1>2. request'[w] = row /\ \A v \in Worker \ {w} : request'[v] = request[v]
    BY <1>1 DEF Serial, OrdersTyped
<1>3. \A v \in Worker \ {w} : request[v] # NoRow => request[v].order # o
    BY DEF Accept, InProgress
<1>4. UpToDate(w)'
    BY <1>1, <1>2 DEF UpToDate
<1>5. \A x : ActiveFor(x)' = ActiveFor(x)
    BY <1>1 DEF ActiveFor, IsActive, inventoryVars
<1>6. request'[w].order = o
    BY <1>2
<1> HIDE DEF row
<1> QED
    BY <1>1, <1>2, <1>3, <1>4, <1>5, <1>6, SerialWork

\* The last transaction of a request.  The order is where the request read it,
\* and an order that closes has been listed and settled.
LEMMA SerialFinish ==
  ASSUME Serial, OrdersTyped', NEW w \in Worker, Finish(w)
  PROVE  Serial'
<1> DEFINE req == request[w]
           o   == request[w].order
           entry == [from |-> req.from, to |-> req.target]
<1>1. OrdersTyped /\ UpToDate(w)
    BY DEF Serial
<1>2. /\ req \in RequestRow /\ req # NoRow /\ req.todo = {} /\ {} # NoRow
      /\ o \in Order
      /\ orders[o] # NoRow /\ orders[o] \in OrderRow
    BY <1>1 DEF Finish, Working, OrdersTyped, WorkTyped, RequestRow
<1>3. /\ orders' = [orders EXCEPT ![o] = [orders[o] EXCEPT !.status = req.target]]
      /\ history' = [history EXCEPT ![o] = Append(history[o], entry)]
      /\ request' = [request EXCEPT ![w] = NoRow]
      /\ UNCHANGED inventoryVars
    BY DEF Finish
<1>4. /\ orders'[o].status = req.target
      /\ history'[o] = Append(history[o], entry)
      /\ \A x \in Order \ {o} : orders'[x] = orders[x] /\ history'[x] = history[x]
    BY <1>1, <1>2, <1>3 DEF OrdersTyped, OrderRow
<1>5. request'[w] = NoRow /\ \A v \in Worker \ {w} : request'[v] = request[v]
    BY <1>1, <1>3 DEF OrdersTyped
<1>6. \A x : ActiveFor(x)' = ActiveFor(x)
    BY <1>3 DEF ActiveFor, IsActive, inventoryVars
<1>7. OnePerOrder'
    BY <1>5 DEF Serial, OnePerOrder
<1>8. ASSUME NEW v \in Worker PROVE UpToDate(v)'
    <2>1. CASE v = w \/ request[v] = NoRow
        BY <1>5, <2>1 DEF UpToDate
    <2>2. CASE v # w /\ request[v] # NoRow
        <3>1. request'[v] = request[v] /\ request[v].order \in Order \ {o}
            BY <1>2, <1>5, <2>2 DEF Serial, OnePerOrder, OrdersTyped, RequestRow
        <3>2. UpToDate(v)
            BY DEF Serial
        <3> QED
            BY <1>4, <1>6, <2>2, <3>1, <3>2 DEF UpToDate
    <2> QED
        BY <2>1, <2>2
<1>9. history[o] \in Seq(HistoryRow) /\ history[o] # <<>>
    BY <1>1, <1>2 DEF OrdersTyped, Serial, HasHistory
<1>10. HasHistory'
    BY <1>4, <1>9 DEF Serial, HasHistory
<1>11. ASSUME NEW x \in Order, orders'[x] # NoRow
       PROVE  /\ orders'[x].status = history'[x][Len(history'[x])].to
              /\ \A i \in 2..Len(history'[x]) : history'[x][i].from = history'[x][i - 1].to
    <2>1. CASE x = o
        <3> DEFINE rows == history[o]
        <3>1. /\ orders[o].status = rows[Len(rows)].to
              /\ \A i \in 2..Len(rows) : rows[i].from = rows[i - 1].to
            BY <1>2 DEF Serial, HistoryIsPath
        <3>2. req.from = rows[Len(rows)].to
            BY <1>1, <1>2, <3>1 DEF UpToDate
        <3>3. /\ Len(Append(rows, entry)) = Len(rows) + 1
              /\ Len(rows) \in Nat \ {0}
              /\ Append(rows, entry)[Len(rows) + 1] = entry
              /\ \A i \in 1..Len(rows) : Append(rows, entry)[i] = rows[i]
            BY <1>9
        <3>4. entry.from = req.from /\ entry.to = req.target
            OBVIOUS
        <3> HIDE DEF rows, entry
        <3>5. ASSUME NEW i \in 2..(Len(rows) + 1)
              PROVE  Append(rows, entry)[i].from = Append(rows, entry)[i - 1].to
            <4>1. CASE i = Len(rows) + 1
                <5>1. Append(rows, entry)[i] = entry /\ Append(rows, entry)[i - 1] = rows[Len(rows)]
                    BY <3>3, <4>1
                <5> QED
                    BY <3>2, <3>4, <5>1
            <4>2. CASE i # Len(rows) + 1
                <5>1. i \in 2..Len(rows) /\ i - 1 \in 1..Len(rows)
                    BY <3>3, <4>2
                <5> QED
                    BY <3>1, <3>3, <5>1
            <4> QED
                BY <4>1, <4>2
        <3> QED
            BY <1>4, <2>1, <3>3, <3>4, <3>5 DEF rows
    <2>2. CASE x # o
        BY <1>4, <1>11, <2>2 DEF Serial, HistoryIsPath
    <2> QED
        BY <2>1, <2>2
<1>12. ASSUME NEW x \in Order, orders'[x] # NoRow,
              orders'[x].status \in {"dispatched", "delivered", "cancelled"}
       PROVE  ActiveFor(x)' = {}
    <2>1. CASE x # o
        BY <1>4, <1>6, <1>12, <2>1 DEF Serial, ClosedHoldsNothing
    <2>2. CASE x = o /\ req.target \in {"cancelled", "dispatched"}
        BY <1>1, <1>2, <1>6, <2>2 DEF UpToDate
    <2>3. CASE x = o /\ req.target = "delivered"
        <3>1. req.from \in Status /\ "delivered" \in OrderTransitions[req.from]
            BY <1>1, <1>2, <2>3 DEF UpToDate, RequestRow
        <3>2. req.from = "dispatched"
            BY <3>1, OrderStatuses DEF OrderTransitions
        <3>3. orders[o].status = "dispatched"
            BY <1>1, <1>2, <3>2 DEF UpToDate
        <3> QED
            BY <1>2, <1>6, <2>3, <3>3 DEF Serial, ClosedHoldsNothing
    <2> QED
        BY <1>4, <1>12, <2>1, <2>2, <2>3
<1> QED
    BY <1>7, <1>8, <1>10, <1>11, <1>12 DEF Serial, HistoryIsPath, ClosedHoldsNothing

LEMMA SerialRequest ==
  ASSUME Serial, Exclusive, NEW w \in Worker, RequestStep(w)
  PROVE  Serial'
<1>1. OrdersTyped /\ OrdersTyped' /\ UpToDate(w)
    BY TypedRequest DEF Serial
<1>2. ASSUME NEW o \in Order, NEW target \in Status, NEW warehouse \in Warehouse \cup {NoRow},
             StartTransition(w, o, target, warehouse)
      PROVE  Serial'
    BY <1>1, <1>2, SerialAccept DEF StartTransition
<1>3. ASSUME NEW o \in Order, StartCancel(w, o)
      PROVE  Serial'
    BY <1>1, <1>3, SerialAccept DEF StartCancel
<1>4. CASE ListWork(w)
    <2>1. /\ request[w] \in RequestRow /\ request[w] # NoRow
          /\ UNCHANGED <<inventoryVars, orders, history>>
          /\ \A v \in Worker \ {w} : request'[v] = request[v]
        BY <1>1, <1>4 DEF ListWork, OrdersTyped
    <2>2. \A x : ActiveFor(x)' = ActiveFor(x)
        BY <2>1 DEF ActiveFor, IsActive, inventoryVars
    <2>3. /\ request'[w].order = request[w].order
          /\ request'[w].from = request[w].from
          /\ request'[w].target = request[w].target
          /\ request[w].target \in {"cancelled", "dispatched"}
               => request'[w].todo = ActiveFor(request[w].order)
        BY <1>1, <1>4, <2>1 DEF ListWork, OrdersTyped, RequestRow
    <2>4. UpToDate(w)'
        BY <1>1, <2>1, <2>2, <2>3 DEF UpToDate
    <2>5. \A v \in Worker \ {w} : request[v] # NoRow => request[v].order # request'[w].order
        BY <2>1, <2>3 DEF Serial, OnePerOrder
    <2> QED
        BY <1>1, <2>1, <2>2, <2>4, <2>5, SerialWork
<1>5. CASE ReserveItem(w)
    <2>1. PICK item \in request[w].todo, r \in ReservationId :
            /\ ReserveStock(r, <<item.product, request[w].warehouse>>, item.quantity, request[w].order)
            /\ request' = [request EXCEPT ![w].todo = @ \ {item}]
        BY <1>5 DEF ReserveItem
    <2>2. /\ request[w] \in RequestRow /\ request[w] # NoRow
          /\ request[w].target = "reserved"
          /\ UNCHANGED <<orders, history>>
        BY <1>1, <1>5 DEF ReserveItem, Working, OrdersTyped
    <2>3. /\ request'[w].order = request[w].order
          /\ request'[w].from = request[w].from
          /\ request'[w].target = request[w].target
          /\ \A v \in Worker \ {w} : request'[v] = request[v]
        BY <1>1, <2>1, <2>2 DEF OrdersTyped, RequestRow
    <2>4. request[w].from \in Status /\ "reserved" \in OrderTransitions[request[w].from]
        BY <1>1, <2>2 DEF UpToDate, RequestRow
    <2>5. request[w].from = "confirmed"
        BY <2>4, OrderStatuses DEF OrderTransitions
    <2>6. orders[request[w].order].status \notin {"dispatched", "delivered", "cancelled"}
        BY <1>1, <2>2, <2>5 DEF UpToDate
    <2>7. UpToDate(w)'
        BY <1>1, <2>2, <2>3 DEF UpToDate
    <2>8. \A v \in Worker \ {w} : request[v] # NoRow => request[v].order # request'[w].order
        BY <2>2, <2>3 DEF Serial, OnePerOrder
    <2>9. \A o \in Order \ {request[w].order} : ActiveFor(o)' = ActiveFor(o)
        BY <1>1, <2>1, ReserveHoldsForOne
    <2> QED
        BY <1>1, <2>2, <2>3, <2>6, <2>7, <2>8, <2>9, SerialWork
<1>6. CASE SettleListed(w)
    <2>1. PICK r \in request[w].todo :
            /\ SettleReservation(r, request[w].target = "dispatched")
            /\ request' = [request EXCEPT ![w].todo = @ \ {r}]
        BY <1>6 DEF SettleListed
    <2>2. /\ request[w] \in RequestRow /\ request[w] # NoRow /\ request[w].todo # NoRow
          /\ request[w].target \in {"cancelled", "dispatched"}
          /\ r \in ReservationId
          /\ UNCHANGED <<orders, history>>
        BY <1>1, <1>6 DEF SettleListed, Working, OrdersTyped, WorkTyped, WorkOf
    <2>3. /\ request'[w].order = request[w].order
          /\ request'[w].from = request[w].from
          /\ request'[w].target = request[w].target
          /\ request'[w].todo = request[w].todo \ {r}
          /\ \A v \in Worker \ {w} : request'[v] = request[v]
        BY <1>1, <2>1, <2>2 DEF OrdersTyped, RequestRow
    <2>4. \A o : ActiveFor(o)' = ActiveFor(o) \ {r}
        BY <1>1, <2>1, <2>2, SettleEndsOne
    <2>5. UpToDate(w)'
        BY <1>1, <2>2, <2>3, <2>4 DEF UpToDate
    <2>7. r \in ActiveFor(request[w].order)
        BY <1>1, <2>1, <2>2 DEF UpToDate
    <2>8. \A o \in Order \ {request[w].order} : ActiveFor(o)' = ActiveFor(o)
        BY <2>4, <2>7 DEF ActiveFor
    <2>6. \A v \in Worker \ {w} : request[v] # NoRow => request[v].order # request'[w].order
        BY <2>2, <2>3 DEF Serial, OnePerOrder
    <2> QED
        BY <1>1, <2>2, <2>3, <2>4, <2>5, <2>6, <2>8, SerialWork
<1>7. CASE RefuseItem(w) \/ Crash(w)
    <2>1. request' = [request EXCEPT ![w] = NoRow] /\ UNCHANGED <<inventoryVars, orders, history>>
        BY <1>7 DEF RefuseItem, Crash
    <2>2. request'[w] = NoRow /\ \A v \in Worker \ {w} : request'[v] = request[v]
        BY <1>1, <2>1 DEF OrdersTyped
    <2>3. \A x : ActiveFor(x)' = ActiveFor(x)
        BY <2>1 DEF ActiveFor, IsActive, inventoryVars
    <2>4. UpToDate(w)'
        BY <2>2 DEF UpToDate
    <2> QED
        BY <1>1, <2>1, <2>2, <2>3, <2>4, SerialWork
<1>8. CASE Finish(w)
    BY <1>1, <1>8, SerialFinish
<1> QED
    BY <1>2, <1>3, <1>4, <1>5, <1>6, <1>7, <1>8 DEF RequestStep, WorkStep

LEMMA SerialStep ==
  ASSUME Exclusive
  PROVE  Serial /\ [OrdersNext]_vars => Serial'
<1> SUFFICES ASSUME Serial, [OrdersNext]_vars PROVE Serial'
    OBVIOUS
<1>1. CASE UNCHANGED vars
    <2>1. UNCHANGED <<inventoryVars, orders, history, request>> /\ OrdersTyped /\ OrdersTyped'
        BY <1>1, OrdersTypedStep DEF vars, Serial
    <2>2. \A x : ActiveFor(x)' = ActiveFor(x)
        BY <2>1 DEF ActiveFor, IsActive, inventoryVars
    <2> QED
        BY <2>1, <2>2, SerialBeside
<1> QED
    BY <1>1, SerialDraft, SerialRequest, SerialStock DEF OrdersNext

\* With one request per order at a time, however many are refused, die or are
\* sent again, the history of an order is a path that ends where the order is:
\* transition_order and cancel_order write the status they read before their
\* other commits.
THEOREM HistoryFollows ==
  ASSUME Exclusive
  PROVE  OrdersSpec => []HistoryIsPath
<1>1. OrdersInit => Serial
    BY SerialInit
<1>2. Serial /\ [OrdersNext]_vars => Serial'
    BY SerialStep
<1>3. Serial => HistoryIsPath
    BY DEF Serial
<1> QED
    BY <1>1, <1>2, <1>3, PTL DEF OrdersSpec

\* Likewise, an order that was dispatched, delivered or cancelled holds no stock,
\* whatever its failed attempts had reserved, settled or left half done.
THEOREM ClosedReleases ==
  ASSUME Exclusive
  PROVE  OrdersSpec => []ClosedHoldsNothing
<1>1. OrdersInit => Serial
    BY SerialInit
<1>2. Serial /\ [OrdersNext]_vars => Serial'
    BY SerialStep
<1>3. Serial => ClosedHoldsNothing
    BY DEF Serial
<1> QED
    BY <1>1, <1>2, <1>3, PTL DEF OrdersSpec

-----------------------------------------------------------------------------
(* What has left the warehouse.                                             *)

ConsumedFor(o) ==
  \E r \in ReservationId : /\ reservations[r] # NoRow
                           /\ reservations[r].ref = o
                           /\ reservations[r].status = "consumed"

Shipping(o) ==
  \E w \in Worker : /\ request[w] # NoRow
                    /\ request[w].order = o
                    /\ request[w].target = "dispatched"

Left == {"dispatched", "delivered", "cancelled"}

HasLeft(o) == orders[o] # NoRow /\ orders[o].status \in Left

\* ConsumedByDispatch, and the order is there.
ConsumedLeft == \A o \in Order : ConsumedFor(o) => HasLeft(o) \/ Shipping(o)

\* A step after which nothing more is consumed, no order that has left is back,
\* and whoever ships goes on.
LEMMA NothingConsumed ==
  ASSUME ConsumedLeft, NEW o \in Order,
         ConsumedFor(o)' => ConsumedFor(o),
         HasLeft(o) => HasLeft(o)',
         Shipping(o) => Shipping(o)'
  PROVE  ConsumedFor(o)' => HasLeft(o)' \/ Shipping(o)'
BY DEF ConsumedLeft

\* A reservation that is made is active.
LEMMA ReserveConsumesNothing ==
  ASSUME TypeOK, NEW r \in ReservationId, NEW place, NEW q, NEW ref,
         ReserveStock(r, place, q, ref), NEW o
  PROVE  ConsumedFor(o)' => ConsumedFor(o)
<1> DEFINE row == [place |-> place, quantity |-> q, ref |-> ref, status |-> "active"]
<1>1. reservations' = [reservations EXCEPT ![r] = row]
    BY DEF ReserveStock
<1>2. reservations'[r].status = "active" /\ \A s \in ReservationId \ {r} : reservations'[s] = reservations[s]
    BY <1>1 DEF TypeOK
<1> QED
    BY <1>2 DEF ConsumedFor

\* Settling a reservation consumes nothing of another order, and nothing at all
\* when it releases.
LEMMA SettleConsumesOne ==
  ASSUME TypeOK, NEW r \in ReservationId, NEW consume \in BOOLEAN,
         SettleReservation(r, consume), NEW o, reservations[r].ref # o \/ ~consume
  PROVE  ConsumedFor(o)' => ConsumedFor(o)
<1> DEFINE row == [reservations[r] EXCEPT !.status = IF consume THEN "consumed" ELSE "released"]
<1>1. reservations' = [reservations EXCEPT ![r] = row]
    BY DEF SettleReservation
<1>2. reservations[r] \in ReservationRow
    BY DEF SettleReservation, TypeOK
<1>3. row.ref = reservations[r].ref /\ (~consume => row.status # "consumed")
    BY <1>2 DEF ReservationRow
<1> HIDE DEF row
<1>4. reservations'[r] = row /\ \A s \in ReservationId \ {r} : reservations'[s] = reservations[s]
    BY <1>1 DEF TypeOK
<1> QED
    BY <1>3, <1>4 DEF ConsumedFor

\* The other requests go on, and the one served keeps its order and target.
LEMMA ShippingGoesOn ==
  ASSUME NEW w \in Worker, NEW o,
         \A v \in Worker \ {w} : request'[v] = request[v],
         request[w] # NoRow /\ request[w].order = o /\ request[w].target = "dispatched"
           => /\ request'[w] # NoRow
              /\ request'[w].order = o
              /\ request'[w].target = "dispatched"
  PROVE  Shipping(o) => Shipping(o)'
BY DEF Shipping

\* Listing work and ticking it off leave the request to its worker.
LEMMA RequestStays ==
  ASSUME OrdersTyped, NEW w \in Worker, request[w] # NoRow,
         NEW todo \in SUBSET (ItemRow \cup ReservationId),
         request' = [request EXCEPT ![w].todo = todo]
  PROVE  /\ request'[w] # NoRow
         /\ request'[w].order = request[w].order
         /\ request'[w].target = request[w].target
         /\ \A v \in Worker \ {w} : request'[v] = request[v]
<1> DEFINE row == [request[w] EXCEPT !.todo = todo]
<1>1. request[w] \in RequestRow
    BY DEF OrdersTyped
<1>2. row \in RequestRow /\ row.order = request[w].order /\ row.target = request[w].target
    BY <1>1 DEF RequestRow
<1>3. request' = [request EXCEPT ![w] = row]
    OBVIOUS
<1> HIDE DEF row
<1>4. request'[w] = row /\ \A v \in Worker \ {w} : request'[v] = request[v]
    BY <1>3 DEF OrdersTyped
<1> QED
    BY <1>2, <1>4, OrdersAssumption

LEMMA ConsumedStock ==
  ASSUME OrdersTyped, ConsumedLeft, StockRequest
  PROVE  ConsumedLeft'
<1> SUFFICES ASSUME NEW o \in Order
             PROVE  ConsumedFor(o)' => HasLeft(o)' \/ Shipping(o)'
    BY DEF ConsumedLeft
<1>1. UNCHANGED <<orders, history, request>> /\ TypeOK
    BY DEF StockRequest, OrdersTyped
<1>2. ConsumedFor(o)' => ConsumedFor(o)
    <2>1. CASE StockStep
        <3>1. UNCHANGED reservations
            BY <2>1, StockKeepsReservations
        <3> QED
            BY <3>1 DEF ConsumedFor
    <2>2. CASE \E r \in ReservationId, place \in Place, q \in Quantity, ref \in Direct :
                 ReserveStock(r, place, q, ref)
        BY <1>1, <2>2, ReserveConsumesNothing
    <2>3. CASE \E r \in ReservationId, consume \in BOOLEAN :
                 reservations[r].ref \in Direct /\ SettleReservation(r, consume)
        <3>1. PICK r \in ReservationId, consume \in BOOLEAN :
                reservations[r].ref \in Direct /\ SettleReservation(r, consume)
            BY <2>3
        <3> QED
            BY <1>1, <3>1, OrdersAssumption, SettleConsumesOne
    <2> QED
        BY <2>1, <2>2, <2>3 DEF StockRequest, DirectReservation, ReleaseReservation
<1>3. HasLeft(o) => HasLeft(o)'
    BY <1>1 DEF HasLeft
<1>4. Shipping(o) => Shipping(o)'
    BY <1>1 DEF Shipping
<1> QED
    BY <1>2, <1>3, <1>4, NothingConsumed

\* Drafting touches no order beyond the drafts.
LEMMA DraftsOnly ==
  ASSUME OrdersTyped, DraftStep, NEW o \in Order, orders[o] # NoRow
  PROVE  \/ orders'[o] = orders[o]
         \/ Editable(o) /\ orders'[o].status \in {"draft", "on_hold"}
<1>1. ASSUME NEW x \in Order, NEW items \in Basket, CreateOrder(x, items)
      PROVE  orders'[o] = orders[o]
    BY <1>1 DEF CreateOrder, OrdersTyped
<1>2. ASSUME NEW rows \in SUBSET Order, NEW items \in [rows -> Basket], ImportOrders(rows, items)
      PROVE  orders'[o] = orders[o]
    BY <1>2 DEF ImportOrders
<1>3. ASSUME NEW x \in Order, NEW item, AddOrderItem(x, item) \/ RemoveOrderItem(x, item)
      PROVE  \/ orders'[o] = orders[o]
             \/ Editable(o) /\ orders'[o].status \in {"draft", "on_hold"}
    <2>1. PICK items : orders' = [orders EXCEPT ![x] = [orders[x] EXCEPT !.items = items]]
        BY <1>3 DEF AddOrderItem, RemoveOrderItem
    <2>2. Editable(x) /\ orders[x] \in OrderRow /\ orders[x].status \in {"draft", "on_hold"}
        BY <1>3 DEF AddOrderItem, RemoveOrderItem, Editable, OrdersTyped
    <2>3. [orders[x] EXCEPT !.items = items].status = orders[x].status
        BY <2>2 DEF OrderRow
    <2>4. orders'[o] = IF o = x THEN [orders[x] EXCEPT !.items = items] ELSE orders[o]
        BY <2>1 DEF OrdersTyped
    <2> QED
        BY <2>2, <2>3, <2>4
<1> QED
    BY <1>1, <1>2, <1>3 DEF DraftStep

\* What drafting creates is a draft.
LEMMA DraftsCreated ==
  ASSUME OrdersTyped, DraftStep, NEW o \in Order, orders[o] = NoRow, orders'[o] # NoRow
  PROVE  orders'[o].status = "draft"
<1>1. ASSUME NEW x \in Order, NEW items \in Basket, CreateOrder(x, items)
      PROVE  orders'[o].status = "draft"
    BY <1>1 DEF CreateOrder, OrdersTyped
<1>2. ASSUME NEW rows \in SUBSET Order, NEW items \in [rows -> Basket], ImportOrders(rows, items)
      PROVE  orders'[o].status = "draft"
    BY <1>2 DEF ImportOrders
<1>3. ASSUME NEW x \in Order, NEW item, AddOrderItem(x, item) \/ RemoveOrderItem(x, item)
      PROVE  orders'[o].status = "draft"
    BY <1>3 DEF AddOrderItem, RemoveOrderItem, Editable, OrdersTyped
<1> QED
    BY <1>1, <1>2, <1>3 DEF DraftStep

LEMMA ConsumedDraft ==
  ASSUME OrdersTyped, ConsumedLeft, DraftStep
  PROVE  ConsumedLeft'
<1> SUFFICES ASSUME NEW o \in Order
             PROVE  ConsumedFor(o)' => HasLeft(o)' \/ Shipping(o)'
    BY DEF ConsumedLeft
<1>1. UNCHANGED <<inventoryVars, request>>
    BY DEF DraftStep, CreateOrder, ImportOrders, AddOrderItem, RemoveOrderItem
<1>2. ConsumedFor(o)' => ConsumedFor(o)
    BY <1>1 DEF ConsumedFor, inventoryVars
<1>3. HasLeft(o) => HasLeft(o)'
    BY DraftsOnly DEF HasLeft, Left, Editable
<1>4. Shipping(o) => Shipping(o)'
    BY <1>1 DEF Shipping
<1> QED
    BY <1>2, <1>3, <1>4, NothingConsumed

\* The status that a request writes to an order that has left is one of those.
LEMMA LeavesOnce ==
  ASSUME Serial, NEW w \in Worker, request[w] # NoRow, HasLeft(request[w].order)
  PROVE  request[w].target \in Left
<1>1. UpToDate(w) /\ request[w] \in RequestRow
    BY DEF Serial, OrdersTyped
<1>2. /\ request[w].from \in {"dispatched", "delivered", "cancelled"}
      /\ request[w].target \in OrderTransitions[request[w].from] \cup {"cancelled"}
    BY <1>1 DEF UpToDate, HasLeft, Left
<1> QED
    BY <1>2 DEF OrderTransitions, Left

LEMMA ConsumedRequest ==
  ASSUME Serial, ConsumedLeft, ~Crashes, NEW w \in Worker, RequestStep(w)
  PROVE  ConsumedLeft'
<1> SUFFICES ASSUME NEW o \in Order
             PROVE  ConsumedFor(o)' => HasLeft(o)' \/ Shipping(o)'
    BY DEF ConsumedLeft
<1>1. OrdersTyped /\ TypeOK /\ UpToDate(w) /\ request \in [Worker -> RequestRow \cup {NoRow}]
    BY DEF Serial, OrdersTyped
<1>2. ASSUME UNCHANGED <<inventoryVars, orders>>
      PROVE  (ConsumedFor(o)' => ConsumedFor(o)) /\ (HasLeft(o) => HasLeft(o)')
    BY <1>2 DEF ConsumedFor, HasLeft, inventoryVars
<1>3. ASSUME NEW x \in Order, NEW target, NEW warehouse, Accept(w, x, target, warehouse)
      PROVE  ConsumedFor(o)' => HasLeft(o)' \/ Shipping(o)'
    <2>1. /\ request[w] = NoRow
          /\ UNCHANGED <<inventoryVars, orders>>
          /\ \A v \in Worker \ {w} : request'[v] = request[v]
        BY <1>1, <1>3 DEF Accept
    <2> QED
        BY <1>2, <2>1, ShippingGoesOn, NothingConsumed
<1>4. CASE ListWork(w)
    <2> DEFINE todo == CASE request[w].target = "reserved" -> orders[request[w].order].items
                         [] request[w].target \in {"cancelled", "dispatched"} -> ActiveFor(request[w].order)
                         [] OTHER -> {}
    <2>1. /\ request' = [request EXCEPT ![w].todo = todo]
          /\ UNCHANGED <<inventoryVars, orders>>
          /\ request[w] # NoRow
        BY <1>4 DEF ListWork
    <2>2. orders[request[w].order] \in OrderRow
        BY <1>1, <2>1 DEF OrdersTyped, WorkTyped, RequestRow
    <2>3. todo \in SUBSET (ItemRow \cup ReservationId)
        BY <2>2 DEF OrderRow, ActiveFor
    <2> HIDE DEF todo
    <2> QED
        BY <1>1, <1>2, <2>1, <2>3, RequestStays, ShippingGoesOn, NothingConsumed
<1>5. CASE ReserveItem(w)
    <2>1. PICK item \in request[w].todo, r \in ReservationId :
            ReserveStock(r, <<item.product, request[w].warehouse>>, item.quantity, request[w].order)
        BY <1>5 DEF ReserveItem
    <2>2. /\ UNCHANGED orders
          /\ request[w].target = "reserved"
          /\ \A v \in Worker \ {w} : request'[v] = request[v]
        BY <1>1, <1>5 DEF ReserveItem
    <2>3. ConsumedFor(o)' => ConsumedFor(o)
        BY <1>1, <2>1, ReserveConsumesNothing
    <2>4. HasLeft(o) => HasLeft(o)'
        BY <2>2 DEF HasLeft
    <2> QED
        BY <2>2, <2>3, <2>4, ShippingGoesOn, NothingConsumed
<1>6. CASE RefuseItem(w)
    <2>1. /\ UNCHANGED <<inventoryVars, orders>>
          /\ request[w].target = "reserved"
          /\ \A v \in Worker \ {w} : request'[v] = request[v]
        BY <1>1, <1>6 DEF RefuseItem
    <2> QED
        BY <1>2, <2>1, ShippingGoesOn, NothingConsumed
<1>7. CASE SettleListed(w)
    <2>1. PICK r \in request[w].todo :
            /\ SettleReservation(r, request[w].target = "dispatched")
            /\ request' = [request EXCEPT ![w].todo = @ \ {r}]
        BY <1>7 DEF SettleListed
    <2>2. /\ request[w] \in RequestRow /\ request[w] # NoRow /\ request[w].todo # NoRow
          /\ request[w].target \in {"cancelled", "dispatched"}
          /\ r \in ReservationId
          /\ UNCHANGED orders
        BY <1>1, <1>7 DEF SettleListed, Working, OrdersTyped, WorkTyped, WorkOf
    <2>3. request[w].todo \ {r} \in SUBSET (ItemRow \cup ReservationId)
        BY <2>2 DEF RequestRow
    <2>5. /\ request'[w] # NoRow
          /\ request'[w].order = request[w].order
          /\ request'[w].target = request[w].target
          /\ \A v \in Worker \ {w} : request'[v] = request[v]
        BY <1>1, <2>1, <2>2, <2>3, RequestStays
    <2>4. reservations[r].ref = request[w].order
        BY <1>1, <2>1, <2>2 DEF UpToDate, ActiveFor
    <2>6. HasLeft(o) => HasLeft(o)'
        BY <2>2 DEF HasLeft
    <2>7. CASE o = request[w].order /\ request[w].target = "dispatched"
        BY <2>5, <2>7 DEF Shipping
    <2>8. CASE ~(o = request[w].order /\ request[w].target = "dispatched")
        <3>1. PICK consume \in BOOLEAN : consume = (request[w].target = "dispatched")
            OBVIOUS
        <3>2. ConsumedFor(o)' => ConsumedFor(o)
            BY <1>1, <2>1, <2>2, <2>4, <2>8, <3>1, SettleConsumesOne
        <3> QED
            BY <2>5, <2>6, <3>2, ShippingGoesOn, NothingConsumed
    <2> QED
        BY <2>7, <2>8
<1>8. CASE Finish(w)
    <2>1. /\ request[w] \in RequestRow /\ request[w] # NoRow
          /\ request[w].order \in Order
          /\ orders[request[w].order] \in OrderRow
          /\ UNCHANGED inventoryVars
          /\ \A v \in Worker \ {w} : request'[v] = request[v]
        BY <1>1, <1>8 DEF Finish, Working, OrdersTyped, WorkTyped, RequestRow
    <2>2. /\ orders'[request[w].order] = [orders[request[w].order] EXCEPT !.status = request[w].target]
          /\ \A x \in Order \ {request[w].order} : orders'[x] = orders[x]
        BY <1>1, <1>8, <2>1 DEF Finish, OrdersTyped
    <2>3. ConsumedFor(o)' => ConsumedFor(o)
        BY <2>1 DEF ConsumedFor, inventoryVars
    <2>4. CASE o # request[w].order
        <3>1. HasLeft(o) => HasLeft(o)'
            BY <2>2, <2>4 DEF HasLeft
        <3> QED
            BY <2>1, <2>3, <2>4, <3>1, ShippingGoesOn, NothingConsumed
    <2>5. CASE o = request[w].order
        <3>3. request[w].target \in Left => HasLeft(o)'
            <4> SUFFICES ASSUME request[w].target \in Left PROVE HasLeft(o)'
                OBVIOUS
            <4>1. request[w].target \in Status
                BY <2>1 DEF RequestRow
            <4>2. [orders[o] EXCEPT !.status = request[w].target] \in OrderRow
                BY <2>1, <2>5, <4>1 DEF OrderRow
            <4>3. [orders[o] EXCEPT !.status = request[w].target].status = request[w].target
                BY <2>1, <2>5 DEF OrderRow
            <4> QED
                BY <2>2, <2>5, <4>2, <4>3, OrdersAssumption DEF HasLeft
        <3> SUFFICES ASSUME ConsumedFor(o)' PROVE HasLeft(o)'
            OBVIOUS
        <3>1. CASE Shipping(o)
            <4>1. request[w].target = "dispatched"
                BY <2>1, <2>5, <3>1 DEF Shipping, Serial, OnePerOrder
            <4> QED
                BY <3>3, <4>1 DEF Left
        <3>2. CASE HasLeft(o)
            BY <2>1, <2>5, <3>2, <3>3, LeavesOnce
        <3> QED
            BY <2>3, <3>1, <3>2 DEF ConsumedLeft
    <2> QED
        BY <2>4, <2>5
<1>9. ~Crash(w)
    BY DEF Crash
<1> QED
    BY <1>3, <1>4, <1>5, <1>6, <1>7, <1>8, <1>9
      DEF RequestStep, WorkStep, StartTransition, StartCancel

LEMMA ConsumedStep ==
  ASSUME ~Crashes
  PROVE  Serial /\ ConsumedLeft /\ [OrdersNext]_vars => ConsumedLeft'
<1> SUFFICES ASSUME Serial, ConsumedLeft, [OrdersNext]_vars PROVE ConsumedLeft'
    OBVIOUS
<1>1. OrdersTyped
    BY DEF Serial
<1>2. UNCHANGED vars => ConsumedLeft'
    BY DEF vars, inventoryVars, ConsumedLeft, ConsumedFor, HasLeft, Shipping
<1> QED
    BY <1>1, <1>2, ConsumedDraft, ConsumedRequest, ConsumedStock DEF OrdersNext

\* With one request per order at a time, and none that dies on the way, stock
\* leaves for an order only through its one dispatch, whatever is refused,
\* retried or cancelled before: transition_order consumes what it listed, and
\* everything else only reserves and releases.
THEOREM ConsumedOnlyByDispatch ==
  ASSUME Exclusive, ~Crashes
  PROVE  OrdersSpec => []ConsumedByDispatch
<1> DEFINE Inv == Serial /\ ConsumedLeft
<1>1. OrdersInit => Inv
    <2>1. OrdersInit => ConsumedLeft
        BY DEF OrdersInit, Init, ConsumedLeft, ConsumedFor
    <2> QED
        BY <2>1, SerialInit
<1>2. Inv /\ [OrdersNext]_vars => Inv'
    BY SerialStep, ConsumedStep
<1>3. Inv => ConsumedByDispatch
    BY DEF ConsumedLeft, ConsumedFor, HasLeft, Left, Shipping, ConsumedByDispatch
<1> QED
    BY <1>1, <1>2, <1>3, PTL DEF OrdersSpec

-----------------------------------------------------------------------------
(* What orders have reserved covers what they ask for.                      *)

Taken == {"active", "consumed"}

Promised == {"reserved", "picking", "packed", "ready_for_dispatch"}

Releasing(o) ==
  \E w \in Worker : /\ request[w] # NoRow
                    /\ request[w].order = o
                    /\ request[w].target = "cancelled"

\* Through all of its requests but a cancellation, an order keeps what covers
\* it: held or taken while it is prepared, taken when it has been dispatched.
Covered(o) ==
  orders[o] # NoRow =>
    /\ orders[o].status \in Promised => Releasing(o) \/ Covers(o, Taken)
    /\ orders[o].status \in {"dispatched", "delivered"} => Covers(o, {"consumed"})

\* A reserving request has reserved for the items that are off its list.
Gathered(w) ==
  \A o \in Order, warehouse \in Warehouse, done \in SUBSET ItemRow :
    /\ request[w] # NoRow
    /\ request[w].order = o
    /\ request[w].target = "reserved"
    /\ request[w].warehouse = warehouse
    /\ request[w].todo # NoRow
    /\ done = orders[o].items \ request[w].todo
    => /\ request[w].todo \subseteq orders[o].items
       /\ \A p \in Product : IsFiniteSet(AskedUnits(done, p))
       /\ Suffices(o, warehouse, Taken, done)

CoveredInv ==
  /\ Serial
  /\ ConsumedLeft
  /\ \A o \in Order : Covered(o)
  /\ \A w \in Worker : Gathered(w)

\* Reservations are finitely many, and so are their units.
LEMMA UnitsAreFinite ==
  ASSUME TypeOK, NEW o, NEW place, NEW statuses
  PROVE  IsFiniteSet(UnitsFor(o, place, statuses))
<1> DEFINE chosen == {s \in ReservationId : /\ reservations[s] # NoRow
                                            /\ reservations[s].ref = o
                                            /\ reservations[s].place = place
                                            /\ reservations[s].status \in statuses}
           each == {UnitsOf(r) : r \in chosen}
           units == [r \in chosen |-> UnitsOf(r)]
<1>1. IsFiniteSet(chosen)
    BY InventoryAssumption, FS_Subset
<1>2. \A r \in chosen : IsFiniteSet(UnitsOf(r))
    <2>1. \A r \in chosen : reservations[r].quantity \in Quantity
        BY DEF TypeOK, ReservationRow
    <2> QED
        BY <2>1, UnitsCounted DEF UnitsOf
<1>3. units \in Surjection(chosen, each)
    BY DEF Surjection
<1> HIDE DEF chosen, units
<1>4. IsFiniteSet(each)
    BY <1>1, <1>3, FS_Surjection
<1>5. IsFiniteSet(UNION each)
    BY <1>2, <1>4, FS_UNION
<1> QED
    BY <1>5 DEF UnitsFor, chosen

\* A reservation adds its units to what its order has at the place, and
\* nothing elsewhere.
LEMMA ReserveUnits ==
  ASSUME TypeOK, NEW r \in ReservationId, NEW place \in Place, NEW q \in Quantity,
         NEW ref \in Ref, ReserveStock(r, place, q, ref)
  PROVE  /\ Cardinality(UnitsFor(ref, place, Taken)') = Cardinality(UnitsFor(ref, place, Taken)) + q
         /\ \A o, other, statuses : o # ref \/ other # place =>
              UnitsFor(o, other, statuses)' = UnitsFor(o, other, statuses)
<1> DEFINE row == [place |-> place, quantity |-> q, ref |-> ref, status |-> "active"]
           units == {r} \X (1..q)
<1>1. reservations[r] = NoRow /\ reservations' = [reservations EXCEPT ![r] = row]
    BY DEF ReserveStock
<1>2. row # NoRow /\ row.ref = ref /\ row.place = place /\ row.quantity = q /\ row.status = "active"
    BY RowIsNotNoRow DEF ReservationRow
<1> HIDE DEF row
<1>3. reservations'[r] = row /\ \A s \in ReservationId \ {r} : reservations'[s] = reservations[s]
    BY <1>1 DEF TypeOK
<1>4. UnitsOf(r)' = units /\ \A s \in ReservationId \ {r} : UnitsOf(s)' = UnitsOf(s)
    BY <1>2, <1>3 DEF UnitsOf
<1>5. /\ UnitsFor(ref, place, Taken)' = UnitsFor(ref, place, Taken) \cup units
      /\ UnitsFor(ref, place, Taken) \cap units = {}
    <2> DEFINE Chosen == {s \in ReservationId : /\ reservations[s] # NoRow
                                                /\ reservations[s].ref = ref
                                                /\ reservations[s].place = place
                                                /\ reservations[s].status \in Taken}
    <2>1. Chosen' = Chosen \cup {r} /\ r \notin Chosen
        BY <1>1, <1>2, <1>3 DEF Taken
    <2>2. /\ UnitsFor(ref, place, Taken) = UNION {UnitsOf(s) : s \in Chosen}
          /\ UnitsFor(ref, place, Taken)' = UNION {UnitsOf(s)' : s \in Chosen'}
        BY DEF UnitsFor
    <2>3. Chosen \subseteq ReservationId
        OBVIOUS
    <2>4. \A s \in Chosen : UnitsOf(s)' = UnitsOf(s)
        BY <1>4, <2>1
    <2> HIDE DEF Chosen
    <2>5. \A s \in Chosen : UnitsOf(s) \cap units = {}
        BY <2>1 DEF UnitsOf
    <2> QED
        BY <1>4, <2>1, <2>2, <2>4, <2>5
<1>6. ASSUME NEW o, NEW other, NEW statuses, o # ref \/ other # place
      PROVE  UnitsFor(o, other, statuses)' = UnitsFor(o, other, statuses)
    BY <1>1, <1>2, <1>3, <1>4, <1>6 DEF UnitsFor
<1>7. IsFiniteSet(units) /\ Cardinality(units) = q /\ IsFiniteSet(UnitsFor(ref, place, Taken))
    BY UnitsCounted, UnitsAreFinite
<1> HIDE DEF units
<1> QED
    BY <1>5, <1>6, <1>7, DisjointUnion

\* Settling a reservation leaves other orders what they have, and consuming an
\* active one moves its units from what is held to what is taken.
LEMMA SettleUnits ==
  ASSUME TypeOK, NEW r \in ReservationId, NEW consume \in BOOLEAN, SettleReservation(r, consume)
  PROVE  /\ \A o, place, statuses : o # reservations[r].ref =>
              UnitsFor(o, place, statuses)' = UnitsFor(o, place, statuses)
         /\ IsActive(r) /\ consume =>
              \A o, place : UnitsFor(o, place, Taken)' = UnitsFor(o, place, Taken)
<1> DEFINE row == [reservations[r] EXCEPT !.status = IF consume THEN "consumed" ELSE "released"]
<1>1. reservations' = [reservations EXCEPT ![r] = row] /\ reservations[r] # NoRow
    BY DEF SettleReservation
<1>2. reservations[r] \in ReservationRow
    BY <1>1 DEF TypeOK
<1>3. /\ row.ref = reservations[r].ref /\ row.place = reservations[r].place
      /\ row.quantity = reservations[r].quantity
      /\ consume => row.status = "consumed"
      /\ row \in ReservationRow
    BY <1>2 DEF ReservationRow
<1>4. row # NoRow
    BY <1>3, RowIsNotNoRow
<1> HIDE DEF row
<1>5. reservations'[r] = row /\ \A s \in ReservationId \ {r} : reservations'[s] = reservations[s]
    BY <1>1 DEF TypeOK
<1>6. \A s \in ReservationId : UnitsOf(s)' = UnitsOf(s)
    BY <1>3, <1>5 DEF UnitsOf
<1>7. ASSUME NEW o, NEW place, NEW statuses, o # reservations[r].ref
      PROVE  UnitsFor(o, place, statuses)' = UnitsFor(o, place, statuses)
    BY <1>3, <1>5, <1>6, <1>7 DEF UnitsFor
<1>8. ASSUME IsActive(r), consume, NEW o, NEW place
      PROVE  UnitsFor(o, place, Taken)' = UnitsFor(o, place, Taken)
    BY <1>1, <1>3, <1>4, <1>5, <1>6, <1>8 DEF UnitsFor, Taken, IsActive
<1> QED
    BY <1>7, <1>8

\* What an order has does not change with anything but its reservations.
LEMMA UnitsStay ==
  ASSUME UNCHANGED reservations
  PROVE  \A o, place, statuses : UnitsFor(o, place, statuses)' = UnitsFor(o, place, statuses)
BY DEF UnitsFor, UnitsOf

\* One more item asks for its quantity of its product.
LEMMA OneMoreItem ==
  ASSUME NEW items, NEW item \in ItemRow, item \notin items, NEW p \in Product,
         IsFiniteSet(AskedUnits(items, p))
  PROVE  /\ IsFiniteSet(AskedUnits(items \cup {item}, p))
         /\ Cardinality(AskedUnits(items \cup {item}, p)) =
              IF item.product = p THEN Cardinality(AskedUnits(items, p)) + item.quantity
                                  ELSE Cardinality(AskedUnits(items, p))
<1> DEFINE units == {item} \X (1..item.quantity)
<1>1. CASE item.product = p
    <2>1. /\ AskedUnits(items \cup {item}, p) = AskedUnits(items, p) \cup units
          /\ AskedUnits(items, p) \cap units = {}
        BY <1>1 DEF AskedUnits
    <2>2. IsFiniteSet(units) /\ Cardinality(units) = item.quantity
        BY OrdersAssumption, UnitsCounted
    <2> HIDE DEF units
    <2> QED
        BY <1>1, <2>1, <2>2, DisjointUnion
<1>2. CASE item.product # p
    <2>1. AskedUnits(items \cup {item}, p) = AskedUnits(items, p)
        BY <1>2 DEF AskedUnits
    <2> QED
        BY <1>2, <2>1
<1> QED
    BY <1>1, <1>2

LEMMA NothingAsked ==
  ASSUME NEW p
  PROVE  IsFiniteSet(AskedUnits({}, p)) /\ Cardinality(AskedUnits({}, p)) = 0
<1>1. AskedUnits({}, p) = {}
    BY DEF AskedUnits
<1> QED
    BY <1>1, FS_EmptySet

\* An order whose row and units stay, and whose cancellation goes on.
LEMMA CoveredBeside ==
  ASSUME NEW o \in Order, Covered(o), orders'[o] = orders[o],
         \A place, statuses : UnitsFor(o, place, statuses)' = UnitsFor(o, place, statuses),
         Releasing(o) => Releasing(o)'
  PROVE  Covered(o)'
<1>1. \A statuses : Covers(o, statuses) => Covers(o, statuses)'
    BY DEF Covers, Suffices
<1> QED
    BY <1>1 DEF Covered

\* A request that goes on, while the row and the units of its order stay.
LEMMA GatheredBeside ==
  ASSUME OrdersTyped, NEW w \in Worker, Gathered(w), request'[w] = request[w],
         \A o \in Order : request[w] # NoRow /\ request[w].order = o /\ request[w].target = "reserved" =>
            /\ orders'[o] = orders[o]
            /\ \A place : UnitsFor(o, place, Taken)' = UnitsFor(o, place, Taken)
  PROVE  Gathered(w)'
BY DEF Gathered, Suffices

LEMMA ReleasingGoesOn ==
  ASSUME NEW w \in Worker, NEW o,
         \A v \in Worker \ {w} : request'[v] = request[v],
         request[w] # NoRow /\ request[w].order = o /\ request[w].target = "cancelled"
           => /\ request'[w] # NoRow
              /\ request'[w].order = o
              /\ request'[w].target = "cancelled"
  PROVE  Releasing(o) => Releasing(o)'
BY DEF Releasing


LEMMA CoveredStock ==
  ASSUME CoveredInv, StockRequest, NEW o \in Order
  PROVE  \A place, statuses : UnitsFor(o, place, statuses)' = UnitsFor(o, place, statuses)
<1>1. TypeOK
    BY DEF CoveredInv, Serial, OrdersTyped
<1>2. CASE StockStep
    <2>1. UNCHANGED reservations
        BY <1>2, StockKeepsReservations
    <2> QED
        BY <2>1, UnitsStay
<1>3. CASE \E r \in ReservationId, place \in Place, q \in Quantity, ref \in Direct :
             ReserveStock(r, place, q, ref)
    BY <1>1, <1>3, OrdersAssumption, ReserveUnits
<1>4. CASE \E r \in ReservationId, consume \in BOOLEAN :
             reservations[r].ref \in Direct /\ SettleReservation(r, consume)
    <2>1. PICK r \in ReservationId, consume \in BOOLEAN :
            reservations[r].ref \in Direct /\ SettleReservation(r, consume)
        BY <1>4
    <2> QED
        BY <1>1, <2>1, OrdersAssumption, SettleUnits
<1> QED
    BY <1>2, <1>3, <1>4 DEF StockRequest, DirectReservation, ReleaseReservation

\* A request that reserves is about an order that is confirmed, and one that
\* dispatches about one that is ready.
LEMMA TargetComesFrom ==
  ASSUME Serial, NEW w \in Worker, request[w] # NoRow
  PROVE  LET status == orders[request[w].order].status
         IN  /\ request[w].target = "reserved" => status = "confirmed"
             /\ request[w].target = "picking" => status = "reserved"
             /\ request[w].target = "packed" => status = "picking"
             /\ request[w].target = "ready_for_dispatch" => status = "packed"
             /\ request[w].target = "dispatched" => status = "ready_for_dispatch"
             /\ request[w].target = "delivered" => status = "dispatched"
<1>1. UpToDate(w) /\ request[w] \in RequestRow
    BY DEF Serial, OrdersTyped
<1>2. PICK from \in Status : from = request[w].from
    BY <1>1 DEF RequestRow
<1>3. /\ from = orders[request[w].order].status
      /\ request[w].target \in OrderTransitions[from] \cup {"cancelled"}
    BY <1>1, <1>2 DEF UpToDate
<1> QED
    BY <1>3, OrderStatuses DEF OrderTransitions

LEMMA CoveredDraft ==
  ASSUME CoveredInv, DraftStep
  PROVE  /\ \A o \in Order : Covered(o)'
         /\ \A w \in Worker : Gathered(w)'
<1>1. Serial /\ OrdersTyped
    BY DEF CoveredInv, Serial
<1>2. UNCHANGED <<reservations, request>>
    BY DEF DraftStep, CreateOrder, ImportOrders, AddOrderItem, RemoveOrderItem, inventoryVars
<1>3. \A o, place, statuses : UnitsFor(o, place, statuses)' = UnitsFor(o, place, statuses)
    BY <1>2, UnitsStay
<1>4. ASSUME NEW o \in Order PROVE Covered(o)'
    <2>1. CASE orders[o] = NoRow
        BY <1>1, <2>1, DraftsCreated DEF Covered, Promised
    <2>2. CASE orders[o] # NoRow /\ orders'[o] = orders[o]
        <3>1. Releasing(o) => Releasing(o)'
            BY <1>2 DEF Releasing
        <3> QED
            BY <1>3, <2>2, <3>1, CoveredBeside DEF CoveredInv
    <2>3. CASE orders'[o].status \in {"draft", "on_hold"}
        BY <2>3 DEF Covered, Promised
    <2> QED
        BY <1>1, <2>1, <2>2, <2>3, DraftsOnly
<1>5. ASSUME NEW w \in Worker PROVE Gathered(w)'
    <2>1. ASSUME NEW o \in Order, request[w] # NoRow, request[w].order = o, request[w].target = "reserved"
          PROVE  orders'[o] = orders[o]
        <3>1. orders[o] # NoRow /\ orders[o].status = "confirmed"
            BY <1>1, <2>1, TargetComesFrom DEF OrdersTyped, WorkTyped
        <3> QED
            BY <1>1, <3>1, DraftsOnly DEF Editable
    <2>2. request'[w] = request[w]
        BY <1>2
    <2> QED
        BY <1>1, <1>3, <2>1, <2>2, GatheredBeside DEF CoveredInv
<1> QED
    BY <1>4, <1>5

\* A step of a request that leaves the orders alone: those it does not serve
\* keep what they have, and so do those of other requests.
LEMMA CoveredElsewhere ==
  ASSUME CoveredInv, NEW w \in Worker, NEW served \in Order,
         \A v \in Worker \ {w} :
           /\ request'[v] = request[v]
           /\ request[v] # NoRow => request[v].order # served,
         \A o \in Order \ {served} : orders'[o] = orders[o],
         \A o, place, statuses : o # served =>
            UnitsFor(o, place, statuses)' = UnitsFor(o, place, statuses),
         request[w] # NoRow => request[w].order = served
  PROVE  /\ \A o \in Order \ {served} : Covered(o)'
         /\ \A v \in Worker \ {w} : Gathered(v)'
<1>1. ASSUME NEW o \in Order \ {served} PROVE Covered(o)'
    <2>1. Releasing(o) => Releasing(o)'
        BY ReleasingGoesOn
    <2> QED
        BY <2>1, CoveredBeside DEF CoveredInv
<1>2. ASSUME NEW v \in Worker \ {w} PROVE Gathered(v)'
    <2>1. OrdersTyped /\ Gathered(v)
        BY DEF CoveredInv, Serial
    <2>2. \A o \in Order : request[v] # NoRow /\ request[v].order = o /\ request[v].target = "reserved" =>
            /\ orders'[o] = orders[o]
            /\ \A place : UnitsFor(o, place, Taken)' = UnitsFor(o, place, Taken)
        OBVIOUS
    <2> QED
        BY <2>1, <2>2, GatheredBeside
<1> QED
    BY <1>1, <1>2


LEMMA CoveredAccept ==
  ASSUME CoveredInv, Exclusive, NEW w \in Worker, NEW x \in Order, NEW target \in Status,
         NEW warehouse, Accept(w, x, target, warehouse)
  PROVE  /\ \A o \in Order : Covered(o)'
         /\ \A v \in Worker : Gathered(v)'
<1> DEFINE row == [order |-> x, from |-> orders[x].status, target |-> target,
                   warehouse |-> warehouse, todo |-> NoRow]
<1>1. /\ request[w] = NoRow
      /\ request' = [request EXCEPT ![w] = row]
      /\ UNCHANGED <<reservations, orders>>
      /\ \A v \in Worker : request[v] # NoRow => request[v].order # x
      /\ OrdersTyped
    BY DEF Accept, InProgress, inventoryVars, CoveredInv, Serial
<1>2. request'[w].todo = NoRow /\ \A v \in Worker \ {w} : request'[v] = request[v]
    BY <1>1 DEF OrdersTyped
<1>3. \A o, place, statuses : UnitsFor(o, place, statuses)' = UnitsFor(o, place, statuses)
    BY <1>1, UnitsStay
<1>4. /\ \A o \in Order \ {x} : Covered(o)'
      /\ \A v \in Worker \ {w} : Gathered(v)'
    BY <1>1, <1>2, <1>3, CoveredElsewhere
<1>5. Covered(x)'
    <2>1. Releasing(x) => Releasing(x)'
        BY <1>1, <1>2, ReleasingGoesOn
    <2> QED
        BY <1>1, <1>3, <2>1, CoveredBeside DEF CoveredInv
<1>6. Gathered(w)'
    BY <1>2 DEF Gathered
<1> QED
    BY <1>4, <1>5, <1>6

LEMMA CoveredList ==
  ASSUME CoveredInv, NEW w \in Worker, ListWork(w)
  PROVE  /\ \A o \in Order : Covered(o)'
         /\ \A v \in Worker : Gathered(v)'
<1>1. OrdersTyped /\ Serial
    BY DEF CoveredInv, Serial
<1> DEFINE todo == CASE request[w].target = "reserved" -> orders[request[w].order].items
                     [] request[w].target \in {"cancelled", "dispatched"} -> ActiveFor(request[w].order)
                     [] OTHER -> {}
<1>2. /\ request' = [request EXCEPT ![w].todo = todo]
      /\ UNCHANGED <<reservations, orders>>
      /\ request[w] # NoRow /\ request[w] \in RequestRow
    BY <1>1 DEF ListWork, inventoryVars, OrdersTyped
<1>3. PICK x \in Order : x = request[w].order
    BY <1>2 DEF RequestRow
<1>4. orders[x] \in OrderRow
    BY <1>1, <1>2, <1>3 DEF OrdersTyped, WorkTyped
<1>5. todo \in SUBSET (ItemRow \cup ReservationId)
    BY <1>3, <1>4 DEF OrderRow, ActiveFor
<1>6. request[w].target = "reserved" => todo = orders[x].items
    BY <1>3
<1>7. request'[w].todo = todo
    BY <1>1, <1>2 DEF OrdersTyped, RequestRow
<1> HIDE DEF todo
<1>8. /\ request'[w] # NoRow
      /\ request'[w].order = x
      /\ request'[w].target = request[w].target
      /\ \A v \in Worker \ {w} : request'[v] = request[v]
    BY <1>1, <1>2, <1>3, <1>5, RequestStays
<1>9. \A o, place, statuses : UnitsFor(o, place, statuses)' = UnitsFor(o, place, statuses)
    BY <1>2, UnitsStay
<1>10. \A v \in Worker \ {w} : request[v] # NoRow => request[v].order # x
    BY <1>1, <1>2, <1>3 DEF Serial, OnePerOrder
<1>11. /\ \A o \in Order \ {x} : Covered(o)'
       /\ \A v \in Worker \ {w} : Gathered(v)'
    BY <1>2, <1>3, <1>8, <1>9, <1>10, CoveredElsewhere
<1>12. Covered(x)'
    <2>1. Releasing(x) => Releasing(x)'
        BY <1>3, <1>8, ReleasingGoesOn
    <2> QED
        BY <1>2, <1>9, <2>1, CoveredBeside DEF CoveredInv
<1>13. Gathered(w)'
    <2> SUFFICES ASSUME NEW o \in Order, NEW warehouse \in Warehouse, NEW done \in SUBSET ItemRow,
                        request'[w].order = o, request'[w].target = "reserved",
                        done = orders'[o].items \ request'[w].todo
                 PROVE  /\ request'[w].todo \subseteq orders'[o].items
                        /\ \A p \in Product : IsFiniteSet(AskedUnits(done, p))
                        /\ Suffices(o, warehouse, Taken, done)'
        BY DEF Gathered
    <2>1. o = x /\ request'[w].todo = orders'[o].items /\ done = {}
        BY <1>2, <1>6, <1>7, <1>8
    <2>2. \A p \in Product : /\ IsFiniteSet(AskedUnits(done, p))
                             /\ Cardinality(AskedUnits(done, p)) = 0
        BY <2>1, NothingAsked
    <2>3. ASSUME NEW place
          PROVE  Cardinality(UnitsFor(o, place, Taken)') \in Nat
        BY <1>1, <1>9, UnitsAreFinite, FS_CardinalityType DEF OrdersTyped
    <2> QED
        BY <2>1, <2>2, <2>3 DEF Suffices
<1> QED
    BY <1>11, <1>12, <1>13

LEMMA CoveredReserve ==
  ASSUME CoveredInv, NEW w \in Worker, ReserveItem(w)
  PROVE  /\ \A o \in Order : Covered(o)'
         /\ \A v \in Worker : Gathered(v)'
<1>1. OrdersTyped /\ Serial /\ TypeOK
    BY DEF CoveredInv, Serial, OrdersTyped
<1>2. PICK item \in request[w].todo, r \in ReservationId :
        /\ ReserveStock(r, <<item.product, request[w].warehouse>>, item.quantity, request[w].order)
        /\ request' = [request EXCEPT ![w].todo = @ \ {item}]
    BY DEF ReserveItem
<1>3. /\ request[w] \in RequestRow /\ request[w] # NoRow /\ request[w].todo # NoRow
      /\ request[w].target = "reserved"
      /\ UNCHANGED orders
      /\ request[w].todo \subseteq ItemRow
      /\ request[w].warehouse \in Warehouse
    BY <1>1 DEF ReserveItem, Working, OrdersTyped, WorkTyped, WorkOf
<1>4. PICK x \in Order, warehouse \in Warehouse : x = request[w].order /\ warehouse = request[w].warehouse
    BY <1>3 DEF RequestRow
<1>5. PICK todo \in SUBSET ItemRow : todo = request[w].todo
    BY <1>3
<1>6. item \in ItemRow /\ item.product \in Product /\ item.quantity \in Quantity /\ x \in Ref
    BY <1>3, OrdersAssumption
<1>7. PICK place \in Place : place = <<item.product, warehouse>>
    BY <1>6 DEF Place
<1>8. /\ Cardinality(UnitsFor(x, place, Taken)') = Cardinality(UnitsFor(x, place, Taken)) + item.quantity
      /\ \A o, other, statuses : o # x \/ other # place =>
           UnitsFor(o, other, statuses)' = UnitsFor(o, other, statuses)
    BY <1>1, <1>2, <1>4, <1>6, <1>7, ReserveUnits
<1>9. /\ request'[w] # NoRow
      /\ request'[w].order = x
      /\ request'[w].target = "reserved"
      /\ request'[w].todo = todo \ {item}
      /\ request'[w].warehouse = warehouse
      /\ \A v \in Worker \ {w} : request'[v] = request[v]
    <2>1. todo \ {item} \in SUBSET (ItemRow \cup ReservationId)
        OBVIOUS
    <2>2. request' = [request EXCEPT ![w].todo = todo \ {item}]
        BY <1>2, <1>5
    <2>3. request'[w].todo = todo \ {item} /\ request'[w].warehouse = warehouse
        BY <1>1, <1>3, <1>4, <2>2 DEF OrdersTyped, RequestRow
    <2> QED
        BY <1>1, <1>3, <1>4, <2>1, <2>2, <2>3, RequestStays
<1>10. \A v \in Worker \ {w} : request[v] # NoRow => request[v].order # x
    BY <1>1, <1>3, <1>4 DEF Serial, OnePerOrder
<1>11. /\ \A o \in Order \ {x} : Covered(o)'
       /\ \A v \in Worker \ {w} : Gathered(v)'
    BY <1>3, <1>4, <1>8, <1>9, <1>10, CoveredElsewhere
<1>12. orders[x].status = "confirmed"
    BY <1>1, <1>3, <1>4, TargetComesFrom
<1>13. Covered(x)'
    BY <1>3, <1>12 DEF Covered, Promised
<1>14. Gathered(w)'
    <2> SUFFICES ASSUME NEW done \in SUBSET ItemRow, done = orders[x].items \ (todo \ {item})
                 PROVE  /\ todo \ {item} \subseteq orders[x].items
                        /\ \A p \in Product : IsFiniteSet(AskedUnits(done, p))
                        /\ Suffices(x, warehouse, Taken, done)'
        BY <1>3, <1>9 DEF Gathered
    <2> DEFINE before == orders[x].items \ todo
    <2>1. orders[x] \in OrderRow
        BY <1>1, <1>3, <1>4 DEF OrdersTyped, WorkTyped
    <2>2. before \in SUBSET ItemRow
        BY <2>1 DEF OrderRow
    <2>3. /\ todo \subseteq orders[x].items
          /\ \A p \in Product : IsFiniteSet(AskedUnits(before, p))
          /\ Suffices(x, warehouse, Taken, before)
        BY <1>3, <1>4, <1>5, <2>2 DEF CoveredInv, Gathered
    <2>4. done = before \cup {item} /\ item \notin before
        BY <1>5, <2>3
    <2> HIDE DEF before
    <2>5. ASSUME NEW p \in Product
          PROVE  /\ IsFiniteSet(AskedUnits(done, p))
                 /\ Cardinality(UnitsFor(x, <<p, warehouse>>, Taken)') >= Cardinality(AskedUnits(done, p))
        <3>1. /\ IsFiniteSet(AskedUnits(done, p))
              /\ Cardinality(AskedUnits(done, p)) =
                   IF item.product = p THEN Cardinality(AskedUnits(before, p)) + item.quantity
                                       ELSE Cardinality(AskedUnits(before, p))
            <4>1. IsFiniteSet(AskedUnits(before, p)) /\ item \in ItemRow /\ item \notin before
                BY <1>6, <2>3, <2>4
            <4>2. /\ IsFiniteSet(AskedUnits(before \cup {item}, p))
                  /\ Cardinality(AskedUnits(before \cup {item}, p)) =
                       IF item.product = p THEN Cardinality(AskedUnits(before, p)) + item.quantity
                                           ELSE Cardinality(AskedUnits(before, p))
                BY <4>1, OneMoreItem
            <4> QED
                BY <2>4, <4>2
        <3>2. Cardinality(UnitsFor(x, <<p, warehouse>>, Taken)) >= Cardinality(AskedUnits(before, p))
            BY <2>3 DEF Suffices
        <3>3. /\ Cardinality(UnitsFor(x, <<p, warehouse>>, Taken)) \in Nat
              /\ Cardinality(AskedUnits(before, p)) \in Nat
              /\ item.quantity \in Nat
            BY <1>1, <1>6, <2>3, UnitsAreFinite, FS_CardinalityType, QuantityType
        <3>4. CASE item.product = p
            BY <1>7, <1>8, <3>1, <3>2, <3>3, <3>4
        <3>5. CASE item.product # p
            BY <1>7, <1>8, <3>1, <3>2, <3>3, <3>5
        <3> QED
            BY <3>4, <3>5
    <2> QED
        BY <2>3, <2>5 DEF Suffices
<1> QED
    BY <1>11, <1>13, <1>14

LEMMA CoveredSettle ==
  ASSUME CoveredInv, NEW w \in Worker, SettleListed(w)
  PROVE  /\ \A o \in Order : Covered(o)'
         /\ \A v \in Worker : Gathered(v)'
<1>1. OrdersTyped /\ Serial /\ TypeOK /\ UpToDate(w)
    BY DEF CoveredInv, Serial, OrdersTyped
<1>2. PICK r \in request[w].todo :
        /\ SettleReservation(r, request[w].target = "dispatched")
        /\ request' = [request EXCEPT ![w].todo = @ \ {r}]
    BY DEF SettleListed
<1>3. /\ request[w] \in RequestRow /\ request[w] # NoRow /\ request[w].todo # NoRow
      /\ request[w].target \in {"cancelled", "dispatched"}
      /\ r \in ReservationId
      /\ UNCHANGED orders
    BY <1>1, <1>2 DEF SettleListed, Working, OrdersTyped, WorkTyped, WorkOf
<1>4. PICK x \in Order : x = request[w].order
    BY <1>3 DEF RequestRow
<1>5. r \in ActiveFor(x) /\ reservations[r].ref = x /\ IsActive(r)
    BY <1>1, <1>2, <1>3, <1>4 DEF UpToDate, ActiveFor
<1>6. PICK consume \in BOOLEAN : consume = (request[w].target = "dispatched")
    OBVIOUS
<1>7. /\ \A o, place, statuses : o # x => UnitsFor(o, place, statuses)' = UnitsFor(o, place, statuses)
      /\ consume => \A o, place : UnitsFor(o, place, Taken)' = UnitsFor(o, place, Taken)
    <2>1. SettleReservation(r, consume)
        BY <1>2, <1>6
    <2>2. /\ \A o, place, statuses : o # reservations[r].ref =>
               UnitsFor(o, place, statuses)' = UnitsFor(o, place, statuses)
          /\ IsActive(r) /\ consume =>
               \A o, place : UnitsFor(o, place, Taken)' = UnitsFor(o, place, Taken)
        BY <1>1, <1>3, <2>1, SettleUnits
    <2> QED
        BY <1>5, <2>2
<1>8. /\ request'[w] # NoRow
      /\ request'[w].order = x
      /\ request'[w].target = request[w].target
      /\ \A v \in Worker \ {w} : request'[v] = request[v]
    <2>1. request[w].todo \ {r} \in SUBSET (ItemRow \cup ReservationId)
        BY <1>3 DEF RequestRow
    <2> QED
        BY <1>1, <1>2, <1>3, <1>4, <2>1, RequestStays
<1>9. \A v \in Worker \ {w} : request[v] # NoRow => request[v].order # x
    BY <1>1, <1>3, <1>4 DEF Serial, OnePerOrder
<1>10. /\ \A o \in Order \ {x} : Covered(o)'
       /\ \A v \in Worker \ {w} : Gathered(v)'
    BY <1>3, <1>4, <1>7, <1>8, <1>9, CoveredElsewhere
<1>11. orders[x] # NoRow /\ orders[x].status \notin {"dispatched", "delivered"}
    BY <1>1, <1>3, <1>4, <1>5 DEF OrdersTyped, WorkTyped, Serial, ClosedHoldsNothing
<1>12. Covered(x)'
    <2>1. CASE request[w].target = "cancelled"
        <3>1. Releasing(x)'
            BY <1>8, <2>1 DEF Releasing
        <3> QED
            BY <1>3, <1>11, <3>1 DEF Covered
    <2>2. CASE request[w].target = "dispatched"
        <3>1. ~Releasing(x)
            BY <1>3, <1>4, <1>9, <2>2 DEF Releasing
        <3>2. Covers(x, Taken) => Covers(x, Taken)'
            BY <1>3, <1>6, <1>7, <2>2 DEF Covers, Suffices
        <3> QED
            BY <1>3, <1>11, <3>1, <3>2 DEF Covered, CoveredInv
    <2> QED
        BY <1>3, <2>1, <2>2
<1>13. Gathered(w)'
    BY <1>3, <1>8 DEF Gathered
<1> QED
    BY <1>10, <1>12, <1>13

LEMMA CoveredRefuse ==
  ASSUME CoveredInv, NEW w \in Worker, RefuseItem(w)
  PROVE  /\ \A o \in Order : Covered(o)'
         /\ \A v \in Worker : Gathered(v)'
<1>1. OrdersTyped /\ Serial
    BY DEF CoveredInv, Serial
<1>2. /\ request[w] \in RequestRow /\ request[w] # NoRow
      /\ request[w].target = "reserved"
      /\ UNCHANGED <<reservations, orders>>
      /\ request'[w] = NoRow
      /\ \A v \in Worker \ {w} : request'[v] = request[v]
    BY <1>1 DEF RefuseItem, Working, OrdersTyped, inventoryVars
<1>3. PICK x \in Order : x = request[w].order
    BY <1>2 DEF RequestRow
<1>4. \A v \in Worker \ {w} : request[v] # NoRow => request[v].order # x
    BY <1>1, <1>2, <1>3 DEF Serial, OnePerOrder
<1>5. \A o, place, statuses : UnitsFor(o, place, statuses)' = UnitsFor(o, place, statuses)
    BY <1>2, UnitsStay
<1>6. /\ \A o \in Order \ {x} : Covered(o)'
      /\ \A v \in Worker \ {w} : Gathered(v)'
    BY <1>2, <1>3, <1>4, <1>5, CoveredElsewhere
<1>7. orders[x].status = "confirmed"
    BY <1>1, <1>2, <1>3, TargetComesFrom
<1>8. Covered(x)' /\ Gathered(w)'
    BY <1>2, <1>7 DEF Covered, Promised, Gathered
<1> QED
    BY <1>6, <1>8

\* When an order holds nothing any more, what it has has been taken.
LEMMA AllTaken ==
  ASSUME NEW o, ActiveFor(o) = {}
  PROVE  \A place : UnitsFor(o, place, Taken) = UnitsFor(o, place, {"consumed"})
BY DEF UnitsFor, Taken, ActiveFor, IsActive

LEMMA CoveredFinish ==
  ASSUME CoveredInv, NEW w \in Worker, Finish(w)
  PROVE  /\ \A o \in Order : Covered(o)'
         /\ \A v \in Worker : Gathered(v)'
<1>1. OrdersTyped /\ Serial /\ UpToDate(w)
    BY DEF CoveredInv, Serial
<1>2. /\ request[w] \in RequestRow /\ request[w] # NoRow /\ request[w].todo # NoRow
      /\ request[w].todo = {}
      /\ UNCHANGED reservations
      /\ request'[w] = NoRow
      /\ \A v \in Worker \ {w} : request'[v] = request[v]
    BY <1>1 DEF Finish, Working, OrdersTyped, inventoryVars
<1>3. PICK x \in Order : x = request[w].order
    BY <1>2 DEF RequestRow
<1>4. PICK target \in Status : target = request[w].target
    BY <1>2 DEF RequestRow
<1>5. orders[x] # NoRow /\ orders[x] \in OrderRow
    BY <1>1, <1>2, <1>3 DEF OrdersTyped, WorkTyped
<1>6. /\ orders' = [orders EXCEPT ![x] = [orders[x] EXCEPT !.status = target]]
    BY <1>3, <1>4 DEF Finish
<1>7. /\ orders'[x].status = target /\ orders'[x].items = orders[x].items
      /\ \A o \in Order \ {x} : orders'[o] = orders[o]
    BY <1>1, <1>5, <1>6 DEF OrdersTyped, OrderRow
<1>8. \A v \in Worker \ {w} : request[v] # NoRow => request[v].order # x
    BY <1>1, <1>2, <1>3 DEF Serial, OnePerOrder
<1>9. \A o, place, statuses : UnitsFor(o, place, statuses)' = UnitsFor(o, place, statuses)
    BY <1>2, UnitsStay
<1>10. /\ \A o \in Order \ {x} : Covered(o)'
       /\ \A v \in Worker \ {w} : Gathered(v)'
    BY <1>2, <1>3, <1>7, <1>8, <1>9, CoveredElsewhere
<1>11. Gathered(w)'
    BY <1>2 DEF Gathered
<1>12. \A statuses : Covers(x, statuses) => Covers(x, statuses)'
    BY <1>7, <1>9 DEF Covers, Suffices
<1>13. target # "cancelled" => ~Releasing(x)
    BY <1>2, <1>4, <1>8 DEF Releasing
<1>14. Covered(x) /\ Gathered(w)
    BY DEF CoveredInv
<1>15. Covered(x)'
    <2>1. CASE target = "reserved"
        <3>1. PICK warehouse \in Warehouse : warehouse = request[w].warehouse
            BY <1>1, <1>2, <1>4, <2>1 DEF OrdersTyped, WorkTyped
        <3>2. PICK items \in SUBSET ItemRow : items = orders[x].items
            BY <1>5 DEF OrderRow
        <3>3. items = orders[x].items \ request[w].todo
            BY <1>2, <3>2
        <3>4. Suffices(x, warehouse, Taken, items)
            BY <1>2, <1>3, <1>4, <1>14, <2>1, <3>1, <3>3 DEF Gathered
        <3>5. Covers(x, Taken)
            BY <3>2, <3>4 DEF Covers
        <3> QED
            BY <1>7, <1>12, <2>1, <3>5 DEF Covered
    <2>2. CASE target \in {"picking", "packed", "ready_for_dispatch"}
        <3>1. orders[x].status \in Promised
            BY <1>1, <1>2, <1>3, <1>4, <2>2, TargetComesFrom DEF Promised
        <3>2. Covers(x, Taken)
            BY <1>5, <1>13, <1>14, <2>2, <3>1 DEF Covered
        <3> QED
            BY <1>7, <1>12, <2>2, <3>2 DEF Covered
    <2>3. CASE target = "dispatched"
        <3>1. orders[x].status \in Promised
            BY <1>1, <1>2, <1>3, <1>4, <2>3, TargetComesFrom DEF Promised
        <3>2. Covers(x, Taken)
            BY <1>5, <1>13, <1>14, <2>3, <3>1 DEF Covered
        <3>3. ActiveFor(x) = {}
            BY <1>1, <1>2, <1>3, <1>4, <2>3 DEF UpToDate
        <3>4. Covers(x, {"consumed"})
            BY <3>2, <3>3, AllTaken DEF Covers, Suffices
        <3> QED
            BY <1>7, <1>12, <2>3, <3>4 DEF Covered, Promised
    <2>4. CASE target = "delivered"
        <3>1. orders[x].status = "dispatched"
            BY <1>1, <1>2, <1>3, <1>4, <2>4, TargetComesFrom
        <3>2. Covers(x, {"consumed"})
            BY <1>5, <1>14, <3>1 DEF Covered
        <3> QED
            BY <1>7, <1>12, <2>4, <3>2 DEF Covered, Promised
    <2>5. CASE target \in {"draft", "confirmed", "cancelled", "on_hold"}
        BY <1>7, <2>5 DEF Covered, Promised
    <2> QED
        BY <2>1, <2>2, <2>3, <2>4, <2>5, OrderStatuses
<1> QED
    BY <1>10, <1>11, <1>15

LEMMA CoveredRequest ==
  ASSUME CoveredInv, Exclusive, ~Crashes, NEW w \in Worker, RequestStep(w)
  PROVE  /\ \A o \in Order : Covered(o)'
         /\ \A v \in Worker : Gathered(v)'
<1>1. CASE \E x \in Order, target \in Status, warehouse \in Warehouse \cup {NoRow} :
              StartTransition(w, x, target, warehouse)
    BY <1>1, CoveredAccept DEF StartTransition
<1>2. CASE \E x \in Order : StartCancel(w, x)
    BY <1>2, OrderStatuses, CoveredAccept DEF StartCancel
<1>3. ~Crash(w)
    BY DEF Crash
<1> QED
    BY <1>1, <1>2, <1>3, CoveredList, CoveredReserve, CoveredRefuse, CoveredSettle, CoveredFinish
    DEF RequestStep, WorkStep

LEMMA CoveredInit == OrdersInit => CoveredInv
<1> SUFFICES ASSUME OrdersInit PROVE CoveredInv
    OBVIOUS
<1>1. ConsumedLeft
    BY DEF OrdersInit, Init, ConsumedLeft, ConsumedFor
<1>2. (\A o \in Order : Covered(o)) /\ (\A w \in Worker : Gathered(w))
    BY DEF OrdersInit, Covered, Gathered
<1> QED
    BY <1>1, <1>2, SerialInit DEF CoveredInv

LEMMA CoveredStep ==
  ASSUME Exclusive, ~Crashes
  PROVE  CoveredInv /\ [OrdersNext]_vars => CoveredInv'
<1> SUFFICES ASSUME CoveredInv, [OrdersNext]_vars PROVE CoveredInv'
    OBVIOUS
<1>1. Serial /\ OrdersTyped /\ ConsumedLeft
    BY DEF CoveredInv, Serial
<1>2. Serial'
    BY <1>1, SerialStep
<1>3. ConsumedLeft'
    BY <1>1, ConsumedStep
<1>4. ASSUME UNCHANGED <<orders, request>>,
             \A o \in Order : \A place, statuses :
               UnitsFor(o, place, statuses)' = UnitsFor(o, place, statuses)
      PROVE  /\ \A o \in Order : Covered(o)'
             /\ \A v \in Worker : Gathered(v)'
    <2>1. ASSUME NEW o \in Order PROVE Covered(o)'
        <3>1. Releasing(o) => Releasing(o)'
            BY <1>4 DEF Releasing
        <3> QED
            BY <1>4, <3>1, CoveredBeside DEF CoveredInv
    <2>2. ASSUME NEW w \in Worker PROVE Gathered(w)'
        BY <1>1, <1>4, GatheredBeside DEF CoveredInv
    <2> QED
        BY <2>1, <2>2
<1>5. CASE UNCHANGED vars
    <2>1. UNCHANGED <<orders, request, reservations>>
        BY <1>5 DEF vars, inventoryVars
    <2> QED
        BY <1>2, <1>3, <1>4, <2>1, UnitsStay DEF CoveredInv
<1>6. CASE StockRequest
    <2>1. UNCHANGED <<orders, request>>
        BY <1>6 DEF StockRequest
    <2> QED
        BY <1>2, <1>3, <1>4, <1>6, <2>1, CoveredStock DEF CoveredInv
<1> QED
    BY <1>2, <1>3, <1>5, <1>6, CoveredDraft, CoveredRequest DEF OrdersNext, CoveredInv

\* With one request per order at a time, and none that dies on the way, an order
\* from reserved to ready_for_dispatch holds, in one warehouse, as much as its
\* items ask for, and a dispatched or delivered one has taken as much: whatever
\* was refused and tried again, and whatever other orders and staff reserve.
THEOREM PromisesAreCovered ==
  ASSUME Exclusive, ~Crashes
  PROVE  OrdersSpec => []ReservedIsCovered
<1>1. OrdersInit => CoveredInv
    BY CoveredInit
<1>2. CoveredInv /\ [OrdersNext]_vars => CoveredInv'
    BY CoveredStep
<1>3. CoveredInv => ReservedIsCovered
    <2> SUFFICES ASSUME CoveredInv, NEW o \in Order, Quiet(o)
                 PROVE  /\ orders[o].status \in Promised => Covers(o, {"active"})
                        /\ orders[o].status \in {"dispatched", "delivered"} => Covers(o, {"consumed"})
        BY DEF ReservedIsCovered, Promised
    <2>1. orders[o] # NoRow /\ ~Releasing(o) /\ ~Shipping(o) /\ Covered(o)
        BY DEF Quiet, InProgress, Releasing, Shipping, CoveredInv
    <2>2. ASSUME orders[o].status \in Promised PROVE Covers(o, {"active"})
        <3>1. ~ConsumedFor(o)
            BY <2>1, <2>2 DEF CoveredInv, ConsumedLeft, HasLeft, Left, Promised
        <3>2. \A place : UnitsFor(o, place, Taken) = UnitsFor(o, place, {"active"})
            BY <3>1 DEF ConsumedFor, UnitsFor, Taken
        <3>3. Covers(o, Taken)
            BY <2>1, <2>2 DEF Covered
        <3> QED
            BY <3>2, <3>3 DEF Covers, Suffices
    <2> QED
        BY <2>1, <2>2 DEF Covered
<1> QED
    BY <1>1, <1>2, <1>3, PTL DEF OrdersSpec

-----------------------------------------------------------------------------
(* Orders as a client of the stock tables.                                  *)

\* A step of a request is a call of the stock API, or leaves the stock alone.
\* Settling a listed reservation skips the check of its status, so this takes
\* that the listed reservations still are active.
LEMMA RequestUsesStock ==
  ASSUME Serial, NEW w \in Worker, RequestStep(w)
  PROVE  [Next]_inventoryVars
<1>1. OrdersTyped /\ UpToDate(w)
    BY DEF Serial
<1>2. CASE ReserveItem(w)
    <2>1. PICK item \in request[w].todo, r \in ReservationId :
            ReserveStock(r, <<item.product, request[w].warehouse>>, item.quantity, request[w].order)
        BY <1>2 DEF ReserveItem
    <2>2. item \in ItemRow /\ request[w].warehouse \in Warehouse /\ request[w].order \in Ref
        BY <1>1, <1>2, OrdersAssumption
        DEF ReserveItem, Working, OrdersTyped, WorkTyped, WorkOf, RequestRow
    <2>3. <<item.product, request[w].warehouse>> \in Place /\ item.quantity \in Quantity
        BY <2>2, OrdersAssumption DEF Place
    <2> QED
        BY <2>1, <2>2, <2>3 DEF Next, ReservationStep
<1>3. CASE SettleListed(w)
    <2>1. PICK r \in request[w].todo : SettleReservation(r, request[w].target = "dispatched")
        BY <1>3 DEF SettleListed
    <2>2. r \in ActiveFor(request[w].order)
        BY <1>1, <1>3, <2>1 DEF SettleListed, Working, UpToDate
    <2>3. r \in ReservationId /\ IsActive(r)
        BY <2>2 DEF ActiveFor
    <2>4. PICK consume \in BOOLEAN : consume = (request[w].target = "dispatched")
        OBVIOUS
    <2> QED
        BY <2>1, <2>3, <2>4 DEF Next, ReservationStep, ReleaseReservation
<1>4. CASE ~(ReserveItem(w) \/ SettleListed(w))
    BY <1>4 DEF RequestStep, WorkStep, StartTransition, StartCancel, Accept, ListWork, RefuseItem,
                Finish, Crash
<1> QED
    BY <1>2, <1>3, <1>4

LEMMA StepUsesStock ==
  ASSUME Exclusive
  PROVE  Serial /\ [OrdersNext]_vars => [Next]_inventoryVars
<1>1. DraftStep => UNCHANGED inventoryVars
    BY DEF DraftStep, CreateOrder, ImportOrders, AddOrderItem, RemoveOrderItem
<1>2. UNCHANGED vars => UNCHANGED inventoryVars
    BY DEF vars
<1> QED
    BY <1>1, <1>2, RequestUsesStock, StockRequestIsStock DEF OrdersNext

\* Orders use the stock tables only as their API allows: with one request per
\* order at a time, every run of the order module is a run of Inventory, and
\* what Inventory promises holds for the stock that orders share.
THEOREM OrdersUseStock ==
  ASSUME Exclusive
  PROVE  OrdersSpec => Spec
<1>1. OrdersInit => Serial /\ Init
    BY SerialInit DEF OrdersInit
<1>2. Serial /\ [OrdersNext]_vars => Serial'
    BY SerialStep
<1>3. Serial /\ [OrdersNext]_vars => [Next]_inventoryVars
    BY StepUsesStock
<1> QED
    BY <1>1, <1>2, <1>3, PTL DEF OrdersSpec, Spec

\* So the reserved counter equals what active reservations hold, those of
\* orders included.
THEOREM OrdersHoldExactly ==
  ASSUME Exclusive
  PROVE  OrdersSpec => []ReservedIsHeld
BY OrdersUseStock, ReservedIsExact, PTL

\* No retry, refusal or crash of a request settles a reservation twice.
THEOREM OrdersSettleOnce ==
  ASSUME Exclusive
  PROVE  OrdersSpec => SettledOnce
BY OrdersUseStock, SettlesOnce, PTL
=============================================================================
