\* Two warehouses, a floor row and a bin in each; two reservations; two alerts
\* that may share a place.
SPECIFICATION Spec
CONSTANTS
  Product = {p1}
  Warehouse = {w1, w2}
  Location = {bin}
  Unlocated = Unlocated
  ReservationId = {r1, r2}
  AlertId = {a1, a2}
  Ref = {o1}
  Quantity = {1, 2}
  Threshold = {0, 1}
  NoRow = NoRow
  MaxMovements = 4
SYMMETRY Interchangeable
INVARIANTS TypeOK  LedgerExplainsStock TriggeredIsLow
 
