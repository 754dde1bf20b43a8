\* Two orders competing for the same stock, one request per order at a time.
SPECIFICATION OrdersSpec
CONSTANTS
  p1 = p1
  w1 = w1
  Product = {p1}
  Warehouse = {w1}
  Location = {}
  Unlocated = Unlocated
  ReservationId = {r1, r2}
  AlertId = {}
  Order = {o1, o2}
  Ref = {o1, o2}
  Quantity = {1}
  Threshold = {}
  NoRow = NoRow
  MaxMovements = 5
  Worker = {h1, h2}
  Basket <- OneOrTwoLines
  MaxHistory = 9
  Exclusive = TRUE
  Crashes = FALSE
  Direct = {}
SYMMETRY Symmetric
INVARIANTS OrdersTypeOK ReservedIsCovered  ConsumedByDispatch
\* The bounds on movements and history let the model stop.
CHECK_DEADLOCK FALSE
