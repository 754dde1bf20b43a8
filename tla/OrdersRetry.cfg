\* One order through refusals, crashes, restocking and retries, in two
\* warehouses, with staff reserving some of the stock for something else.
SPECIFICATION OrdersSpec
CONSTANTS
  p1 = p1
  w1 = w1
  Product = {p1}
  Warehouse = {w1, w2}
  Location = {}
  Unlocated = Unlocated
  ReservationId = {r1, r2, r3}
  AlertId = {}
  Order = {o1}
  Ref = {o1, other}
  Quantity = {1}
  Threshold = {}
  NoRow = NoRow
  MaxMovements = 7
  Worker = {h1}
  Basket <- OneOrTwoLines
  MaxHistory = 9
  Exclusive = TRUE
  Crashes = TRUE
  Direct = {other}
SYMMETRY Symmetric
INVARIANTS ClosedHoldsNothing
\* The bounds on movements and history let the model stop.
CHECK_DEADLOCK FALSE
