\* Two warehouses, a zone and a location, a task, two stock rows and two
\* requests that may overlap, moving one unit at a time.
SPECIFICATION Spec
CONSTANTS
  w1 = w1
  w2 = w2
  z1 = z1
  l1 = l1
  main = main
  annex = annex
  WarehouseId = {w1, w2}
  ZoneId = {z1}
  LocationId = {l1}
  TaskId = {t1}
  StockId = {s1, s2}
  CodeOf <- Codes
  Request = {r1, r2}
  Amount = {1}
  MaxQuantity = 1
  Floor = Floor
SYMMETRY Interchangeable
INVARIANTS TypeOK LedgerExplainsPlaces OneRowPerPlace
