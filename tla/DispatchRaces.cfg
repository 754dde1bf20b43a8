\* One delivery: a dispatcher, the driver and the worker, which may die once.
SPECIFICATION Spec
CONSTANTS
  Delivery = {d1}
  Driver = {v1}
  Request = {dispatcher, courier}
  Staff = {dispatcher}
  MaxAssignments = 2
  MaxCrashes = 1
INVARIANTS TypeOK NothingSkipped OneActiveAssignment
 
