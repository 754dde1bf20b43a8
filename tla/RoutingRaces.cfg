\* Two requests at a time; a stop can be added to a route of two, or removed
\* from a route of three and another added.
SPECIFICATION Spec
CONSTANTS
  north = north
  centre = centre
  south = south
  Delivery = {north, centre, south}
  Location <- ThreePlaces
  MaxStops = 3
  Request = {q1, q2}
  MaxRecalculations = 1
SYMMETRY Interchangeable
INVARIANTS TypeOK Packed
 
\* A deleted route, or one that may not be changed, stays as it is.
CHECK_DEADLOCK FALSE
