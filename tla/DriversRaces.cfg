\* A user and a driver without one, two shifts, a plate that may be entered
\* twice, and two requests that may overlap.
SPECIFICATION Spec
CONSTANTS
  User = {u1}
  DriverId = {d1, d2}
  ShiftId = {s1, s2}
  VehicleId = {v1, v2}
  Plate = {plate}
  Request = {r1, r2}
  Nobody = Nobody
SYMMETRY Interchangeable
INVARIANTS TypeOK OneOfEach ShiftsAgree
