----------------------------- MODULE MCDrivers -----------------------------
(* Instances of Drivers for TLC.                                            *)
EXTENDS Drivers, TLC

\* Keys are random and carry no order, and the properties name none.
Interchangeable ==
  UNION {Permutations(ids) : ids \in {DriverId, ShiftId, VehicleId, Request}}
=============================================================================
