---------------------------- MODULE MCInventory ----------------------------
(* Instances of Inventory for TLC.                                          *)
EXTENDS Inventory, TLC

\* Neither warehouses nor ids carry an order: a behaviour with two of them
\* swapped is a behaviour.
Interchangeable ==
  Permutations(Warehouse) \cup Permutations(ReservationId) \cup Permutations(AlertId)
=============================================================================
