---------------------------- MODULE MCWarehouse ----------------------------
(* Instances of Warehouse for TLC.                                          *)
EXTENDS Warehouse, TLC

CONSTANTS w1, w2, z1, l1, main, annex

\* Two warehouses that may stand side by side, a zone and a location in it.
Codes == w1 :> main @@ w2 :> annex @@ z1 :> main @@ l1 :> main

\* Keys are random and carry no order, and the properties name none.
Interchangeable == Permutations(StockId) \cup Permutations(Request)
=============================================================================
