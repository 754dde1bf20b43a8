---------------------------- MODULE MCAnalytics ----------------------------
(* Instances of Analytics for TLC.                                          *)
EXTENDS Analytics, TLC

\* Rows have no order, and neither have rebuilds.
Interchangeable == Permutations(Rebuild) \cup Permutations(StockId)
=============================================================================
