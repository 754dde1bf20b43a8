----------------------------- MODULE MCOrders ------------------------------
(* Instances of Orders for TLC.                                             *)
EXTENDS Orders, TLC

CONSTANTS p1, w1

\* Two lines for the same product, which an order may well have.
Line(id) == [id |-> id, product |-> p1, quantity |-> 1]
TwoLines == {{Line(1), Line(2)}}
OneOrTwoLines == {{Line(1)}, {Line(1), Line(2)}}

Symmetric == Permutations(ReservationId) \cup Permutations(Worker)
=============================================================================
