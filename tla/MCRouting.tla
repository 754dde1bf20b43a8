----------------------------- MODULE MCRouting -----------------------------
(* Instances of Routing for TLC.                                            *)
EXTENDS Routing, TLC

CONSTANTS north, centre, south

\* Three places on a line, the middle one nearer to the south.
ThreePlaces == north :> 0 @@ centre :> 3 @@ south :> 5

\* Requests carry no order, and the properties name none.
Interchangeable == Permutations(Request)
=============================================================================
