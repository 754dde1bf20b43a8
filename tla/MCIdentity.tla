---------------------------- MODULE MCIdentity -----------------------------
(* Instances of Identity for TLC.                                           *)
EXTENDS Identity, TLC

\* Keys are random and carry no order, and the properties name none.
Interchangeable ==
  Permutations(SessionId) \cup Permutations(InvitationId) \cup Permutations(Request)
=============================================================================
