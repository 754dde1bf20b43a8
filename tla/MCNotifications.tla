-------------------------- MODULE MCNotifications --------------------------
(* Instances of Notifications for TLC.                                      *)
EXTENDS Notifications, TLC

\* Keys are random and carry no order, and neither do sweeps.
Interchangeable == Permutations(NotificationId) \cup Permutations(Sweep)
=============================================================================
