-------------------------- MODULE MCNotifications --------------------------
(* An instance of Notifications: its notifications are alike, and its locks.  *)
EXTENDS Notifications, TLC

CONSTANTS n1, n2, l1, l2

Symmetry == Permutations({n1, n2}) \cup Permutations({l1, l2})
=============================================================================
