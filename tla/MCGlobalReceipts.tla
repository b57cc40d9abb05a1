-------------------------- MODULE MCGlobalReceipts --------------------------
(* A group of three members and, in the network, one node that is not one. *)
EXTENDS GlobalReceipts, TLC

CONSTANTS n1, n2, n3, n4

Members == {n1, n2, n3}
Network == Members \cup {n4}
AnyFault == {"none", "stale", "loss"}
Symmetry == Permutations(Members)
=============================================================================
