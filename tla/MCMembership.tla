---------------------------- MODULE MCMembership ----------------------------
(* Small networks for Membership.                                          *)
EXTENDS Membership

CONSTANTS v1, v2, v3

Two == {v1, v2}
Three == {v1, v2, v3}
Nobody == {}
First == {1}
Second == {2}
Both == {1, 2}
AtStart == {1}
Early == {1, 2}
Often == {1, 3}
=============================================================================
