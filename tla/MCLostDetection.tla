-------------------------- MODULE MCLostDetection --------------------------
(* Small networks for LostDetection.                                       *)
EXTENDS LostDetection

CONSTANTS n1, n2, n3, n4

NoNode == {}
Three == {n1, n2, n3}
Four == {n1, n2, n3, n4}
OnlyN3 == {n3}
OnlyN2 == {n2}
Order == SelectSeq(<<n1, n2, n3, n4>>, LAMBDA n : n \in Node)
Hashes == [t \in Node |-> [c \in 0 .. 1 |-> c]]
Once == {1}
Twice == {1, 4}
Always == 1 .. MaxCycle
=============================================================================
