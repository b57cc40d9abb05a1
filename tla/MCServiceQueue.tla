--------------------------- MODULE MCServiceQueue ---------------------------
(***************************************************************************)
(* Small instances of ServiceQueue. In one part of the states a node walks *)
(* a queue of three transactions: a and b are in one subqueue, the hash    *)
(* order puts b first and its priority puts it last; c is in no subqueue,  *)
(* and verifiers are slow. In the other two nodes collect one transaction  *)
(* with verifiers that answer at once (Pair).  That they have the same     *)
(* list in the same cycle is ListsAgree.                                   *)
(***************************************************************************)
EXTENDS ServiceQueue

CONSTANTS n1, n2, a, b, c, k, PairCycles

OneNode == {n1}
TwoNodes == {n1, n2}
NoNode == {}
OneTx == {a}
ThreeTxs == {a, b, c}
Ranks == [t \in ThreeTxs |-> CASE t = a -> 2 [] t = b -> 1 [] t = c -> 3]
Priorities == [t \in ThreeTxs |-> IF t = b THEN 0 ELSE 1]
Keys == [t \in ThreeTxs |-> IF t = c THEN NoKey ELSE k]

Pair == INSTANCE ServiceQueue
  WITH Node <- TwoNodes, Tx <- OneTx, SlowApply <- NoNode, MaxCycle <- PairCycles
IsPair == DOMAIN cycle = TwoNodes

MCInit == Init \/ Pair!Init
MCNext ==
  \/ ~IsPair /\ Next
  \/ IsPair /\ Pair!Next
MCSpec == MCInit /\ [][MCNext]_vars
=============================================================================
