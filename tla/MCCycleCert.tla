---------------------------- MODULE MCCycleCert ----------------------------
(* Small networks for CycleCert: which sets of txs a node may have seen,   *)
(* and how a node scores against each previous marker.                     *)
EXTENDS CycleCert, TLC

CONSTANTS n1, n2, n3, t1, none

TwoNodes == {n1, n2}
ThreeNodes == {n1, n2, n3}
NoNode == {}
OnlyN1 == {n1}
OnlyN2 == {n2}

Txs == {{}, {t1}}

(* Two patterns of scores, chosen by the previous marker: in the first two *)
(* other nodes together beat the best one (6 and 25 % 16 = 9 against 12),  *)
(* in the second n1 alone beats them.  No two sums of scores are equal, as *)
(* with 32-bit scores in practice.                                         *)
Weight == (n1 :> <<6, 21>> @@ n2 :> <<12, 10>> @@ n3 :> <<25, 4>>)
Xor == [n \in Node |-> [e \in (0 .. 1) \X Txs |->
          Weight[n][1 + ((e[1] + Cardinality(e[2])) % 2)]]]

(* The totals that the proofs take to be different are.                    *)
ASSUME WeightsDiffer == NoTies
=============================================================================
