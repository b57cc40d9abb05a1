---------------------------- MODULE CycleLedger ----------------------------
(***************************************************************************)
(* What cycle creation promises the rest of the program: the network makes *)
(* one chain of cycle records, and every node holds a prefix of it.  A     *)
(* record is decided when the first node digests it; the other nodes       *)
(* digest the same one later, some after missing several cycles.           *)
(***************************************************************************)
EXTENDS CycleRecord

CONSTANTS Node, MaxCycles

VARIABLE chain

Init == chain = [n \in Node |-> <<Genesis>>]

(* n is the first to digest the next record.                               *)
Decide(n) ==
  /\ \A p \in Node : Len(chain[p]) <= Len(chain[n])
  /\ Len(chain[n]) <= MaxCycles
  /\ \E txs \in TxChoices :
       chain' = [chain EXCEPT ![n] = Digested(@, MakeRecord(Last(@), txs))]

(* n digests records that another node already has.                        *)
Follow(n, p) ==
  \E k \in Len(chain[n]) + 1 .. Len(chain[p]) :
    chain' = [chain EXCEPT ![n] = SubSeq(chain[p], 1, k)]

Next == \E n \in Node : Decide(n) \/ \E p \in Node : Follow(n, p)

Spec == Init /\ [][Next]_chain
-----------------------------------------------------------------------------
(* No two nodes ever digest different records for the same cycle.          *)
NoFork == \A n, p \in Node : SameLedger(chain[n], chain[p])

(* A chain is hash-linked: `previous` is the marker of the record before.  *)
ChainLinked == \A n \in Node : Linked(chain[n])
=============================================================================
