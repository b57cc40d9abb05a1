---------------------------- MODULE CycleRecord ----------------------------
(***************************************************************************)
(* Cycle records, their markers, and the chain a node keeps of them.       *)
(***************************************************************************)
EXTENDS Naturals, Sequences

CONSTANT TxChoices   \* the sets of cycle txs a record may be made of

ASSUME TxAssumption == {} \in TxChoices

(* A marker hashes every field of a record, so two records have the same   *)
(* marker exactly when they are equal; an undefined marker is the empty    *)
(* tuple.                                                                  *)
NoMarker == <<>>
Marker(record) == <<record>>

Last(s) == s[Len(s)]

(* makeCycleRecord: the list hashes of a new record are empty.             *)
MakeRecord(prev, txs) ==
  [counter |-> prev.counter + 1, previous |-> Marker(prev), txs |-> txs, lists |-> <<>>]

(* digestCycle first fills in the list hashes from the node's own lists,   *)
(* which the txs of the records digested so far determine, then appends.   *)
Patched(history, record) ==
  [record EXCEPT !.lists = <<UNION {history[i].txs : i \in DOMAIN history}>>]

Digested(history, record) == Append(history, Patched(history, record))

Genesis == [counter |-> 0, previous |-> NoMarker, txs |-> {}, lists |-> <<{}>>]

(* Of two chains one is a prefix of the other.                             *)
SameLedger(one, other) ==
  \A i \in DOMAIN one \cap DOMAIN other : one[i] = other[i]

(* Every record builds on the one before it.                               *)
Linked(history) ==
  \A i \in 1 .. Len(history) - 1 : history[i + 1].previous = Marker(history[i])
=============================================================================
