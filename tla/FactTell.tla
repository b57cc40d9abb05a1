------------------------------ MODULE FactTell ------------------------------
(***************************************************************************)
(* The fact corresponding tell (fastAggregatedCorrespondingTell and its    *)
(* callers in TransactionQueue): who tells whom what about a transaction.  *)
(* Nobody asks for anything: a node computes from the transaction alone    *)
(* which nodes it has to tell, and the receiver computes whether the       *)
(* sender was one of those who should.                                     *)
(*                                                                         *)
(* The transaction group are the nodes that store one of the accounts,     *)
(* sorted by id; a node is named by its place in it, from 0.               *)
(*                                                                         *)
(* A behaviour is one transaction of two accounts: those that store them   *)
(* tell the data.                                                          *)
(***************************************************************************)
EXTENDS Shards, FiniteSets

CONSTANT Offsets   \* values of correspondingGlobalOffset to consider
ASSUME TellAssumption == Offsets \subseteq Nat

VARIABLES
  tx,        \* the queue entry of a transaction
  informed   \* who has the data of which account
tellVars == <<tx, informed>>

FirstOf(S) == CHOOSE i \in S : \A j \in S : i <= j

(* getStartAndEndIndexOfTargetGroup: a run of places around a group of the *)
(* given size, which starts after the first gap                            *)
TargetSpan(places, size) ==
  LET afterGap == {i \in places : i - 1 \notin places /\ \E j \in places : j < i}
      start == IF afterGap = {} THEN FirstOf(places) ELSE FirstOf(afterGap)
      end == start + Cardinality(places)
  IN [start |-> start, end |-> IF end > size THEN end - size ELSE end]

(* queueEntryGetTransactionGroup *)
TransactionGroup(g, homes) == UNION {StorageNodes(g, h) : h \in homes}

(* the places of a span beyond the end of the group, as they are inside it *)
WrappedPlaces(span) == IF span.end < span.start THEN 0 .. span.end - 1 ELSE {}

(* routeAndQueueAcceptedTransaction: the queue entry of a transaction      *)
(* whose accounts have the home partitions `homes`, executed by the        *)
(* consensus group of the partition `exec`.                                *)
(* isSenderWrappedTxGroup: the members of a consensus group that goes past *)
(* the end of the transaction group have a second, unwrapped place there.  *)
QueueEntry(g, homes, exec, offset) ==
  LET group == TransactionGroup(g, homes)
      size == Cardinality(group)
      placeOf == [m \in group |-> Cardinality({k \in group : k < m})]
      places(nodes) == {placeOf[m] : m \in nodes}
      executors == places(ConsensusNodes(g, exec))
  IN [size |-> size,
      storers |-> [h \in homes |-> places(StorageNodes(g, h))],
      executors |-> executors,
      span |-> TargetSpan(executors, size),
      wrapped |-> UNION {WrappedPlaces(TargetSpan(places(ConsensusNodes(g, h)), size)) : h \in homes},
      correspondingGlobalOffset |-> offset]

Unwrapped(e, place) == place + e.size

(* getCorrespondingNodes *)
CorrespondingNodes(our, span, offset, receivers, senders, size) ==
  LET stop == IF span.start > span.end THEN span.end + size ELSE span.end
      target == our % senders
      found == {i \in span.start .. stop - 1 : (i + offset) % receivers = target}
      wrapped(i) == IF i >= size THEN i - size ELSE i
      inSpan(i) == IF i >= stop THEN i - receivers ELSE i
      pastSplit(i) ==
        IF span.start > span.end /\ i >= span.end THEN span.start + (i - span.end) ELSE i
      place[k \in Nat] ==
        IF k = 0 THEN wrapped(FirstOf(found))
                 ELSE pastSplit(inSpan(wrapped(place[k - 1] + senders)))
  IN IF found = {} THEN {} ELSE {place[k] : k \in 0 .. (receivers - 1 - target) \div senders}

(* verifyCorrespondingSender *)
VerifySender(receiver, sender, span, offset, receivers, senders, size) ==
  LET unwrapped == IF span.start > receiver THEN receiver + size ELSE receiver
  IN ((unwrapped + offset) % receivers) % senders = sender % senders

-----------------------------------------------------------------------------
(* factTellCorrespondingNodes: before the transaction is executed, the     *)
(* nodes that store one of its accounts tell the execution group the data, *)
(* from each place they have.                                              *)
TellFrom(e, index) ==
  LET n == Cardinality(e.executors)
  IN CorrespondingNodes(index, e.span, e.correspondingGlobalOffset, n, n, e.size)
TellData(e, place) ==
  (TellFrom(e, place) \cup
     (IF place \in e.wrapped THEN TellFrom(e, Unwrapped(e, place)) ELSE {})) \ {place}

(* factValidateCorrespondingTellSender *)
AcceptFrom(e, receiver, index) ==
  LET n == Cardinality(e.executors)
  IN VerifySender(receiver, index, e.span, e.correspondingGlobalOffset, n, n, e.size)
AcceptData(e, receiver, sender) ==
  \/ AcceptFrom(e, receiver, sender)
  \/ sender \in e.wrapped /\ AcceptFrom(e, receiver, Unwrapped(e, sender))

-----------------------------------------------------------------------------
(* factTellCorrespondingNodesFinalData: afterwards the execution group     *)
(* tells the whole group what the accounts have become. A sender with a    *)
(* second place uses only that one.                                        *)
SenderIndex(e, place) == IF place \in e.wrapped THEN Unwrapped(e, place) ELSE place
WholeGroup(e) == [start |-> 0, end |-> e.size]
MutantTellFinal(e, place) ==
  CorrespondingNodes(place, WholeGroup(e), e.correspondingGlobalOffset, e.size,
                     Cardinality(e.executors), e.size)
TellFinal(e, place) ==
  CorrespondingNodes(SenderIndex(e, place), WholeGroup(e), e.correspondingGlobalOffset, e.size,
                     Cardinality(e.executors), e.size)

(* factValidateCorrespondingTellFinalDataSender *)
AcceptFinal(e, receiver, sender) ==
  /\ sender \in e.executors
  /\ VerifySender(receiver, SenderIndex(e, sender), WholeGroup(e), e.correspondingGlobalOffset,
                  e.size, Cardinality(e.executors), e.size)

-----------------------------------------------------------------------------
(* A transaction of two accounts, executed by the consensus group of one.  *)
TellInit ==
  /\ \E n \in 1 .. MaxActive, s \in Sizes, o \in Offsets :
       \E h, x \in 0 .. n - 1 : tx = QueueEntry(Globals(n, s), {h, x}, x, o)
  /\ informed = {}

(* Every storer of an account has its data and tells it; who accepts it    *)
(* has it then.                                                            *)
TellAccounts ==
  /\ informed' = UNION {UNION {{<<h, x>> : x \in {s} \cup {y \in TellData(tx, s) : AcceptData(tx, y, s)}} :
                                 s \in tx.storers[h]} : h \in DOMAIN tx.storers}
  /\ UNCHANGED tx

TellSpec == TellInit /\ [][TellAccounts]_tellVars

(* As long as no member of the execution group has its second place        *)
(* because of another account's group.                                     *)
OwnPlaces ==
  \/ tx.wrapped \cap tx.executors = {}
  \/ tx.span.start > tx.span.end /\ tx.wrapped \cap tx.executors \subseteq 0 .. tx.span.end - 1

DataArrives == \A h \in DOMAIN tx.storers, x \in tx.executors : <<h, x>> \in informed'
ResultArrives ==
  \A x \in (0 .. tx.size - 1) \ tx.executors :
    \E s \in tx.executors : x \in TellFinal(tx, s) /\ AcceptFinal(tx, x, s)

(* The nodes of the execution group get the data of every account from one *)
(* that has it and that they accept it from (factTellCorrespondingNodes,   *)
(* factValidateCorrespondingTellSender); every other node of the trans-    *)
(* action group gets the result from one that executed it and that it      *)
(* accepts it from (factTellCorrespondingNodesFinalData).                  *)
TellsArrive == [][TellAccounts => DataArrives /\ (OwnPlaces => ResultArrives)]_tellVars
=============================================================================
