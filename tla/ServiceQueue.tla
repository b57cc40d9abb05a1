---------------------------- MODULE ServiceQueue ----------------------------
(***************************************************************************)
(* The queue of network transactions: p2p/ServiceQueue.ts.  Every node     *)
(* keeps the same list txList.  Additions and removals are gossiped in the *)
(* first half of a cycle, written into the cycle record in Q3, and applied *)
(* by every node that digests the record.  In Q3 an active node also walks *)
(* the list, asks the application to execute entries and proposes the      *)
(* removal of the executed ones.                                           *)
(*                                                                         *)
(* That all nodes digest the same record is what module CycleCert is       *)
(* about; here one of the records made is chosen and everyone digests it.  *)
(* A node whose own record won may digest its own object, which shares its *)
(* arrays with the module, or the equal copy that a peer gossiped.         *)
(***************************************************************************)
EXTENDS Integers, SequencesExt, FiniteSetsExt

CONSTANTS
  Node,             \* the active nodes
  Tx,               \* network transactions, standing for their hashes too
  Rank,             \* Rank[tx]: where the hash of tx sorts
  Priority,         \* Priority[tx]
  SubQueueKey,      \* SubQueueKey[tx], or NoKey
  NoKey,
  PerCycle,         \* networkTransactionsToProcessPerCycle
  SlowAdd,          \* nodes whose beforeAddVerifier may outlast a quarter
  SlowApply,        \* nodes whose applyVerifier may outlast a quarter
  MaxCycle          \* bound: the run ends when this cycle is decided

ASSUME QueueAssumption ==
  /\ Rank \in [Tx -> Nat]
  /\ \A t, u \in Tx : Rank[t] = Rank[u] => t = u
  /\ Priority \in [Tx -> Nat]
  /\ PerCycle \in Nat
  /\ MaxCycle \in Nat
  /\ SlowAdd \subseteq Node
  /\ SlowApply \subseteq Node

VARIABLES
  cycle, quarter,   \* quarter 1 is Q1 until sendRequests, 2 the rest of Q1 and Q2
  txList,           \* entries [tx, cycle] in the order of sortedInsert
  txAdd, txRemove,  \* what this cycle has collected
  addProposals, removeProposals,
  verifying,        \* additions whose beforeAddVerifier has not answered
  removing,         \* gossiped removals whose applyVerifier has not answered
  loop,             \* the walk of processNetworkTransactions
  tried,            \* 'try-network-transaction' events emitted this cycle
  applied,          \* transactions the application has executed
  made,             \* the record a node made in Q3
  decided,          \* decided[c]: the record of cycle c that is digested
  gossip

vars == <<cycle, quarter, txList, txAdd, txRemove, addProposals, removeProposals,
          verifying, removing, loop, tried, applied, made, decided, gossip>>

InList(list, t) == \E i \in DOMAIN list : list[i].tx = t
-----------------------------------------------------------------------------
(* sortedInsert: by cycle, then priority, then hash.                       *)
Before(e, f) ==
  \/ e.cycle < f.cycle
  \/ e.cycle = f.cycle /\ Priority[e.tx] > Priority[f.tx]
  \/ e.cycle = f.cycle /\ Priority[e.tx] = Priority[f.tx] /\ Rank[e.tx] < Rank[f.tx]

MutantSortedInsert(list, e) ==
  LET later == {i \in DOMAIN list : e.cycle < list[i].cycle}
  IN  IF later = {} THEN Append(list, e) ELSE InsertAt(list, Min(later), e)
SortedInsert(list, e) ==
  LET later == {i \in DOMAIN list : Before(e, list[i])}
  IN  IF later = {} THEN Append(list, e) ELSE InsertAt(list, Min(later), e)

(* parseRecord skips an addition the list already has; updateRecord, which *)
(* works on a copy to hash it, does not.                                   *)
InsertNew(list, e) == IF InList(list, e.tx) THEN list ELSE SortedInsert(list, e)

Without(list, t) == RemoveFirstMatch(list, LAMBDA e : e.tx = t)

ListAfterUpdate(list, adds, removes) ==
  FoldSet(LAMBDA t, l : Without(l, t), FoldSet(LAMBDA e, l : SortedInsert(l, e), list, adds), removes)
ListAfterParse(list, adds, removes) ==
  FoldSet(LAMBDA t, l : Without(l, t), FoldSet(LAMBDA e, l : InsertNew(l, e), list, adds), removes)

(* updateRecord; the hash of a list is the list.                           *)
Record(n) == [txadd      |-> txAdd[n],
              txremove   |-> txRemove[n],
              txlisthash |-> ListAfterUpdate(txList[n], txAdd[n], txRemove[n])]

(* record.txadd and record.txremove are the arrays txAdd and txRemove, so  *)
(* what is pushed after Q3 shows up in the node's own record.              *)
OwnObject(n) == [made[n] EXCEPT !.txadd = txAdd[n], !.txremove = txRemove[n]]
-----------------------------------------------------------------------------
Added(n, t) == \E e \in txAdd[n] : e.tx = t
Push(n, e) == txAdd' = [txAdd EXCEPT ![n] = @ \cup {e}]
ToOthers(n, msg) == {[to |-> m, msg |-> msg] : m \in Node \ {n}}
AddMessage(e) == [type |-> "add", tx |-> e.tx, cycle |-> e.cycle]
RemoveMessage(t) == [type |-> "remove", tx |-> t]

NotWalking == [state |-> "none"]
NoRecord == [txadd |-> {}, txremove |-> {}, txlisthash |-> <<>>]

Init ==
  /\ cycle = [n \in Node |-> 1]
  /\ quarter = [n \in Node |-> 1]
  /\ txList = [n \in Node |-> <<>>]
  /\ txAdd = [n \in Node |-> {}]
  /\ txRemove = [n \in Node |-> {}]
  /\ addProposals = [n \in Node |-> <<>>]
  /\ removeProposals = [n \in Node |-> {}]
  /\ verifying = [n \in Node |-> {}]
  /\ removing = [n \in Node |-> {}]
  /\ loop = [n \in Node |-> NotWalking]
  /\ tried = [n \in Node |-> {}]
  /\ applied = {}
  /\ made = [n \in Node |-> NoRecord]
  /\ decided = <<>>
  /\ gossip = {}
-----------------------------------------------------------------------------
(* _addNetworkTx up to the verifier of the application.                    *)
MayAdd(n, e) == /\ e.cycle \in {cycle[n] - 1, cycle[n]}
                /\ ~InList(txList[n], e.tx)

(* addNetworkTx, called by the application at any time.  Bound: once per   *)
(* node, transaction and cycle, while the proposal is waiting.             *)
Waiting(n, e) == e \in ToSet(addProposals[n]) \/ [entry |-> e, own |-> TRUE] \in verifying[n]
AddNetworkTx(n, t) ==
  LET e == [tx |-> t, cycle |-> cycle[n]]
  IN /\ t \notin applied
     /\ ~Waiting(n, e)
     /\ MayAdd(n, e)
     /\ verifying' = [verifying EXCEPT ![n] = @ \cup {[entry |-> e, own |-> TRUE]}]
     /\ UNCHANGED <<cycle, quarter, txList, txAdd, txRemove, addProposals, removeProposals,
                    loop, tried, applied, made, decided, gossip, removing>>

(* The verifier accepts.  A gossiped addition is pushed and forwarded,     *)
(* without another look at the quarter.                                    *)
AddVerified(n, v) ==
  /\ v \in verifying[n]
  /\ verifying' = [verifying EXCEPT ![n] = @ \ {v}]
  /\ IF v.own
     THEN /\ addProposals' = [addProposals EXCEPT ![n] = Append(@, v.entry)]
          /\ UNCHANGED <<txAdd, gossip>>
     ELSE /\ IF Added(n, v.entry.tx)
             THEN UNCHANGED <<txAdd, gossip>>
             ELSE /\ Push(n, v.entry)
                  /\ gossip' = gossip \cup ToOthers(n, AddMessage(v.entry))
          /\ UNCHANGED addProposals
  /\ UNCHANGED <<cycle, quarter, txList, txRemove, removeProposals, loop, tried,
                 applied, made, decided, removing>>

MutantGossipOpen(n) == TRUE
GossipOpen(n) == quarter[n] \in {1, 2}

(* addTxGossipRoute, up to the verifier.                                   *)
ReceiveAdd(n, msg) ==
  LET e == [tx |-> msg.tx, cycle |-> msg.cycle]
  IN /\ msg.type = "add"
     /\ gossip' = gossip \ {[to |-> n, msg |-> msg]}
     /\ IF GossipOpen(n) /\ ~Added(n, msg.tx) /\ MayAdd(n, e)
        THEN verifying' = [verifying EXCEPT ![n] = @ \cup {[entry |-> e, own |-> FALSE]}]
        ELSE UNCHANGED verifying
     /\ UNCHANGED <<cycle, quarter, txList, txAdd, txRemove, addProposals, removeProposals,
                    loop, tried, applied, made, decided, removing>>

(* _removeNetworkTx: the checks before the verifier.                       *)
RemoveStarts(n, t) == InList(txList[n], t) /\ t \notin removeProposals[n]

(* removeTxGossipRoute, up to the verifier.                                *)
ReceiveRemove(n, msg) ==
  /\ msg.type = "remove"
  /\ gossip' = gossip \ {[to |-> n, msg |-> msg]}
  /\ IF GossipOpen(n) /\ msg.tx \notin txRemove[n] /\ RemoveStarts(n, msg.tx)
     THEN removing' = [removing EXCEPT ![n] = @ \cup {msg.tx}]
     ELSE UNCHANGED removing
  /\ UNCHANGED <<cycle, quarter, txList, txAdd, txRemove, addProposals, removeProposals, verifying,
                 loop, tried, applied, made, decided>>

(* The verifier answers whether the transaction was executed; the removal  *)
(* is pushed without another look at the quarter or the list.              *)
RemoveVerified(n, t) ==
  /\ t \in removing[n]
  /\ removing' = [removing EXCEPT ![n] = @ \ {t}]
  /\ IF t \in applied /\ t \notin txRemove[n]
     THEN /\ txRemove' = [txRemove EXCEPT ![n] = @ \cup {t}]
          /\ gossip' = gossip \cup ToOthers(n, RemoveMessage(t))
     ELSE UNCHANGED <<txRemove, gossip>>
  /\ UNCHANGED <<cycle, quarter, txList, txAdd, addProposals, removeProposals, verifying,
                 loop, tried, applied, made, decided>>

(* sendRequests.  Additions are pushed whatever the list holds by now;     *)
(* removals only if the list has them.                                     *)
WithProposals(n) ==
  FoldLeft(LAMBDA adds, e : IF \E f \in adds : f.tx = e.tx THEN adds ELSE adds \cup {e},
           txAdd[n], addProposals[n])
SendRequests(n) ==
  LET removes == {t \in removeProposals[n] : InList(txList[n], t)}
  IN /\ quarter[n] = 1
     /\ quarter' = [quarter EXCEPT ![n] = 2]
     /\ txAdd' = [txAdd EXCEPT ![n] = WithProposals(n)]
     /\ txRemove' = [txRemove EXCEPT ![n] = @ \cup removes]
     /\ addProposals' = [addProposals EXCEPT ![n] = <<>>]
     /\ removeProposals' = [removeProposals EXCEPT ![n] = {}]
     /\ gossip' = gossip \cup UNION ({ToOthers(n, AddMessage(e)) : e \in ToSet(addProposals[n])}
                                     \cup {ToOthers(n, RemoveMessage(t)) : t \in removes})
     /\ UNCHANGED <<cycle, txList, verifying, loop, tried, applied, made, decided, removing>>
-----------------------------------------------------------------------------
(* An await ends within its quarter unless the node is slow.               *)
AddsAnswered(n) == verifying[n] = {} \/ n \in SlowAdd
RemovesAnswered(n) == removing[n] = {} \/ n \in SlowApply
WalkAnswered(n) == loop[n].state \notin {"verify", "remove"}

StartWalk(n) ==
  [state |-> "next", at |-> 1, length |-> Min({Len(txList[n]), PerCycle}), keys |-> {}]

(* runQ3: the record is made and the walk starts.  No two nodes are half a *)
(* cycle apart; gossip that has not come by now is too late.               *)
RunQ3(n) ==
  /\ quarter[n] = 2
  /\ \A m \in Node : cycle[m] >= cycle[n]
  /\ AddsAnswered(n) /\ RemovesAnswered(n) /\ WalkAnswered(n)
  /\ quarter' = [quarter EXCEPT ![n] = 3]
  /\ made' = [made EXCEPT ![n] = Record(n)]
  /\ loop' = [loop EXCEPT ![n] = StartWalk(n)]
  /\ tried' = [tried EXCEPT ![n] = {}]
  /\ gossip' = {g \in gossip : g.to # n}
  /\ UNCHANGED <<cycle, txList, txAdd, txRemove, addProposals, removeProposals, verifying,
                 applied, decided, removing>>

RunQ4(n) ==
  /\ quarter[n] = 3
  /\ AddsAnswered(n) /\ RemovesAnswered(n) /\ (WalkAnswered(n) \/ n \in SlowApply)
  /\ quarter' = [quarter EXCEPT ![n] = 4]
  /\ UNCHANGED <<cycle, txList, txAdd, txRemove, addProposals, removeProposals, verifying,
                 loop, tried, applied, made, decided, gossip, removing>>
-----------------------------------------------------------------------------
(* processNetworkTransactions, one iteration: an entry whose subqueue has  *)
(* an entry waiting is skipped and does not count.                         *)
Blocked(n, t) == SubQueueKey[t] # NoKey /\ SubQueueKey[t] \in loop[n].keys
MutantBlocks(t) == {}
Blocks(t) == IF SubQueueKey[t] = NoKey THEN {} ELSE {SubQueueKey[t]}
MutantLongerWalk(n) == loop[n].length
LongerWalk(n) == IF loop[n].length < Len(txList[n]) THEN loop[n].length + 1 ELSE loop[n].length

WalkOn(n) == loop[n].state = "next" /\ quarter[n] = 3 /\ loop[n].at <= loop[n].length
WalkNext(n) ==
  /\ WalkOn(n)
  /\ LET i == loop[n].at
     IN  loop' = [loop EXCEPT ![n] =
           IF i > Len(txList[n]) THEN [@ EXCEPT !.at = i + 1]
           ELSE IF Blocked(n, txList[n][i].tx)
                THEN [@ EXCEPT !.at = i + 1, !.length = LongerWalk(n)]
                ELSE [state |-> "verify", at |-> i, length |-> @.length, keys |-> @.keys,
                      tx |-> txList[n][i].tx]]
  /\ UNCHANGED <<cycle, quarter, txList, txAdd, txRemove, addProposals, removeProposals,
                 verifying, tried, applied, made, decided, gossip, removing>>

Walk(n, keys) == [state |-> "next", at |-> loop[n].at + 1, length |-> loop[n].length, keys |-> keys]

(* The applyVerifier answers.  If the transaction has not been executed,   *)
(* the application is asked to; otherwise whatever entry now is at that    *)
(* index is to be removed.  No entry there: the exception ends the walk.   *)
WalkVerified(n) ==
  /\ loop[n].state = "verify"
  /\ LET i == loop[n].at
         t == loop[n].tx
     IN IF t \notin applied
        THEN /\ tried' = [tried EXCEPT ![n] = @ \cup {t}]
             /\ loop' = [loop EXCEPT ![n] =
                  IF i > Len(txList[n]) THEN NotWalking
                  ELSE Walk(n, @.keys \cup Blocks(t))]
        ELSE /\ UNCHANGED tried
             /\ loop' = [loop EXCEPT ![n] =
                  IF i > Len(txList[n]) THEN NotWalking
                  ELSE IF RemoveStarts(n, txList[n][i].tx)
                       THEN [@ EXCEPT !.state = "remove", !.tx = txList[n][i].tx]
                       ELSE Walk(n, @.keys)]
  /\ UNCHANGED <<cycle, quarter, txList, txAdd, txRemove, addProposals, removeProposals,
                 verifying, applied, made, decided, gossip, removing>>

(* _removeNetworkTx answers: the entry it was called for is verified.      *)
MutantVerifiedAgain(t) == TRUE
VerifiedAgain(t) == t \in applied
WalkRemove(n) ==
  /\ loop[n].state = "remove"
  /\ removeProposals' = [removeProposals EXCEPT ![n] =
                           IF VerifiedAgain(loop[n].tx) THEN @ \cup {loop[n].tx} ELSE @]
  /\ loop' = [loop EXCEPT ![n] = Walk(n, @.keys)]
  /\ UNCHANGED <<cycle, quarter, txList, txAdd, txRemove, addProposals, verifying, tried,
                 applied, made, decided, gossip, removing>>

(* The application executes a transaction some node asked for.             *)
Execute(t) ==
  /\ t \notin applied
  /\ \E n \in Node : t \in tried[n]
  /\ applied' = applied \cup {t}
  /\ UNCHANGED <<cycle, quarter, txList, txAdd, txRemove, addProposals, removeProposals,
                 verifying, loop, tried, made, decided, gossip, removing>>
-----------------------------------------------------------------------------
(* cycleCreator: digest the record (parseRecord), then reset.              *)
DigestRecord(n, record) ==
  /\ txList' = [txList EXCEPT ![n] = ListAfterParse(@, record.txadd, record.txremove)]
  /\ txAdd' = [txAdd EXCEPT ![n] = {}]
  /\ txRemove' = [txRemove EXCEPT ![n] = {}]
  /\ cycle' = [cycle EXCEPT ![n] = @ + 1]
  /\ quarter' = [quarter EXCEPT ![n] = 1]
  /\ UNCHANGED <<addProposals, removeProposals, verifying, removing, loop, tried, applied,
                 made, gossip>>

Digest(n) ==
  /\ quarter[n] = 4
  /\ AddsAnswered(n) /\ RemovesAnswered(n)
  /\ \A m \in Node : cycle[m] > cycle[n] \/ quarter[m] \in {3, 4}
  /\ IF Len(decided) < cycle[n]
     THEN \E m \in Node : decided' = Append(decided, made[m])
     ELSE UNCHANGED decided
  /\ LET winner == decided'[cycle[n]]
     IN  \E record \in {winner} \cup {r \in {OwnObject(n)} : made[n] = winner} :
           DigestRecord(n, record)

NodeStep(n) ==
  \/ \E t \in Tx : AddNetworkTx(n, t)
  \/ \E v \in verifying[n] : AddVerified(n, v)
  \/ \E g \in gossip : g.to = n /\ (ReceiveAdd(n, g.msg) \/ ReceiveRemove(n, g.msg))
  \/ \E t \in removing[n] : RemoveVerified(n, t)
  \/ SendRequests(n)
  \/ RunQ3(n)
  \/ RunQ4(n)
  \/ WalkNext(n)
  \/ WalkVerified(n)
  \/ WalkRemove(n)
  \/ Digest(n)

EndOfRun == (\A n \in Node : cycle[n] > MaxCycle) /\ UNCHANGED vars
Next ==
  \/ \E n \in Node : cycle[n] <= MaxCycle /\ NodeStep(n)
  \/ \E t \in Tx : Execute(t)
  \/ EndOfRun

Spec == Init /\ [][Next]_vars
-----------------------------------------------------------------------------
Sorted(list) ==
  \A i, j \in DOMAIN list : i < j => Before(list[i], list[j]) /\ list[i].tx # list[j].tx

(* The state is well formed; every list is strictly sorted, so its order   *)
(* is decided by its entries alone, and has a transaction once only.       *)
TypeOK ==
  /\ \A n \in Node : /\ cycle[n] \in 1 .. MaxCycle + 1
                      /\ quarter[n] \in 1 .. 4
                      /\ tried[n] \subseteq Tx
                      /\ removeProposals[n] \subseteq Tx
                      /\ txRemove[n] \subseteq Tx
                      /\ removing[n] \subseteq Tx
                      /\ \A e, f \in txAdd[n] : e.tx = f.tx => e = f
  /\ applied \subseteq Tx
  /\ \A n \in Node : Sorted(txList[n])

(* Two nodes that have digested the same records have the same list,       *)
(* although a record shares its arrays with the module that goes on        *)
(* collecting (updateRecord).  DOMAIN cycle: a run may put the states of   *)
(* two networks side by side (MCServiceQueue), and this is about both.     *)
ListsAgree == \A n, m \in DOMAIN cycle : cycle[n] = cycle[m] => txList[n] = txList[m]

(* The hash in the record is that of the list after digesting it: what a   *)
(* syncing node or a restarted one asks for the list with.                 *)
HashMatches ==
  \A n \in Node : cycle[n] > 1 => txList[n] = decided[cycle[n] - 1].txlisthash

(* A transaction leaves a list only after the application executed it,     *)
(* whichever entry the walk's index points at after an await.              *)
RemovedOnlyApplied ==
  [][\A n \in Node : \A t \in Tx \ applied : InList(txList[n], t) => InList(txList'[n], t)]_vars

(* The application is asked to execute a transaction only after all        *)
(* earlier ones of its subqueue were executed, if the verifier answers     *)
(* within Q3; a later answer may find new entries before it.               *)
SubQueueInOrder ==
  [][\A n \in Node : \A j \in DOMAIN txList[n] :
       LET t == txList[n][j].tx
       IN  t \in tried'[n] \ tried[n] /\ quarter[n] = 3 /\ SubQueueKey[t] # NoKey =>
             \A i \in 1 .. j - 1 :
               SubQueueKey[txList[n][i].tx] = SubQueueKey[t] => txList[n][i].tx \in applied]_vars

(* A waiting subqueue does not use up the walk: one that came to its end   *)
(* asked for, or proposed to remove, as many transactions as a cycle may   *)
(* handle, or one of every subqueue.                                       *)
Lanes(n) == {IF SubQueueKey[e.tx] = NoKey THEN <<e.tx>> ELSE <<NoKey, SubQueueKey[e.tx]>> :
               e \in ToSet(txList[n])}
BudgetUsed ==
  \A n \in Node :
    (loop[n].state = "next" /\ quarter[n] = 3 /\ loop[n].at > loop[n].length) =>
      Cardinality(tried[n] \cup removeProposals[n]) >= Min({PerCycle, Cardinality(Lanes(n))})
=============================================================================
