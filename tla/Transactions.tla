---------------------------- MODULE Transactions ----------------------------
(* The life of sharded transactions on the nodes of their groups, as       *)
(* TransactionQueue.processTransactions drives it: accounts are collected, *)
(* the execution group applies and votes, equal votes make a receipt, the  *)
(* group commits, the other nodes that store the accounts save the data    *)
(* that is sent to them, and a node whose vote lost repairs itself.        *)
(*                                                                         *)
(* Configuration as shipped, with executeInOneShard (usePOQo, no           *)
(* expiration of transactions).  A node runs passes over its queue; a pass *)
(* is interrupted only where the code awaits, and handlers run then or     *)
(* between passes.  The data of an account is the set of transactions      *)
(* applied to it, its timestamp the newest of theirs.  The hash of a       *)
(* proposal is the proposal.  Messages stay in msgs: one may be received   *)
(* late, in any order, more than once, or never.                           *)
EXTENDS Integers, FiniteSets, FiniteSetsExt, Functions

CONSTANTS
  Node,       \* the nodes followed step by step
  Remote,     \* further members of the execution groups, seen through their messages
  Account, Tx,
  Past,       \* transactions of before
  Stamp,      \* [Tx \cup Past -> Nat]: timestamps, in ticks of the queue's sit time
  Keys,       \* [Tx -> SUBSET Account]: accounts read and written
  Exec,       \* [Tx -> SUBSET (Node \cup Remote)]: execution groups
  Stores,     \* [Node -> SUBSET Account]
  Initial,    \* what the accounts may hold at first: a set of [Account -> data]
  Missed,     \* which copies may be out of date at first: a set of SUBSET (Node \X Account)
  Failing,    \* transactions the application applies with `failed` set
  Late,       \* nodes that may get a transaction after its sit time
  nodesPerConsensusGroup,
  StuckAge, MaxClock,
  NoProposal

ASSUME TxAssumption ==
  /\ IsFiniteSet(Tx \cup Past)
  /\ \A t \in Tx \cup Past : Stamp[t] \in Nat \ {0}
  /\ \A t, u \in Tx \cup Past : Stamp[t] = Stamp[u] => t = u
  /\ \A t \in Tx : Keys[t] # {} /\ Keys[t] \subseteq Account

ASSUME StoreAssumption ==
  /\ Stores \in [Node -> SUBSET Account]
  /\ Initial \subseteq [Account -> SUBSET Past]

ASSUME GroupAssumption ==
  /\ IsFiniteSet(Node \cup Remote) /\ Node \cap Remote = {}
  /\ \A t \in Tx : Exec[t] \subseteq Node \cup Remote

VARIABLES
  now,        \* the clock, in ticks of timeM (queueSitTime)
  store,      \* [Node -> [Account -> data]]: the application's accounts (and accountCache)
  entry,      \* [Node -> [Tx -> queue entry]]
  pass,       \* [Node -> the running call of processTransactions]
  msgs        \* every message sent so far

vars == <<now, store, entry, pass, msgs>>

timeM == 1
timeM2 == 2 * timeM

Latest(data) == IF data = {} THEN 0 ELSE Max({Stamp[t] : t \in data})

Queued == {"aging", "processing", "awaiting data", "consensing", "await repair",
           "await final data", "commiting"}
Removed == {"pass", "fail"}
Live(n, t) == entry[n][t].state \in Queued \cup {"pending"}

NewEntry ==
  [state |-> "none", collected |-> <<>>, ourVote |-> NoProposal, votes |-> {},
   newVotes |-> FALSE, signedReceipt |-> NoProposal, collectedFinalData |-> <<>>,
   repair |-> "no"]

NotRunning == [running |-> FALSE, at |-> 0, seen |-> {}, waiting |-> FALSE]

-----------------------------------------------------------------------------
(* Proposals, votes and receipts *)

Written(t, data) == [a \in DOMAIN data |-> data[a] \cup {t}]

(* What a node votes for.  A transaction that fails keeps its account      *)
(* writes; one that could not be applied names the accounts as they were.  *)
Applied(t, data) ==
  [applied |-> t \notin Failing, cant_preApply |-> FALSE, before |-> data, after |-> Written(t, data)]
CannotApply(t, data) ==
  [applied |-> FALSE, cant_preApply |-> TRUE, before |-> data, after |-> data]

CeilTwoThirds(k) == (2 * k + 2) \div 3
MajorityCount(t) == CeilTwoThirds(Cardinality(Exec[t]))
RequiredMajority(t) ==
  CeilTwoThirds(Max({Cardinality(Exec[t]), nodesPerConsensusGroup}))

VotesFor(votes, p) == {v \in votes : v.hash = p}

MutantWins(t, votes, p) ==
  /\ Cardinality(votes) >= MajorityCount(t)
  /\ VotesFor(votes, p) # {}
Wins(t, votes, p) ==
  /\ Cardinality(votes) >= MajorityCount(t)
  /\ Cardinality(VotesFor(votes, p)) > MajorityCount(t)

(* Messages.  A receipt counts the signatures it carries.  Final data goes *)
(* out with it if the transaction was applied, failed or not.              *)
DataMessage(t, a, data) == [type |-> "data", tx |-> t, account |-> a, data |-> data]
Vote(t, n, p) == [type |-> "vote", tx |-> t, from |-> n, hash |-> p]
Receipt(t, p, k) == [type |-> "receipt", tx |-> t, proposal |-> p, signatures |-> k]
FinalMessages(t, p, k) ==
  IF p.cant_preApply THEN {}
  ELSE {[type |-> "final", tx |-> t, proposal |-> p, signatures |-> k]}
verifyAppliedReceipt(m) == m.signatures >= RequiredMajority(m.tx)

(* The remote nodes never missed anything: they applied, in order, all     *)
(* that is older, does not fail and finds no newer account, and their      *)
(* votes alone may make a receipt.                                         *)
Applies(t, held) == t \notin Failing /\ \A a \in Keys[t] : Latest(held[a]) < Stamp[t]
Ideal(t, held) ==
  [a \in Keys[t] |->
     held[a] \cup {u \in Tx : Applies(u, held) /\ Stamp[u] < Stamp[t] /\ a \in Keys[u]}]
RemoteProposal(t, data) ==
  IF \A a \in Keys[t] : Latest(data[a]) < Stamp[t] THEN Applied(t, data) ELSE CannotApply(t, data)
RemoteMessages(t, data) ==
  LET p == RemoteProposal(t, data)
      votes == {Vote(t, r, p) : r \in Remote \cap Exec[t]}
      k == Cardinality(votes)
  IN  IF Remote = {} THEN {}
      ELSE {DataMessage(t, a, data[a]) : a \in Keys[t]}
           \cup (IF k > MajorityCount(t) THEN {Receipt(t, p, k)} \cup FinalMessages(t, p, k)
                 ELSE votes)

(* A node that is not late has a transaction in its queue before its sit   *)
(* time is over; when exactly makes no difference.                         *)
InGroup(n, t) == n \in Exec[t] \/ Stores[n] \cap Keys[t] # {}

Init ==
  /\ now = Min({Stamp[t] : t \in Tx})
  /\ \E held \in Initial :
       /\ \E missed \in Missed : store = [n \in Node |-> [a \in Stores[n] |->
            IF <<n, a>> \in missed THEN {} ELSE held[a]]]
       /\ msgs = UNION {RemoteMessages(t, Ideal(t, held)) : t \in Tx}
  /\ entry = [n \in Node |-> [t \in Tx |->
       IF InGroup(n, t) /\ n \notin Late THEN [NewEntry EXCEPT !.state = "aging"] ELSE NewEntry]]
  /\ pass = [n \in Node |-> NotRunning]

(* JavaScript runs a pass up to its next await without interruption.       *)
(* Nodes meet through msgs only, so while one node runs the others rest.   *)
Resting(n) == pass[n].running => pass[n].waiting
Interruptible == \A n \in Node : Resting(n)

Age(t) == now - Stamp[t]

-----------------------------------------------------------------------------
(* Messages received *)

(* handleSharedTX, routeAndQueueAcceptedTransaction *)
Queue(n, t) ==
  /\ entry[n][t].state = "none"
  /\ Age(t) >= 0
  /\ InGroup(n, t)
  /\ entry' = [entry EXCEPT ![n][t].state = "pending"]
  /\ UNCHANGED <<now, store, pass, msgs>>

(* queueEntryAddData: newer data replaces what was collected *)
AddData(collected, a, data) ==
  IF a \in DOMAIN collected /\ Latest(collected[a]) >= Latest(data)
  THEN collected
  ELSE [b \in DOMAIN collected \cup {a} |-> IF b = a THEN data ELSE collected[b]]

hasAll(n, t) == DOMAIN entry[n][t].collected = Keys[t]

(* Messages of transactions that are not in the queue are dropped.  Data   *)
(* that comes after it was used, and votes after the receipt, are kept by  *)
(* the code but never read.                                                *)
Receive(n, m) == Live(n, m.tx) /\ Age(m.tx) >= timeM /\ UNCHANGED <<now, store, pass>>

(* broadcast_state *)
ReceiveData(n, m) ==
  /\ m.type = "data"
  /\ n \in Exec[m.tx] /\ entry[n][m.tx].ourVote = NoProposal
  /\ entry' = [entry EXCEPT ![n][m.tx].collected = AddData(@, m.account, m.data)]
  /\ UNCHANGED msgs

(* poqo_send_vote, tryAppendVoteHash: one vote of each owner *)
Append(e, v) == [e EXCEPT !.votes = @ \cup {[from |-> v.from, hash |-> v.hash]}, !.newVotes = TRUE]
Counted(e, v) == \E w \in e.votes : w.from = v.from

ReceiveVote(n, m) ==
  /\ m.type = "vote"
  /\ n \in Exec[m.tx] /\ m.from \in Exec[m.tx]
  /\ ~Counted(entry[n][m.tx], m) /\ entry[n][m.tx].signedReceipt = NoProposal
  /\ entry' = [entry EXCEPT ![n][m.tx] = Append(@, m)]
  /\ UNCHANGED msgs

(* poqo-receipt-gossip *)
ReceiveGossip(n, m) ==
  /\ m.type = "receipt"
  /\ entry[n][m.tx].signedReceipt = NoProposal
  /\ verifyAppliedReceipt(m)
  /\ entry' = [entry EXCEPT ![n][m.tx].signedReceipt = m.proposal]
  /\ UNCHANGED msgs

(* poqo_send_receipt: who voted for it sends the data to those who store it *)
ReceiveReceipt(n, m) ==
  /\ m.type = "receipt"
  /\ n \in Exec[m.tx]
  /\ entry[n][m.tx].signedReceipt = NoProposal
  /\ entry[n][m.tx].ourVote = m.proposal
  /\ verifyAppliedReceipt(m)
  /\ entry' = [entry EXCEPT ![n][m.tx].signedReceipt = m.proposal]
  /\ msgs' = msgs \cup FinalMessages(m.tx, m.proposal, m.signatures)

(* Final data is taken for the accounts that have none yet. *)
AddFinal(final, data) ==
  [a \in DOMAIN final \cup DOMAIN data |-> IF a \in DOMAIN final THEN final[a] ELSE data[a]]

(* poqo_data_and_receipt: the receipt is checked only if there was none *)
ReceiveFinal(n, m) ==
  LET e == entry[n][m.tx]
  IN  /\ m.type = "final"
      /\ e.state \notin {"commiting", "await repair"}
      /\ e.signedReceipt # NoProposal \/ verifyAppliedReceipt(m)
      /\ entry' = [entry EXCEPT ![n][m.tx] =
           [e EXCEPT !.signedReceipt = IF @ = NoProposal THEN m.proposal ELSE @,
                     !.collectedFinalData = AddFinal(@, m.proposal.after)]]
      /\ UNCHANGED msgs

(* request_tx_and_state: a member of the execution group that has a receipt *)
(* answers with the accounts as it applied the transaction, or as it       *)
(* collected them if it could not.                                         *)
Answers(t) ==
  {entry[m][t].ourVote : m \in {k \in Node \cap Exec[t] : entry[k][t].signedReceipt # NoProposal}}
    \cup {m.proposal : m \in {k \in msgs : k.type = "receipt" /\ k.tx = t}}

MutantFits(p, receipt) == p # NoProposal /\ ~p.cant_preApply /\ p.after = receipt.after
Fits(p, receipt) == p # NoProposal /\ p.after = receipt.after

Complete(n, t) == Keys[t] \cap Stores[n] \subseteq DOMAIN entry[n][t].collectedFinalData

(* requestFinalData, when final data is late: only what has the hash of    *)
(* the receipt is kept                                                     *)
RequestFinalData(n, t) ==
  /\ entry[n][t].state = "await final data"
  /\ entry[n][t].signedReceipt # NoProposal
  /\ ~Complete(n, t)
  /\ \E p \in Answers(t) : Fits(p, entry[n][t].signedReceipt)
  /\ entry' = [entry EXCEPT ![n][t].collectedFinalData = AddFinal(@, entry[n][t].signedReceipt.after)]
  /\ UNCHANGED <<now, store, pass, msgs>>

-----------------------------------------------------------------------------
(* A pass of processTransactions *)

InQueue(n) == {t \in Tx : entry[n][t].state \in Queued}

(* Waiting transactions enter the queue; one that is too old by now waits  *)
(* for the receipt only.                                                   *)
Inserted(t) == IF 10 * Age(t) > 9 * timeM THEN "await final data" ELSE "aging"

InsertPending(n) ==
  /\ ~pass[n].running
  /\ \E t \in Tx : entry[n][t].state = "pending"
  /\ entry' = [entry EXCEPT ![n] = [t \in Tx |->
       IF @[t].state = "pending" THEN [@[t] EXCEPT !.state = Inserted(t)] ELSE @[t]]]
  /\ UNCHANGED <<now, store, pass, msgs>>

(* The queue is walked from the oldest transaction to the newest, and no   *)
(* further than to the first that has not aged.                            *)
Ahead(n, stamp) == {t \in InQueue(n) : Stamp[t] > stamp /\ Age(t) >= timeM}
IsNext(n, t) ==
  /\ t \in Ahead(n, pass[n].at)
  /\ \A u \in Ahead(n, pass[n].at) : Stamp[t] <= Stamp[u]

(* What follows t: the next transaction, or the end of the pass. *)
GoOn(n, t, seen) ==
  pass' = [pass EXCEPT ![n] =
    IF Ahead(n, Stamp[t]) = {} THEN NotRunning
    ELSE [running |-> TRUE, at |-> Stamp[t], seen |-> seen, waiting |-> FALSE]]

At(n, t, s) == ~pass[n].waiting /\ entry[n][t].state = s

(* processQueue_accountSeen: an older transaction in the queue has to be   *)
(* done with the accounts first.                                           *)
MutantAccountSeen(n, t) == FALSE
accountSeen(n, t) == Keys[t] \cap pass[n].seen # {}

(* processQueue_markAccountsSeen.  The entry becomes e, and the pass goes  *)
(* on or waits.                                                            *)
Become(n, t, e) == entry' = [entry EXCEPT ![n][t] = e]
Done(n, t) == GoOn(n, t, pass[n].seen \cup Keys[t])
Await(n, t) ==
  /\ pass' = [pass EXCEPT ![n].running = TRUE, ![n].seen = @ \cup Keys[t], ![n].waiting = TRUE]
  /\ UNCHANGED <<now, store, entry, msgs>>
MoveTo(n, t, s) ==
  /\ Become(n, t, [entry[n][t] EXCEPT !.state = s])
  /\ Done(n, t)
  /\ UNCHANGED <<now, store, msgs>>

(* What was awaited for t ends. *)
Awaited(n, t, s) == pass[n].waiting /\ entry[n][t].state = s

PassBlocked(n, t) ==
  /\ \E s \in Queued \ {"aging", "await repair"} : At(n, t, s)
  /\ accountSeen(n, t)
  /\ Done(n, t)
  /\ UNCHANGED <<now, store, entry, msgs>>

PassAging(n, t) == At(n, t, "aging") /\ MoveTo(n, t, "processing")

Collected(n, t) ==
  LET own == Keys[t] \cap Stores[n]
      c == entry[n][t].collected
  IN  [a \in DOMAIN c \cup own |-> IF a \in own THEN AddData(c, a, store[n][a])[a] ELSE c[a]]

(* factTellCorrespondingNodes: tells the execution group the accounts      *)
(* stored here.  Nothing else in the node reads what changes meanwhile.    *)
PassTell(n, t) ==
  /\ At(n, t, "processing") /\ ~accountSeen(n, t)
  /\ Become(n, t, [entry[n][t] EXCEPT
       !.collected = Collected(n, t),
       !.state = IF n \in Exec[t] THEN "awaiting data" ELSE "consensing"])
  /\ msgs' = msgs \cup {DataMessage(t, a, store[n][a]) : a \in Keys[t] \cap Stores[n]}
  /\ Done(n, t)
  /\ UNCHANGED <<now, store>>

(* Without all data, a receipt ends the wait; otherwise it goes on. *)
PassNoData(n, t) ==
  /\ At(n, t, "awaiting data") /\ ~hasAll(n, t) /\ ~accountSeen(n, t)
  /\ MoveTo(n, t, IF Age(t) > timeM2 /\ entry[n][t].signedReceipt # NoProposal
                  THEN "await final data" ELSE "awaiting data")

(* checkAccountTimestamps: this node's accounts may be newer than t *)
TimestampsOk(n, t) == \A a \in Keys[t] \cap Stores[n] : Latest(store[n][a]) < Stamp[t]
CollectedOlder(n, t) == \A a \in Keys[t] : Latest(entry[n][t].collected[a]) < Stamp[t]

PassTooNew(n, t) ==
  /\ At(n, t, "awaiting data") /\ hasAll(n, t) /\ ~accountSeen(n, t)
  /\ ~TimestampsOk(n, t)
  /\ MoveTo(n, t, "consensing")

(* createAndShareVote *)
Share(n, t, p) ==
  /\ Become(n, t, Append([entry[n][t] EXCEPT !.state = "consensing", !.ourVote = p],
                         Vote(t, n, p)))
  /\ msgs' = msgs \cup {Vote(t, n, p)}
  /\ Done(n, t)
  /\ UNCHANGED <<now, store>>

PassApply(n, t) ==
  /\ At(n, t, "awaiting data") /\ hasAll(n, t) /\ ~accountSeen(n, t)
  /\ TimestampsOk(n, t)
  /\ \/ CollectedOlder(n, t) /\ Await(n, t)
     \/ ~CollectedOlder(n, t) /\ Share(n, t, CannotApply(t, entry[n][t].collected))

PreApplied(n, t) ==
  /\ Awaited(n, t, "awaiting data")
  /\ Share(n, t, Applied(t, entry[n][t].collected))

(* tryProduceReceipt: only looks at the votes when there are new ones *)
Produces(e, t) ==
  /\ e.signedReceipt = NoProposal /\ e.ourVote # NoProposal
  /\ e.newVotes
  /\ Wins(t, e.votes, e.ourVote)

PassProduce(n, t) ==
  LET e == entry[n][t]
      k == Cardinality(VotesFor(e.votes, e.ourVote))
  IN  /\ At(n, t, "consensing") /\ ~accountSeen(n, t)
      /\ Produces(e, t)
      /\ Become(n, t, [e EXCEPT !.newVotes = FALSE, !.signedReceipt = e.ourVote,
                                !.state = IF e.ourVote.applied THEN "commiting" ELSE "fail"])
      /\ msgs' = msgs \cup {Receipt(t, e.ourVote, k)} \cup FinalMessages(t, e.ourVote, k)
      /\ Done(n, t)
      /\ UNCHANGED <<now, store>>

PassNoReceipt(n, t) ==
  LET e == entry[n][t]
  IN  /\ At(n, t, "consensing") /\ ~accountSeen(n, t)
      /\ e.signedReceipt = NoProposal /\ ~Produces(e, t)
      /\ Become(n, t, [e EXCEPT !.newVotes = @ /\ (e.ourVote = NoProposal
                                               \/ Cardinality(e.votes) < MajorityCount(t))])
      /\ Done(n, t)
      /\ UNCHANGED <<now, store, msgs>>

(* The receipt came from another node: commit what it says, if that is     *)
(* what was applied here, save what is sent, or repair.                    *)
Matches(e) ==
  e.ourVote # NoProposal /\ ~e.ourVote.cant_preApply /\ e.ourVote = e.signedReceipt

AfterReceipt(n, t, e) ==
  IF ~e.signedReceipt.applied THEN [e EXCEPT !.state = "fail"]
  ELSE IF Matches(e) THEN [e EXCEPT !.state = "commiting"]
  ELSE IF n \in Exec[t] THEN [e EXCEPT !.state = "await repair", !.repair = "running"]
  ELSE [e EXCEPT !.state = "await final data"]

PassReceipt(n, t) ==
  /\ At(n, t, "consensing") /\ ~accountSeen(n, t)
  /\ entry[n][t].signedReceipt # NoProposal
  /\ Become(n, t, AfterReceipt(n, t, entry[n][t]))
  /\ Done(n, t)
  /\ UNCHANGED <<now, store, msgs>>

(* stuckTxMoveTime: long after its vote, a transaction that has none gives *)
(* up waiting for votes and waits for a receipt.                           *)
PassStuck(n, t) ==
  /\ At(n, t, "consensing")
  /\ Age(t) > StuckAge
  /\ entry[n][t].ourVote # NoProposal
  /\ MoveTo(n, t, "await final data")

(* commitConsensedTransaction: no look at the timestamps *)
PassCommit(n, t) == At(n, t, "commiting") /\ ~accountSeen(n, t) /\ Await(n, t)

(* The data of the vote is written over what the node holds. *)
MutantWithCommit(n, t) ==
  [a \in Stores[n] |-> IF a \in Keys[t] THEN store[n][a] \cup {t} ELSE store[n][a]]
WithCommit(n, t) ==
  [a \in Stores[n] |-> IF a \in Keys[t] THEN entry[n][t].ourVote.after[a] ELSE store[n][a]]

Committed(n, t) ==
  /\ Awaited(n, t, "commiting")
  /\ store' = [store EXCEPT ![n] = WithCommit(n, t)]
  /\ Become(n, t, [entry[n][t] EXCEPT !.state = "pass"])
  /\ GoOn(n, t, pass[n].seen \ Keys[t])
  /\ UNCHANGED <<now, msgs>>

(* checkAndSetAccountData: older data is not written *)
MutantSaved(held, data) ==
  [a \in DOMAIN held |-> IF a \in DOMAIN data THEN data[a] ELSE held[a]]
Saved(held, data) ==
  [a \in DOMAIN held |->
     IF a \in DOMAIN data /\ Latest(data[a]) >= Latest(held[a]) THEN data[a] ELSE held[a]]

(* What came with a receipt has its hash, so only its absence is waited for. *)
PassFinal(n, t) ==
  LET ready == entry[n][t].signedReceipt # NoProposal /\ Complete(n, t)
  IN  /\ At(n, t, "await final data") /\ ~accountSeen(n, t)
      /\ \/ ready /\ Await(n, t)
         \/ ~ready /\ MoveTo(n, t, "await final data")

SavedFinal(n, t) ==
  LET e == entry[n][t]
  IN  /\ Awaited(n, t, "await final data")
      /\ store' = [store EXCEPT ![n] = Saved(@, e.collectedFinalData)]
      /\ Become(n, t, [e EXCEPT !.state = IF e.signedReceipt.applied THEN "pass" ELSE "fail"])
      /\ Done(n, t)
      /\ UNCHANGED <<now, msgs>>

PassRepair(n, t) ==
  /\ At(n, t, "await repair")
  /\ MoveTo(n, t, CASE entry[n][t].repair = "finished" -> "pass"
                    [] entry[n][t].repair = "failed" -> "fail"
                    [] OTHER -> "await repair")

(* repairToMatchReceipt: asks the voters for the accounts of the receipt   *)
(* that are stored here; without an answer, or a receipt to match, it      *)
(* fails.                                                                  *)
Repaired(n, t) ==
  /\ entry[n][t].repair = "running"
  /\ \E p \in Answers(t) : Fits(p, entry[n][t].signedReceipt)
  /\ store' = [store EXCEPT ![n] = Saved(@, entry[n][t].signedReceipt.after)]
  /\ entry' = [entry EXCEPT ![n][t].repair = "finished"]

RepairFails(n, t) ==
  /\ entry[n][t].repair = "running"
  /\ entry' = [entry EXCEPT ![n][t].repair = "failed"]
  /\ UNCHANGED store

Repair(n, t) ==
  /\ Repaired(n, t) \/ RepairFails(n, t)
  /\ UNCHANGED <<now, pass, msgs>>

Tick ==
  /\ now < MaxClock
  /\ now' = now + 1
  /\ UNCHANGED <<store, entry, pass, msgs>>

Handle(n, t) ==
  /\ pass[n].running \/ \A u \in Tx : entry[n][u].state # "pending"
  /\ IsNext(n, t)
  /\ \/ PassBlocked(n, t) \/ PassAging(n, t) \/ PassTell(n, t)
     \/ PassNoData(n, t) \/ PassTooNew(n, t) \/ PassApply(n, t) \/ PreApplied(n, t)
     \/ PassProduce(n, t) \/ PassNoReceipt(n, t) \/ PassReceipt(n, t) \/ PassStuck(n, t)
     \/ PassCommit(n, t) \/ Committed(n, t) \/ PassFinal(n, t) \/ SavedFinal(n, t)
     \/ PassRepair(n, t)

Hear(n, m) ==
  /\ Receive(n, m)
  /\ \/ ReceiveData(n, m) \/ ReceiveVote(n, m) \/ ReceiveGossip(n, m)
     \/ ReceiveReceipt(n, m) \/ ReceiveFinal(n, m)

PassStep(n, t) == (\A m \in Node \ {n} : Resting(m)) /\ Handle(n, t)

NodeStep(n) ==
  \/ InsertPending(n)
  \/ \E m \in msgs : Hear(n, m)
  \/ \E t \in Tx : Queue(n, t) \/ RequestFinalData(n, t) \/ Repair(n, t)

Next ==
  \/ Interruptible /\ (Tick \/ \E n \in Node : NodeStep(n))
  \/ \E n \in Node, t \in Tx : PassStep(n, t)

Spec == Init /\ [][Next]_vars

(* Passes go on and what they await ends.  Between two passes, or in one   *)
(* that waits, handlers and timers get their turn, again and again.        *)
Fairness ==
  /\ SF_vars(Interruptible /\ Tick)
  /\ \A n \in Node :
       /\ SF_vars(Interruptible /\ InsertPending(n))
       /\ SF_vars(Interruptible /\ \E m \in msgs : Hear(n, m))
       /\ WF_vars(\E t \in Tx : PassStep(n, t))
       /\ \A t \in Tx : SF_vars(Interruptible /\ (RequestFinalData(n, t) \/ Repair(n, t)))

FairSpec == Spec /\ Fairness

-----------------------------------------------------------------------------
(* Properties *)

Data == SUBSET (Tx \cup Past)
States == Queued \cup Removed \cup {"none", "pending"}

IsProposal(t, p) ==
  \/ p = NoProposal
  \/ /\ DOMAIN p.before = Keys[t] /\ DOMAIN p.after = Keys[t]
     /\ \A a \in Keys[t] : p.before[a] \in Data /\ p.after[a] \in Data

(* Every record and every collection stays well formed; a transaction that *)
(* commits has its own vote as receipt, one that is repaired or that has   *)
(* passed has a receipt (processTransactions relies on both).              *)
TypeOK ==
  /\ now \in 1 .. MaxClock
  /\ \A n \in Node : store[n] \in [Stores[n] -> Data]
  /\ \A n \in Node, t \in Tx : LET e == entry[n][t] IN
       /\ e.state \in States
       /\ DOMAIN e.collected \subseteq Keys[t] /\ DOMAIN e.collectedFinalData \subseteq Keys[t]
       /\ IsProposal(t, e.ourVote) /\ IsProposal(t, e.signedReceipt)
       /\ e.state = "commiting" => e.ourVote = e.signedReceipt /\ e.ourVote # NoProposal
       /\ e.state \in {"await repair", "pass"} => e.signedReceipt # NoProposal

(* Two receipts of a transaction never differ, whatever accounts the nodes *)
(* voted from: the members of an execution group cannot be brought to      *)
(* commit different results (poqo receipts).                               *)
ReceiptsAgree ==
  \A t \in Tx : \A n, m \in Node :
    LET p == entry[n][t].signedReceipt
        q == entry[m][t].signedReceipt
    IN  p # NoProposal /\ q # NoProposal => p = q

(* The copies of an account at two nodes are two moments of one history:   *)
(* one holds all that the other holds, and what it has more is newer.  The *)
(* same is true of a copy and of what an applied receipt says.             *)
Prefix(d, e) == d \subseteq e /\ \A t \in e \ d : Stamp[t] > Latest(d)
Moments(a) ==
  {store[n][a] : n \in {m \in Node : a \in Stores[m]}}
    \cup {m.proposal.after[a] :
            m \in {k \in msgs : k.type = "receipt" /\ k.proposal.applied /\ a \in Keys[k.tx]}}
StoredInOrder ==
  \A a \in Account : \A d, e \in Moments(a) : Prefix(d, e) \/ Prefix(e, d)

(* A transaction that has passed on a node is in the accounts it stores,   *)
(* whether it was committed, saved from final data or repaired, and stays  *)
(* there: no later save puts older data in the place of newer.             *)
PassedIsStored ==
  \A n \in Node, t \in Tx : entry[n][t].state = "pass" =>
    \A a \in Keys[t] \cap Stores[n] : t \in store[n][a]

(* A transaction with a failed receipt changes no account (the application *)
(* is told transactionReceiptFail).                                        *)
FailedNotStored ==
  \A n \in Node : \A a \in Stores[n] : store[n][a] \cap Failing = {}

(* tryProduceReceipt: once all votes are counted, a majority of equal      *)
(* votes has made a receipt.                                               *)
MajorityGivesReceipt ==
  \A n \in Node, t \in Tx : LET e == entry[n][t] IN
    e.state = "consensing" /\ e.ourVote # NoProposal /\ ~e.newVotes
      /\ Cardinality(VotesFor(e.votes, e.ourVote)) >= MajorityCount(t)
    => e.signedReceipt # NoProposal

(* A node never votes while an older transaction in its queue has still to *)
(* change one of the accounts (seenAccounts): its vote would be about data *)
(* that the other nodes do not have.                                       *)
VotesInOrder ==
  [][\A n \in Node, t \in Tx : entry'[n][t].ourVote # entry[n][t].ourVote =>
       \A u \in Tx : Stamp[u] < Stamp[t] /\ Keys[u] \cap Keys[t] # {} =>
         entry[n][u].state \notin Queued]_vars

(* Every transaction leaves every queue that it reached. *)
Settles ==
  \A n \in Node, t \in Tx : entry[n][t].state \in Queued ~> entry[n][t].state \in Removed
=============================================================================
