------------------------------ MODULE Patcher ------------------------------
(***************************************************************************)
(* AccountPatcher: how nodes that store the same accounts find out, once   *)
(* per cycle, that one of them holds other data than the rest, and repair  *)
(* it. The nodes store one radix of the hash trie; its children are leaves *)
(* with one account each. The states an account takes are numbered, and a  *)
(* state stands for its data, its hash and its timestamp; 0 is none.       *)
(*                                                                         *)
(* A transaction is abstract here (Transactions has the detail): it makes  *)
(* the next state of an account, some nodes commit it when they get to it, *)
(* others know of it and fail to, and a few never hear of it.              *)
(***************************************************************************)
EXTENDS Integers, Sequences, FiniteSets, SequencesExt, Functions

CONSTANTS
  Node, Account,
  MaxState,       \* bound: states of an account
  MaxCycle,       \* bound: from this cycle on, which repeats, messages are in time
  MaxUnaware,     \* bound: nodes that never hear of a transaction
  Behind,         \* nodes that start without the accounts
  MaxApart        \* bound: older states that are left when a transaction is committed

ASSUME PatcherAssumption ==
  /\ MaxState \in Nat \ {0} /\ MaxCycle \in Nat /\ MaxUnaware \in Nat
  /\ MaxApart \in Nat /\ Behind \subseteq Node

State == 0 .. MaxState
NoHash == <<>>
NoVotes == [voters |-> {}, bestHash |-> NoHash]
Repair == [node : Node, account : Account, state : State]
Write == [node : Node, account : Account, state : State, by : {"patch", "request"}, seen : State]

VARIABLES
  cycle,
  made,        \* of each account, the cycles its states were made in
  todo,        \* transactions a node will commit: <<account, state>>
  known,       \* archivedQueueEntries: transactions a node has a receipt of
  stored,      \* the application's data
  cache,       \* accountHashCache: the newest hash of each account
  queue,       \* cacheUpdateQueue, by account: each entry is newer than the ones before
  updates,     \* accountUpdateQueue
  trie,        \* shardTrie: the leaf hashes
  phase,       \* what processPreviousCycleSummaries is at
  votes,       \* radixHashVotes: who was heard, and bestHash
  firstChoice, \* coverageMap
  bad,         \* badAccounts, then the data received for them
  requests,    \* repair_oos_accounts messages on their way
  writing      \* checked and not yet written; seen is the state it was checked against
worldVars == <<cycle, made, todo, known>>
dataVars == <<stored, cache, queue, writing>>
trieVars == <<updates, trie, votes>>
testVars == <<phase, firstChoice, bad, requests>>
vars == <<worldVars, dataVars, trieVars, testVars>>

Newest(a) == Len(made[a])
InTime == cycle = MaxCycle

-----------------------------------------------------------------------------
(* The account cache and the trie *)

(* updateAccountHash for the states new, at most one of each account: an   *)
(* older state than the newest changes nothing that is used here.          *)
Cached(n, new) ==
  /\ cache' = [cache EXCEPT ![n] = [a \in Account |-> IF new[a] > @[a] THEN new[a] ELSE @[a]]]
  /\ queue' = [queue EXCEPT ![n] = [a \in Account |->
                 IF new[a] > cache[n][a] THEN @[a] \cup {new[a]} ELSE @[a]]]

(* processCacheUpdates hands on what was made in the cycle before the last *)
(* one or earlier, in the order of the queue: what is due last counts.     *)
Due(n, a) == {s \in queue[n][a] : made[a][s] < cycle}
MutantNewHash(n, a) == IF Due(n, a) = {} THEN updates[n][a] ELSE Min(Due(n, a))
NewHash(n, a) == IF Due(n, a) = {} THEN updates[n][a] ELSE Max(Due(n, a))

(* upateShardTrie *)
UpdatedTrie(n) ==
  [a \in Account |-> IF NewHash(n, a) = 0 THEN trie[n][a] ELSE NewHash(n, a)]

-----------------------------------------------------------------------------
Init ==
  /\ cycle = 0
  /\ made = [a \in Account |-> <<0>>]
  /\ todo = [n \in Node |-> {}]
  /\ stored = [n \in Node |-> [a \in Account |-> IF n \in Behind THEN 0 ELSE 1]]
  /\ known = [n \in Node |-> {<<a, 1>> : a \in {b \in Account : stored[n][b] = 1}}]
  /\ cache = stored
  /\ queue = [n \in Node |-> [a \in Account |-> {}]]
  /\ updates = [n \in Node |-> [a \in Account |-> 0]]
  /\ trie = stored
  /\ phase = [n \in Node |-> "waiting"]
  /\ votes = [n \in Node |-> NoVotes]
  /\ firstChoice = [n \in Node |-> n]
  /\ bad = [n \in Node |-> {}]
  /\ requests = {}
  /\ writing = {}

(* A transaction: the nodes that do not commit it either have it in their  *)
(* archive or never hear of it.                                            *)
Transaction(a, aware, committers) ==
  /\ cycle + 2 <= MaxCycle
  /\ Newest(a) < MaxState
  /\ committers # {}
  /\ Cardinality(Node \ aware) <= MaxUnaware
  /\ Cardinality({stored[n][a] : n \in Node \ committers}) <= MaxApart
  /\ made' = [made EXCEPT ![a] = Append(@, cycle)]
  /\ todo' = [n \in Node |->
                IF n \in committers THEN todo[n] \cup {<<a, Newest(a) + 1>>} ELSE todo[n]]
  /\ known' = [n \in Node |-> IF n \in aware THEN known[n] \cup {<<a, Newest(a) + 1>>} ELSE known[n]]
  /\ UNCHANGED <<cycle, dataVars, trieVars, testVars>>

(* Commits of an account happen in order; one whose account is newer by    *)
(* then is dropped.                                                        *)
Commit(n, x) ==
  /\ \A y \in todo[n] : y[1] = x[1] => x[2] <= y[2]
  /\ todo' = [todo EXCEPT ![n] = @ \ {x}]
  /\ IF x[2] > cache[n][x[1]]
     THEN /\ stored' = [stored EXCEPT ![n][x[1]] = x[2]]
          /\ Cached(n, [a \in Account |-> IF a = x[1] THEN x[2] ELSE 0])
     ELSE UNCHANGED <<stored, cache, queue>>
  /\ UNCHANGED <<cycle, made, known, writing, trieVars, testVars>>

(* The summaries of the last cycle: the trie takes the updates, and the    *)
(* node tells every other one its hash of the radix (broadcastSyncHashes). *)
(* What it tells is its trie, which then stays as it is for the cycle.     *)
Report(n) ==
  /\ phase[n] = "waiting"
  /\ phase' = [phase EXCEPT ![n] = "reported"]
  /\ trie' = [trie EXCEPT ![n] = UpdatedTrie(n)]
  /\ updates' = [updates EXCEPT ![n] = [a \in Account |-> 0]]
  /\ queue' = [queue EXCEPT ![n] = [a \in Account |-> @[a] \ Due(n, a)]]
  /\ UNCHANGED <<worldVars, stored, cache, writing, votes, firstChoice, bad, requests>>

-----------------------------------------------------------------------------
(* testAndPatchAccounts, ten seconds after the report *)

(* binary_sync_trie_hashes, for the hashes in the order they arrive: the   *)
(* first is the best until another one has more votes. The order and who   *)
(* is heard at all by the time of the test is free.                        *)
VotersIn(voters, hash) == {m \in voters : trie[m] = hash}
Heard(order) ==
  LET same(k, hash) == Cardinality(VotersIn({order[i] : i \in 1 .. k}, hash))
      best[k \in 0 .. Len(order)] ==
        IF k = 0 THEN NoHash
        ELSE LET hash == trie[order[k]]
             IN IF best[k - 1] = NoHash \/ same(k, hash) > same(k, best[k - 1])
                THEN hash ELSE best[k - 1]
  IN [voters |-> {order[i] : i \in DOMAIN order}, bestHash |-> best[Len(order)]]

Arrivals(n) ==
  LET others == {m \in Node \ {n} : phase[m] # "waiting"}
      orders(k) == {s \in [1 .. k -> others] : IsInjective(s)}
      lengths == IF InTime THEN {Cardinality(Node) - 1} ELSE 0 .. Cardinality(others)
  IN UNION {orders(k) : k \in lengths}
Tallies(n) == {Heard(order) : order \in Arrivals(n)}

Voters(n) == VotersIn(votes[n].voters, votes[n].bestHash)

Finish(n) ==
  /\ phase' = [phase EXCEPT ![n] = "done"]
  /\ votes' = [votes EXCEPT ![n] = NoVotes]
  /\ firstChoice' = [firstChoice EXCEPT ![n] = n]

(* diffConsenus and findExtraBadKeys between our trie and that of m        *)
ToFix(n, m) == {a \in Account : trie[m][a] # 0 /\ trie[m][a] # trie[n][a]}
ExtraBadKeys(n, m) ==
  IF ToFix(n, m) = {} THEN {a \in Account : trie[m][a] = 0 /\ trie[n][a] # 0} ELSE {}

(* requestOtherNodesToRepair: what we hold must be what we think, with a   *)
(* receipt for it.                                                         *)
MutantRequest(n, m, a, hash) ==
  IF stored[n][a] = hash /\ <<a, hash>> \in known[n]
  THEN {[node |-> n, account |-> a, state |-> hash]} ELSE {}
Request(n, m, a, hash) ==
  IF stored[n][a] = hash /\ <<a, hash>> \in known[n]
  THEN {[node |-> m, account |-> a, state |-> hash]} ELSE {}

(* findBadAccounts: the leaves that differ are bad unless the cache, which *)
(* is ahead of the trie, has the hash of the other node already.           *)
FindBadAccounts(n, m, tally) ==
  /\ LET cachedIt == {a \in ToFix(n, m) : trie[n][a] # 0 /\ cache[n][a] = trie[m][a]}
         recent == {a \in cachedIt : made[a][cache[n][a]] >= cycle - 1}
     IN /\ bad' = [bad EXCEPT ![n] = {<<a, trie[m][a]>> : a \in ToFix(n, m) \ cachedIt}]
        /\ updates' = [updates EXCEPT ![n] = [a \in Account |->
                         IF a \in cachedIt \ recent THEN cache[n][a] ELSE @[a]]]
        /\ requests' = requests \cup
             UNION {Request(n, m, a, trie[n][a]) : a \in ExtraBadKeys(n, m)}
        /\ IF bad'[n] = {} THEN Finish(n)
           ELSE /\ phase' = [phase EXCEPT ![n] = "fetch"]
                /\ votes' = [votes EXCEPT ![n] = tally]
                /\ firstChoice' = [firstChoice EXCEPT ![n] = m]

(* isInSync; else computeCoverage shuffles the voters of the best hash and *)
(* the first of them tells its accounts. (Nothing the vote depends on      *)
(* changes until they are compared, so this is one step.)                  *)
InSync(n, tally) == tally.bestHash \in {NoHash, trie[n]}
Test(n) ==
  /\ phase[n] = "reported"
  /\ \E tally \in Tallies(n) : InSync(n, tally)
  /\ Finish(n)
  /\ UNCHANGED <<worldVars, dataVars, updates, trie, bad, requests>>
Compare(n, m) ==
  /\ phase[n] = "reported"
  /\ \E tally \in Tallies(n) :
       /\ ~InSync(n, tally) /\ m \in VotersIn(tally.voters, tally.bestHash)
       /\ FindBadAccounts(n, m, tally)
  /\ UNCHANGED <<worldVars, dataVars, trie>>

(* Nobody answers in time: nothing is repaired in this cycle.              *)
NoAnswer(n) ==
  /\ phase[n] \in {"reported", "fetch"} /\ ~InTime
  /\ Finish(n)
  /\ bad' = [bad EXCEPT ![n] = {}]
  /\ UNCHANGED <<worldVars, dataVars, updates, trie, requests>>

(* getAccountRepairData asks the next voter, not the first choice, which   *)
(* returns the accounts whose data has the hash asked for. What is older   *)
(* than our own is not used: its node is asked to repair it.               *)
Fetch(n, m) ==
  /\ phase[n] = "fetch"
  /\ m \in Voters(n) \ {firstChoice[n]}
  /\ LET received == {x \in bad[n] : stored[m][x[1]] = x[2]}
         tooOld == {x \in received : x[2] < cache[n][x[1]]}
     IN /\ bad' = [bad EXCEPT ![n] = {x \in received : x[2] > cache[n][x[1]]}]
        /\ requests' = requests \cup
             UNION {Request(n, m, x[1], cache[n][x[1]]) : x \in tooOld}
        /\ IF bad'[n] = {} THEN Finish(n)
           ELSE /\ phase' = [phase EXCEPT ![n] = "check"]
                /\ UNCHANGED <<votes, firstChoice>>
  /\ UNCHANGED <<worldVars, dataVars, updates, trie>>

NobodyToAsk(n) ==
  /\ phase[n] = "fetch"
  /\ Voters(n) = {firstChoice[n]}
  /\ Finish(n)
  /\ bad' = [bad EXCEPT ![n] = {}]
  /\ UNCHANGED <<worldVars, dataVars, updates, trie, requests>>

(* checkAndSetAccountData: the check against the cache, and, after the     *)
(* application was asked for its data, the write.  No lock is taken: the   *)
(* account may have been committed or repaired in between.                 *)
MutantNotOlder(n, x) == x[2] > 0
NotOlder(n, x) == x[2] >= cache[n][x[1]]
Pending(n, by, S) ==
  {[node |-> n, account |-> x[1], state |-> x[2], by |-> by, seen |-> cache[n][x[1]]] : x \in S}

Check(n) ==
  /\ phase[n] = "check"
  /\ writing' = writing \cup Pending(n, "patch", {x \in bad[n] : NotOlder(n, x)})
  /\ bad' = [bad EXCEPT ![n] = {}]
  /\ phase' = [phase EXCEPT ![n] = "write"]
  /\ UNCHANGED <<worldVars, stored, cache, queue, trieVars, firstChoice, requests>>

Written(n, S) ==
  LET new == [a \in Account |-> IF \E w \in S : w.account = a
                                THEN (CHOOSE w \in S : w.account = a).state ELSE 0]
  IN /\ stored' = [stored EXCEPT ![n] = [a \in Account |-> IF new[a] = 0 THEN @[a] ELSE new[a]]]
     /\ Cached(n, new)
     /\ writing' = writing \ S

Patch(n) ==
  /\ phase[n] = "write"
  /\ Written(n, {w \in writing : w.node = n /\ w.by = "patch"})
  /\ Finish(n)
  /\ UNCHANGED <<worldVars, updates, trie, bad, requests>>

-----------------------------------------------------------------------------
(* binary_repair_oos_accounts *)

(* A request is refused by a node that has the state or a newer one, and   *)
(* by one that has no archived entry of its transaction; else the node     *)
(* asks the others for the receipt and checks again before it writes.      *)
HandleRequest(r) ==
  /\ requests' = requests \ {r}
  /\ writing' = writing \cup Pending(r.node, "request",
       {x \in {<<r.account, r.state>>} : x[2] > cache[r.node][r.account] /\ x \in known[r.node]})
  /\ UNCHANGED <<worldVars, stored, cache, queue, trieVars, phase, firstChoice, bad>>

WriteRepair(w) ==
  /\ w \in writing /\ w.by = "request"
  /\ Written(w.node, {w})
  /\ UNCHANGED <<worldVars, trieVars, testVars>>

-----------------------------------------------------------------------------
(* Bound: a cycle, a minute long, ends when its repairs have.              *)
Tick ==
  /\ \A n \in Node : phase[n] = "done"
  /\ requests = {} /\ writing = {}
  /\ cycle' = IF InTime THEN cycle ELSE cycle + 1
  /\ phase' = [n \in Node |-> "waiting"]
  /\ UNCHANGED <<made, todo, known, dataVars, trieVars, firstChoice, bad, requests>>

FetchFrom(n) == \E m \in Node : Fetch(n, m)
PatchStep(n) ==
  \/ Report(n) \/ Test(n) \/ \E m \in Node : Compare(n, m)
  \/ FetchFrom(n) \/ NobodyToAsk(n) \/ Check(n) \/ Patch(n)
CommitNext(n) == \E x \in todo[n] : Commit(n, x)
HandleNext(n) == \E r \in requests : r.node = n /\ HandleRequest(r)
WriteNext(n) == \E w \in writing : w.node = n /\ WriteRepair(w)

Work ==
  \/ \E n \in Node : PatchStep(n) \/ HandleNext(n) \/ WriteNext(n)
  \/ Tick
Next ==
  \/ \E a \in Account, aware \in SUBSET Node : \E committers \in SUBSET aware : Transaction(a, aware, committers)
  \/ \E n \in Node : NoAnswer(n) \/ CommitNext(n)
  \/ Work

Spec == Init /\ [][Next]_vars

(* In the last cycle, which repeats, the hashes of the others arrive in    *)
(* time and who is asked answers; as a cycle ends only when all is done,   *)
(* no node is kept waiting. Each voter comes first in the shuffle of       *)
(* computeCoverage again and again.                                        *)
Fairness ==
  /\ WF_vars(Work)
  /\ \A n \in Node : WF_vars(CommitNext(n)) /\ \A m \in Node \ {n} : SF_vars(Compare(n, m))
FairSpec == Spec /\ Fairness

-----------------------------------------------------------------------------
TypeOK ==
  /\ cycle \in 0 .. MaxCycle
  /\ made \in [Account -> Seq(0 .. MaxCycle)]
  /\ \A n \in Node : todo[n] \cup known[n] \subseteq Account \X State
  /\ {stored, cache, updates, trie} \subseteq [Node -> [Account -> State]]
  /\ queue \in [Node -> [Account -> SUBSET State]]
  /\ phase \in [Node -> {"waiting", "reported", "fetch", "check", "write", "done"}]
  /\ \A n \in Node : votes[n].voters \subseteq Node \ {n}
  /\ firstChoice \in [Node -> Node]
  /\ \A n \in Node : bad[n] \subseteq Account \X (State \ {0})
  /\ requests \subseteq Repair
  /\ writing \subseteq Write

(* The newest hash of an account in a node's cache is in its trie, or gets *)
(* there in a later cycle: otherwise the node would go on reporting a hash *)
(* that is not its data's, and the others would repair what is right or    *)
(* leave what is wrong (AccountCache.ts:291-355, AccountPatcher.ts:1747).  *)
TrieKeepsUp ==
  /\ TypeOK
  /\ \A n \in Node, a \in Account :
       cache[n][a] \in {trie[n][a], updates[n][a]} \cup queue[n][a]

(* A repair never puts back an older state of an account: index.ts:1145    *)
(* says of an account older than the cache that it "need[s] to skip the    *)
(* writing".                                                               *)
NoRollback == [][\A n \in Node, a \in Account : stored'[n][a] >= stored[n][a]]_vars

(* What does hold of that: a node's data of an account goes back only by a *)
(* repair that was overtaken.  It is no older than the state the node had  *)
(* when the repair was checked (index.ts:1133-1145), and a newer one was   *)
(* written between that check and the write.  No commit takes data back,   *)
(* and no repair that nothing came between.                                *)
Overtaken(w) ==
  /\ w.seen <= stored'[w.node][w.account]
  /\ w.seen < cache[w.node][w.account]
OnlyOvertaken ==
  [][\A n \in Node, a \in Account : stored'[n][a] < stored[n][a] =>
       \E w \in writing \ writing' : w.node = n /\ w.account = a /\ Overtaken(w)]_vars

(* When transactions stop, every node comes to store the newest state,     *)
(* unless some node's data went back, which the hash in its cache hides.   *)
WentBack == \E n \in Node, a \in Account : stored[n][a] < cache[n][a]
Converges == <>WentBack \/ <>[](\A n \in Node, a \in Account : stored[n][a] = Newest(a))
=============================================================================
