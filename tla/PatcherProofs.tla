--------------------------- MODULE PatcherProofs ---------------------------
(***************************************************************************)
(* Two properties of Patcher for any nodes, accounts and bounds.  The trie *)
(* keeps up (TrieKeepsUp): what waits in the queue of an account is no     *)
(* newer than its cached state, which is last; when nothing waits, the     *)
(* cached state is in the trie or is the update to come.  Data goes back   *)
(* only by a repair that was overtaken (OnlyOvertaken): a node's data is   *)
(* never newer than its cached state, and a repair never older than the    *)
(* state it was checked against.                                           *)
(***************************************************************************)
EXTENDS Patcher, SequenceTheorems, WellFoundedInduction, TLAPS

(* The states an account has had so far, with their accounts.              *)
Made == {x \in Account \X Nat : x[2] \in 1 .. Newest(x[1])}
Reference == {r \in [node : Node, account : Account, state : Nat] : <<r.account, r.state>> \in Made}
PendingWrite ==
  {w \in [node : Node, account : Account, state : Nat, by : {"patch", "request"}, seen : Nat] :
     <<w.account, w.state>> \in Made /\ w.seen <= Newest(w.account)}

(* States are made in the order of the cycles.                             *)
WorldOK ==
  /\ cycle \in 0 .. MaxCycle
  /\ made \in [Account -> Seq(0 .. MaxCycle)]
  /\ \A a \in Account :
       /\ Newest(a) \in 1 .. MaxState
       /\ \A i \in 1 .. Newest(a) : made[a][i] <= cycle
       /\ \A i, j \in 1 .. Newest(a) : i <= j => made[a][i] <= made[a][j]
  /\ todo \in [Node -> SUBSET Made] /\ known \in [Node -> SUBSET Made]

StatesOf == [Node -> [Account -> Nat]]
UpToDate(s) == \A n \in Node, a \in Account : s[n][a] <= Newest(a)

(* What a node reports of an account is its cached state, or that is still *)
(* to come: the newest that waits in the queue, or else the update.        *)
KeepsUp(n, a) ==
  /\ queue[n][a] \subseteq 1 .. cache[n][a]
  /\ IF queue[n][a] = {}
     THEN \/ updates[n][a] = 0 /\ trie[n][a] = cache[n][a]
          \/ updates[n][a] # 0 /\ updates[n][a] = cache[n][a]
     ELSE cache[n][a] \in queue[n][a]

DataOK ==
  /\ stored \in StatesOf /\ cache \in StatesOf /\ updates \in StatesOf /\ trie \in StatesOf
  /\ queue \in [Node -> [Account -> SUBSET Nat]]
  /\ UpToDate(stored) /\ UpToDate(cache) /\ UpToDate(updates) /\ UpToDate(trie)
  /\ \A n \in Node, a \in Account : KeepsUp(n, a)

RepairOK ==
  /\ phase \in [Node -> {"waiting", "reported", "fetch", "check", "write", "done"}]
  /\ DOMAIN votes = Node /\ \A n \in Node : votes[n].voters \subseteq Node \ {n}
  /\ firstChoice \in [Node -> Node]
  /\ bad \in [Node -> SUBSET Made]
  /\ requests \subseteq Reference
  /\ writing \subseteq PendingWrite

PatcherInv == WorldOK /\ DataOK /\ RepairOK

(* The cache of a node is not behind its data, and a repair that was let   *)
(* through is not older than what the cache had then.                      *)
RepairInv ==
  /\ \A n \in Node, a \in Account : stored[n][a] <= cache[n][a]
  /\ \A w \in writing : w.seen <= w.state

-----------------------------------------------------------------------------
LEMMA LeastExists ==
  ASSUME NEW T \in SUBSET Nat, T # {}
  PROVE  \E x \in T : \A y \in T : x <= y
<1> DEFINE R == {ss \in Nat \X Nat : ss[1] < ss[2]}
<1>1. \A x, y \in Nat : x < y => <<x, y>> \in R
  OBVIOUS
<1>2. IsWellFoundedOn(R, Nat)
  BY NatLessThanWellFounded, Zenon DEF OpToRel
<1> HIDE DEF R
<1>3. PICK x \in T : \A y \in T : ~(<<y, x>> \in R)
  BY <1>2, WFMin
<1>4. ASSUME NEW y \in T PROVE x <= y
  <2>1. x \in Nat /\ y \in Nat /\ ~(y < x)
    BY <1>1, <1>3
  <2> QED
    BY <2>1
<1> QED
  BY <1>4

(* A set of numbers up to c has a greatest one.                            *)
LEMMA MaxGreatest ==
  ASSUME NEW c \in Nat, NEW T \in SUBSET (1 .. c), T # {}
  PROVE  Max(T) \in T /\ \A j \in T : j <= Max(T)
<1> DEFINE U == {c - j : j \in T}
<1>1. U \in SUBSET Nat /\ U # {}
  <2>1. \A j \in T : j \in Nat /\ j <= c /\ c - j \in Nat
    OBVIOUS
  <2> QED
    BY <2>1
<1>2. PICK x \in U : \A y \in U : x <= y
  <2> HIDE DEF U
  <2> QED
    BY <1>1, LeastExists
<1>3. PICK z \in T : x = c - z
  OBVIOUS
<1>4. \A j \in T : z >= j
  BY <1>1, <1>2, <1>3
<1>5. \E y \in T : \A j \in T : y >= j
  BY <1>4
<1> QED
  BY <1>5 DEF Max

LEMMA MaxIs ==
  ASSUME NEW c \in Nat, NEW T \in SUBSET (1 .. c), c \in T
  PROVE  Max(T) = c
<1>1. Max(T) \in T /\ c <= Max(T)
  BY MaxGreatest
<1>2. Max(T) \in 1 .. c
  BY <1>1
<1> QED
  BY <1>1, <1>2

-----------------------------------------------------------------------------
LEMMA InitOK == Init => PatcherInv /\ RepairInv
<1> SUFFICES ASSUME Init PROVE PatcherInv /\ RepairInv
  OBVIOUS
<1> USE PatcherAssumption
<1>1. \A a \in Account : made[a] = <<0>> /\ Newest(a) = 1
  BY DEF Init, Newest
<1>2. WorldOK
  <2>1. \A n \in Node : known[n] \in SUBSET Made
    BY <1>1 DEF Init, Made
  <2>2. made \in [Account -> Seq(0 .. MaxCycle)]
    BY DEF Init
  <2>3. todo \in [Node -> SUBSET Made] /\ known \in [Node -> SUBSET Made]
    BY <2>1 DEF Init
  <2>4. \A a \in Account : Newest(a) \in 1 .. MaxState
    BY <1>1
  <2>5. \A a \in Account : \A i \in 1 .. Newest(a) : made[a][i] = 0
    BY <1>1
  <2> QED
    BY <2>2, <2>3, <2>4, <2>5 DEF Init, WorldOK
<1>3. DataOK
  <2>1. stored \in StatesOf /\ cache \in StatesOf /\ updates \in StatesOf /\ trie \in StatesOf
    BY DEF Init, StatesOf
  <2>2. queue \in [Node -> [Account -> SUBSET Nat]]
    BY DEF Init
  <2>3. UpToDate(stored) /\ UpToDate(cache) /\ UpToDate(updates) /\ UpToDate(trie)
    BY <1>1 DEF Init, UpToDate
  <2>4. \A n \in Node, a \in Account : KeepsUp(n, a)
    BY DEF Init, KeepsUp
  <2> QED
    BY <2>1, <2>2, <2>3, <2>4 DEF DataOK
<1>4. RepairOK
  BY DEF Init, RepairOK, NoVotes
<1>5. RepairInv
  BY DEF Init, RepairInv
<1> QED
  BY <1>2, <1>3, <1>4, <1>5 DEF PatcherInv

-----------------------------------------------------------------------------
(* What a step leaves alone stays as it was.                               *)
LEMMA MadeKept ==
  ASSUME made' = made
  PROVE  /\ Made' = Made /\ Reference' = Reference /\ PendingWrite' = PendingWrite
         /\ \A a \in Account : Newest(a)' = Newest(a)
BY DEF Made, Reference, PendingWrite, Newest

LEMMA WorldKept ==
  ASSUME WorldOK, UNCHANGED <<cycle, made, known>>, todo' \in [Node -> SUBSET Made]
  PROVE  WorldOK'
BY MadeKept DEF WorldOK, Newest

LEMMA DataKept ==
  ASSUME DataOK, UNCHANGED <<made, stored, cache, queue, updates, trie>>
  PROVE  DataOK'
BY DEF DataOK, UpToDate, Newest, KeepsUp

LEMMA RepairKept ==
  ASSUME RepairOK, UNCHANGED <<made, testVars, votes, writing>>
  PROVE  RepairOK'
BY MadeKept DEF RepairOK, testVars

LEMMA MadeIn ==
  ASSUME WorldOK, NEW a \in Account, NEW i \in 1 .. Newest(a)
  PROVE  made[a][i] \in Nat
<1>1. made[a] \in Seq(0 .. MaxCycle) /\ i \in 1 .. Len(made[a])
  BY DEF WorldOK, Newest
<1>2. made[a][i] \in 0 .. MaxCycle
  BY <1>1, ElementOfSeq
<1> QED
  BY PatcherAssumption, <1>2

LEMMA MadePair ==
  ASSUME WorldOK, NEW a, NEW s
  PROVE  <<a, s>> \in Made <=> a \in Account /\ s \in 1 .. Newest(a)
<1>1. \A b \in Account : 1 .. Newest(b) \subseteq Nat
  BY DEF WorldOK
<1> QED
  BY <1>1 DEF Made

LEMMA PendingState ==
  ASSUME WorldOK, NEW w \in PendingWrite
  PROVE  /\ w.node \in Node /\ w.account \in Account /\ w.state \in Nat /\ w.state # 0
         /\ w.state <= Newest(w.account)
<1>1. <<w.account, w.state>> \in Made /\ w.node \in Node /\ w.state \in Nat
  BY DEF PendingWrite
<1>2. w.account \in Account /\ w.state \in 1 .. Newest(w.account) /\ Newest(w.account) \in Nat
  BY <1>1, MadePair DEF WorldOK
<1> QED
  BY <1>1, <1>2

-----------------------------------------------------------------------------
(* What updateAccountHash does to the cache and the queue of an account.   *)
LEMMA CachedValues ==
  ASSUME DataOK, NEW n \in Node, NEW new \in [Account -> Nat], Cached(n, new),
         NEW m \in Node, NEW a \in Account
  PROVE  IF m = n /\ new[a] > cache[n][a]
         THEN cache'[m][a] = new[a] /\ queue'[m][a] = queue[m][a] \cup {new[a]}
         ELSE cache'[m][a] = cache[m][a] /\ queue'[m][a] = queue[m][a]
BY DEF DataOK, StatesOf, Cached

LEMMA CachedShape ==
  ASSUME DataOK, NEW n \in Node, NEW new \in [Account -> Nat], Cached(n, new)
  PROVE  cache' \in StatesOf /\ queue' \in [Node -> [Account -> SUBSET Nat]]
BY DEF DataOK, StatesOf, Cached

LEMMA CachedOK ==
  ASSUME DataOK, NEW n \in Node, NEW new \in [Account -> Nat], Cached(n, new),
         \A a \in Account : new[a] <= Newest(a),
         UNCHANGED <<made, updates, trie>>,
         stored' \in StatesOf, \A m \in Node, a \in Account : stored'[m][a] <= Newest(a)
  PROVE  DataOK'
<1>1. cache' \in StatesOf /\ queue' \in [Node -> [Account -> SUBSET Nat]]
  BY CachedShape
<1>2. \A a \in Account : Newest(a)' = Newest(a)
  BY MadeKept
<1>3. UpToDate(cache)'
  BY <1>2, CachedValues DEF DataOK, UpToDate
<1>4. UpToDate(stored)' /\ UpToDate(updates)' /\ UpToDate(trie)'
  BY <1>2 DEF DataOK, UpToDate
<1>5. ASSUME NEW m \in Node, NEW a \in Account PROVE KeepsUp(m, a)'
  <2>1. KeepsUp(m, a) /\ cache[m][a] \in Nat /\ new[a] \in Nat
    BY DEF DataOK, StatesOf
  <2>2. CASE m = n /\ new[a] > cache[n][a]
    BY <2>1, <2>2, CachedValues DEF KeepsUp
  <2>3. CASE ~(m = n /\ new[a] > cache[n][a])
    <3>1. cache'[m][a] = cache[m][a] /\ queue'[m][a] = queue[m][a]
      BY <2>3, CachedValues
    <3> QED
      BY <2>1, <3>1 DEF KeepsUp
  <2> QED
    BY <2>2, <2>3
<1> QED
  BY <1>1, <1>3, <1>4, <1>5 DEF DataOK

(* The data that Written writes: of each account that S has, one state.    *)
New(S) == [a \in Account |-> IF \E w \in S : w.account = a
                             THEN (CHOOSE w \in S : w.account = a).state ELSE 0]

LEMMA NewValues ==
  ASSUME NEW S \in SUBSET PendingWrite, NEW a \in Account
  PROVE  IF \E w \in S : w.account = a
         THEN \E w \in S : w.account = a /\ New(S)[a] = w.state
         ELSE New(S)[a] = 0
<1>1. CASE \E w \in S : w.account = a
  <2> DEFINE v == CHOOSE w \in S : w.account = a
  <2>1. v \in S /\ v.account = a
    BY <1>1
  <2>2. New(S)[a] = v.state
    BY <1>1 DEF New
  <2> HIDE DEF v
  <2> QED
    BY <1>1, <2>1, <2>2
<1>2. CASE ~\E w \in S : w.account = a
  BY <1>2 DEF New
<1> QED
  BY <1>1, <1>2

LEMMA WrittenOK ==
  ASSUME WorldOK, DataOK, RepairOK, NEW n \in Node, NEW S \in SUBSET writing, Written(n, S),
         UNCHANGED <<made, updates, trie>>
  PROVE  DataOK'
<1>1. S \in SUBSET PendingWrite
  BY DEF RepairOK
<1>2. \A a \in Account : New(S)[a] \in Nat /\ New(S)[a] <= Newest(a)
  <2> SUFFICES ASSUME NEW a \in Account PROVE New(S)[a] \in Nat /\ New(S)[a] <= Newest(a)
    OBVIOUS
  <2>1. Newest(a) \in Nat
    BY DEF WorldOK
  <2>2. \A w \in S : w.account = a => w.state \in Nat /\ w.state <= Newest(a)
    BY <1>1, PendingState
  <2>3. New(S)[a] = 0 \/ \E w \in S : w.account = a /\ New(S)[a] = w.state
    BY <1>1, NewValues
  <2>4. ASSUME NEW w \in S, w.account = a, New(S)[a] = w.state
        PROVE  New(S)[a] \in Nat /\ New(S)[a] <= Newest(a)
    BY <2>2, <2>4
  <2>5. CASE New(S)[a] = 0
    BY <2>1, <2>5
  <2> QED
    BY <2>3, <2>4, <2>5
<1>3. New(S) \in [Account -> Nat]
  BY <1>2 DEF New
<1>4. Cached(n, New(S))
  BY DEF Written, New
<1>5. stored' = [stored EXCEPT ![n] = [a \in Account |-> IF New(S)[a] = 0 THEN @[a] ELSE New(S)[a]]]
  BY DEF Written, New
<1>6. stored' \in StatesOf /\ \A m \in Node, a \in Account : stored'[m][a] <= Newest(a)
  BY <1>2, <1>5 DEF DataOK, StatesOf, UpToDate
<1> QED
  BY <1>2, <1>3, <1>4, <1>6, CachedOK

-----------------------------------------------------------------------------
(* The steps                                                               *)
LEMMA TransactionOK ==
  ASSUME PatcherInv, NEW a \in Account, NEW aware \in SUBSET Node,
         NEW committers \in SUBSET aware, Transaction(a, aware, committers)
  PROVE  PatcherInv'
<1> USE PatcherAssumption DEF PatcherInv
<1> DEFINE x == <<a, Newest(a) + 1>>
<1>1. made' = [made EXCEPT ![a] = Append(@, cycle)] /\ UNCHANGED <<cycle, dataVars, trieVars, testVars>>
  BY DEF Transaction
<1>2. \A b \in Account : made[b] \in Seq(0 .. MaxCycle) /\ Newest(b) \in Nat
  BY DEF WorldOK, Newest
<1>3. made' \in [Account -> Seq(0 .. MaxCycle)]
  <2>1. made \in [Account -> Seq(0 .. MaxCycle)] /\ cycle \in 0 .. MaxCycle
    BY DEF WorldOK
  <2>2. Append(made[a], cycle) \in Seq(0 .. MaxCycle)
    BY <2>1
  <2> QED
    BY <1>1, <2>1, <2>2
<1>4. \A b \in Account : Newest(b)' = IF b = a THEN Newest(b) + 1 ELSE Newest(b)
  BY <1>1, <1>2 DEF WorldOK, Newest
<1>5. ASSUME NEW y \in Made PROVE y \in Made'
  <2>1. y \in Account \X Nat /\ y[1] \in Account /\ y[2] \in 1 .. Newest(y[1])
    BY DEF Made
  <2>2. Newest(y[1]) \in Nat /\ Newest(y[1])' \in {Newest(y[1]), Newest(y[1]) + 1}
    BY <1>2, <1>4, <2>1
  <2>3. y[2] \in 1 .. Newest(y[1])'
    BY <2>1, <2>2
  <2> QED
    BY <2>1, <2>3 DEF Made
<1>6. x \in Made'
  BY <1>2, <1>4 DEF Made
<1>7. todo' \in [Node -> SUBSET Made'] /\ known' \in [Node -> SUBSET Made']
  <2> HIDE DEF x
  <2>1. /\ todo' = [n \in Node |-> IF n \in committers THEN todo[n] \cup {x} ELSE todo[n]]
        /\ known' = [n \in Node |-> IF n \in aware THEN known[n] \cup {x} ELSE known[n]]
    BY DEF Transaction, x
  <2>2. \A n \in Node : todo[n] \subseteq Made' /\ known[n] \subseteq Made'
    BY <1>5 DEF WorldOK
  <2>3. \A n \in Node : todo'[n] \subseteq Made' /\ known'[n] \subseteq Made'
    BY <1>6, <2>1, <2>2
  <2> QED
    BY <2>1, <2>3
<1>8. ASSUME NEW b \in Account
      PROVE  /\ Newest(b)' \in 1 .. MaxState
             /\ \A i \in 1 .. Newest(b)' : made'[b][i] <= cycle'
             /\ \A i, j \in 1 .. Newest(b)' : i <= j => made'[b][i] <= made'[b][j]
  <2>1. Newest(b) \in 1 .. MaxState /\ \A i \in 1 .. Newest(b) : made[b][i] \in Int /\ made[b][i] <= cycle
    BY <1>2 DEF WorldOK, Newest
  <2>2. \A i, j \in 1 .. Newest(b) : i <= j => made[b][i] <= made[b][j]
    BY DEF WorldOK
  <2>3. cycle \in Int /\ cycle' = cycle
    BY <1>1 DEF WorldOK
  <2>4. CASE b # a
    BY <1>1, <1>4, <2>1, <2>2, <2>3, <2>4 DEF WorldOK
  <2>5. CASE b = a
    <3>1. made'[b] = Append(made[b], cycle) /\ Newest(b)' = Newest(b) + 1
      BY <1>1, <1>4, <2>5 DEF WorldOK
    <3>2. Newest(b) < MaxState
      BY <2>5 DEF Transaction
    <3>3. \A i \in 1 .. Newest(b)' : made'[b][i] = IF i = Newest(b)' THEN cycle ELSE made[b][i]
      BY <1>2, <2>1, <3>1 DEF Newest
    <3>4. \A i \in 1 .. Newest(b)' : i # Newest(b)' => i \in 1 .. Newest(b)
      BY <2>1, <3>1
    <3>5. \A i \in 1 .. Newest(b)' : made'[b][i] <= cycle
      BY <2>1, <2>3, <3>3, <3>4
    <3>6. ASSUME NEW i \in 1 .. Newest(b)', NEW j \in 1 .. Newest(b)', i <= j
          PROVE  made'[b][i] <= made'[b][j]
      <4>1. CASE j = Newest(b)'
        BY <3>3, <3>5, <4>1
      <4>2. CASE j # Newest(b)'
        <5>1. j \in 1 .. Newest(b) /\ i \in 1 .. Newest(b)
          BY <2>1, <3>1, <3>6, <4>2
        <5>2. i # Newest(b)' /\ made'[b][i] = made[b][i] /\ made'[b][j] = made[b][j]
          <6>1. i # Newest(b)' /\ j # Newest(b)'
            BY <2>1, <3>1, <5>1
          <6> QED
            BY <3>3, <6>1
        <5> QED
          BY <2>2, <3>6, <5>1, <5>2
      <4> QED
        BY <4>1, <4>2
    <3>7. Newest(b)' \in 1 .. MaxState
      BY <2>1, <3>1, <3>2
    <3> QED
      BY <2>3, <3>5, <3>6, <3>7
  <2> QED
    BY <2>4, <2>5
<1>9. WorldOK'
  BY <1>1, <1>3, <1>7, <1>8 DEF WorldOK
<1>10. DataOK'
  <2>1. \A b \in Account : Newest(b)' >= Newest(b) /\ Newest(b)' \in Nat
    BY <1>2, <1>4
  <2>2. ASSUME NEW s \in StatesOf, UpToDate(s)
        PROVE  \A n \in Node, b \in Account : s[n][b] <= Newest(b)'
    BY <1>2, <2>1, <2>2 DEF StatesOf, UpToDate
  <2>3. UNCHANGED <<stored, cache, queue, updates, trie>>
    BY <1>1 DEF dataVars, trieVars
  <2>4. \A n \in Node, b \in Account : KeepsUp(n, b)'
    BY <2>3 DEF DataOK, KeepsUp
  <2>5. UpToDate(stored)' /\ UpToDate(cache)' /\ UpToDate(updates)' /\ UpToDate(trie)'
    BY <2>2, <2>3 DEF DataOK, UpToDate
  <2> QED
    BY <2>3, <2>4, <2>5 DEF DataOK
<1>11. RepairOK'
  <2>1. UNCHANGED <<phase, votes, firstChoice, bad, requests, writing>>
    BY <1>1 DEF dataVars, trieVars, testVars
  <2>2. bad' \in [Node -> SUBSET Made']
    BY <1>5, <2>1 DEF RepairOK
  <2>3. requests' \subseteq Reference'
    BY <1>5, <2>1 DEF RepairOK, Reference
  <2>4. ASSUME NEW w \in writing PROVE w \in PendingWrite'
    <3>1. w \in PendingWrite /\ w.account \in Account /\ w.seen \in Nat /\ w.seen <= Newest(w.account)
      BY DEF RepairOK, PendingWrite
    <3>2. Newest(w.account) \in Nat /\ Newest(w.account)' \in Nat /\ Newest(w.account) <= Newest(w.account)'
      BY <1>2, <1>4, <3>1
    <3>3. w.seen <= Newest(w.account)'
      BY <3>1, <3>2
    <3> QED
      BY <1>5, <3>1, <3>3 DEF PendingWrite
  <2> QED
    BY <2>1, <2>2, <2>3, <2>4 DEF RepairOK
<1> QED
  BY <1>9, <1>10, <1>11

LEMMA CommitOK ==
  ASSUME PatcherInv, NEW n \in Node, NEW x \in todo[n], Commit(n, x)
  PROVE  PatcherInv'
<1> USE DEF PatcherInv
<1>1. UNCHANGED <<cycle, made, known, writing, trieVars, testVars>>
  BY DEF Commit
<1>2. x \in Made /\ x[1] \in Account /\ x[2] \in Nat /\ x[2] <= Newest(x[1])
  <2>1. x \in Made /\ x = <<x[1], x[2]>>
    BY DEF WorldOK, Made
  <2> QED
    BY <2>1, MadePair DEF WorldOK
<1>3. WorldOK'
  <2>1. todo' \in [Node -> SUBSET Made]
    BY DEF Commit, WorldOK
  <2> QED
    BY <1>1, <2>1, WorldKept
<1>4. RepairOK'
  BY <1>1, RepairKept DEF trieVars
<1>5. DataOK'
  <2> DEFINE new == [a \in Account |-> IF a = x[1] THEN x[2] ELSE 0]
  <2>1. CASE x[2] > cache[n][x[1]]
    <3>1. stored' = [stored EXCEPT ![n][x[1]] = x[2]] /\ Cached(n, new)
      BY <2>1 DEF Commit
    <3>2. \A a \in Account : new[a] \in Nat /\ new[a] <= Newest(a)
      BY <1>2 DEF WorldOK
    <3>3. new \in [Account -> Nat]
      BY <1>2
    <3>4. stored' \in StatesOf /\ \A m \in Node, a \in Account : stored'[m][a] <= Newest(a)
      BY <1>2, <3>1 DEF DataOK, StatesOf, UpToDate
    <3> HIDE DEF new
    <3> QED
      BY <1>1, <3>1, <3>2, <3>3, <3>4, CachedOK DEF trieVars
  <2>2. CASE ~(x[2] > cache[n][x[1]])
    <3>1. UNCHANGED <<stored, cache, queue>>
      BY <2>2 DEF Commit
    <3> QED
      BY <1>1, <3>1, DataKept DEF trieVars
  <2> QED
    BY <2>1, <2>2
<1> QED
  BY <1>3, <1>4, <1>5

(* A node reports its newest state unless that waits for the next cycle;   *)
(* what was made before it does not wait then.                             *)
LEMMA ReportOK ==
  ASSUME PatcherInv, NEW n \in Node, Report(n)
  PROVE  PatcherInv'
<1> USE DEF PatcherInv
<1>1. UNCHANGED <<worldVars, stored, cache, writing, votes, firstChoice, bad, requests>>
  BY DEF Report
<1>2. WorldOK'
  <2>1. todo' \in [Node -> SUBSET Made]
    BY <1>1 DEF WorldOK, worldVars
  <2> QED
    BY <1>1, <2>1, WorldKept DEF worldVars
<1>3. RepairOK'
  <2>1. phase' \in [Node -> {"waiting", "reported", "fetch", "check", "write", "done"}]
    BY DEF Report, RepairOK
  <2> QED
    BY <1>1, <2>1, MadeKept DEF RepairOK, worldVars
<1>4. ASSUME NEW m \in Node, NEW a \in Account
      PROVE  IF m = n
             THEN /\ trie'[m][a] = IF NewHash(n, a) = 0 THEN trie[n][a] ELSE NewHash(n, a)
                  /\ updates'[m][a] = 0
                  /\ queue'[m][a] = queue[n][a] \ Due(n, a)
             ELSE /\ trie'[m][a] = trie[m][a] /\ updates'[m][a] = updates[m][a]
                  /\ queue'[m][a] = queue[m][a]
  BY DEF Report, UpdatedTrie, DataOK, StatesOf
<1>5. ASSUME NEW a \in Account
      PROVE  /\ NewHash(n, a) \in Nat /\ NewHash(n, a) <= Newest(a)
             /\ queue[n][a] = {} => NewHash(n, a) = updates[n][a]
             /\ cache[n][a] \in Due(n, a) =>
                  Due(n, a) = queue[n][a] /\ NewHash(n, a) = cache[n][a]
  <2>1. KeepsUp(n, a) /\ cache[n][a] \in Nat /\ cache[n][a] <= Newest(a) /\ Newest(a) \in Nat
    BY DEF DataOK, StatesOf, UpToDate, WorldOK
  <2>2. updates[n][a] \in Nat /\ updates[n][a] <= Newest(a)
    BY DEF DataOK, StatesOf, UpToDate
  <2>3. Due(n, a) \subseteq queue[n][a] /\ queue[n][a] \in SUBSET (1 .. cache[n][a])
    BY <2>1 DEF KeepsUp, Due
  <2>4. CASE Due(n, a) = {}
    <3>1. NewHash(n, a) = updates[n][a]
      BY <2>4 DEF NewHash
    <3> QED
      BY <2>2, <2>4, <3>1
  <2>5. CASE Due(n, a) # {}
    <3>1. NewHash(n, a) = Max(Due(n, a))
      BY <2>5 DEF NewHash
    <3>2. Max(Due(n, a)) \in Due(n, a)
      BY <2>1, <2>3, <2>5, MaxGreatest
    <3>3. NewHash(n, a) \in 1 .. cache[n][a]
      BY <2>3, <3>1, <3>2
    <3>4. CASE cache[n][a] \in Due(n, a)
      <4>1. NewHash(n, a) = cache[n][a]
        BY <2>1, <2>3, <3>1, <3>4, MaxIs
      <4>2. ASSUME NEW s \in queue[n][a] PROVE s \in Due(n, a)
        <5>1. made[a][cache[n][a]] < cycle /\ cache[n][a] \in 1 .. Newest(a)
          BY <2>1, <2>3, <3>4 DEF Due
        <5>2. s \in 1 .. Newest(a) /\ s <= cache[n][a]
          BY <2>1, <2>3
        <5>3. made[a][s] <= made[a][cache[n][a]]
          BY <5>1, <5>2 DEF WorldOK
        <5>4. made[a][s] \in Int /\ made[a][cache[n][a]] \in Int /\ cycle \in Int
          BY PatcherAssumption, <5>1, <5>2, MadeIn DEF WorldOK
        <5> QED
          BY <5>1, <5>3, <5>4 DEF Due
      <4> QED
        BY <2>1, <2>3, <3>3, <4>1, <4>2
    <3>5. NewHash(n, a) \in Nat /\ NewHash(n, a) <= Newest(a) /\ queue[n][a] # {}
      BY <2>1, <2>3, <2>5, <3>3
    <3> QED
      BY <3>4, <3>5
  <2> QED
    BY <2>4, <2>5
<1>6. \A a \in Account : Newest(a)' = Newest(a)
  BY <1>1 DEF worldVars, Newest
<1>7. trie' \in StatesOf /\ updates' \in StatesOf
  <2>1. trie' = [trie EXCEPT ![n] = UpdatedTrie(n)] /\ UpdatedTrie(n) \in [Account -> Nat]
    BY <1>5 DEF Report, UpdatedTrie, DataOK, StatesOf
  <2> QED
    BY <2>1 DEF Report, DataOK, StatesOf
<1>8. queue' \in [Node -> [Account -> SUBSET Nat]]
  BY DEF Report, DataOK
<1>9. ASSUME NEW m \in Node, NEW a \in Account
      PROVE  trie'[m][a] <= Newest(a) /\ updates'[m][a] <= Newest(a)
  <2>1. trie[m][a] <= Newest(a) /\ updates[m][a] <= Newest(a) /\ 0 <= Newest(a)
    BY DEF DataOK, UpToDate, WorldOK
  <2> QED
    BY <1>4, <1>5, <2>1
<1>10. ASSUME NEW m \in Node, NEW a \in Account PROVE KeepsUp(m, a)'
  <2>1. KeepsUp(m, a) /\ cache' = cache
    BY <1>1 DEF DataOK
  <2>2. CASE m # n
    BY <1>4, <2>1, <2>2 DEF KeepsUp
  <2>3. CASE m = n
    BY <1>4, <1>5, <2>1, <2>3 DEF KeepsUp
  <2> QED
    BY <2>2, <2>3
<1>11. DataOK'
  BY <1>1, <1>6, <1>7, <1>8, <1>9, <1>10 DEF DataOK, UpToDate
<1> QED
  BY <1>2, <1>3, <1>11

LEMMA FinishOK ==
  ASSUME RepairOK, NEW n \in Node, Finish(n)
  PROVE  /\ phase' \in [Node -> {"waiting", "reported", "fetch", "check", "write", "done"}]
         /\ DOMAIN votes' = Node /\ \A m \in Node : votes'[m].voters \subseteq Node \ {m}
         /\ firstChoice' \in [Node -> Node]
BY DEF RepairOK, Finish, NoVotes

(* The steps that change neither the world nor the data.                   *)
LEMMA RestKept ==
  ASSUME WorldOK, DataOK, UNCHANGED <<worldVars, stored, cache, queue, updates, trie>>
  PROVE  WorldOK' /\ DataOK'
<1>1. WorldOK'
  <2>1. todo' \in [Node -> SUBSET Made]
    BY DEF WorldOK, worldVars
  <2> QED
    BY <2>1, WorldKept DEF worldVars
<1> QED
  BY <1>1, DataKept DEF worldVars

LEMMA TestOK ==
  ASSUME PatcherInv, NEW n \in Node, Test(n) \/ NoAnswer(n) \/ NobodyToAsk(n)
  PROVE  PatcherInv'
<1> USE DEF PatcherInv
<1>1. /\ Finish(n) /\ UNCHANGED <<worldVars, dataVars, updates, trie, requests>>
      /\ bad' = bad \/ bad' = [bad EXCEPT ![n] = {}]
  BY DEF Test, NoAnswer, NobodyToAsk
<1>2. WorldOK' /\ DataOK'
  BY <1>1, RestKept DEF dataVars
<1>3. bad' \in [Node -> SUBSET Made]
  BY <1>1 DEF RepairOK
<1>4. RepairOK'
  BY <1>1, <1>3, FinishOK, MadeKept DEF RepairOK, worldVars, dataVars
<1> QED
  BY <1>2, <1>4

LEMMA RequestOK ==
  ASSUME WorldOK, NEW n \in Node, NEW m \in Node, NEW a \in Account, NEW hash
  PROVE  Request(n, m, a, hash) \subseteq Reference
<1> SUFFICES ASSUME stored[n][a] = hash, <<a, hash>> \in known[n]
             PROVE  [node |-> m, account |-> a, state |-> hash] \in Reference
  BY DEF Request
<1>1. <<a, hash>> \in Made
  BY DEF WorldOK
<1>2. hash \in Nat
  BY <1>1, MadePair DEF WorldOK
<1> QED
  BY <1>1, <1>2 DEF Reference

LEMMA TallyOK ==
  ASSUME NEW n, NEW tally \in Tallies(n)
  PROVE  tally.voters \subseteq Node \ {n}
<1>1. PICK order \in Arrivals(n) : tally = Heard(order)
  BY DEF Tallies
<1>2. PICK k : order \in [1 .. k -> Node \ {n}]
  BY ZenonT(60), <1>1 DEF Arrivals
<1>3. tally.voters = {order[i] : i \in DOMAIN order}
  BY <1>1 DEF Heard
<1> QED
  BY <1>2, <1>3

(* A cached state that the trie has not got becomes the update to come.    *)
LEMMA CompareOK ==
  ASSUME PatcherInv, NEW n \in Node, NEW m \in Node, Compare(n, m)
  PROVE  PatcherInv'
<1> USE DEF PatcherInv
<1>1. PICK tally \in Tallies(n) : FindBadAccounts(n, m, tally)
  BY DEF Compare
<1>2. UNCHANGED <<worldVars, dataVars, trie>>
  BY DEF Compare
<1> DEFINE cachedIt == {a \in ToFix(n, m) : trie[n][a] # 0 /\ cache[n][a] = trie[m][a]}
           recent == {a \in cachedIt : made[a][cache[n][a]] >= cycle - 1}
<1>3. /\ bad' = [bad EXCEPT ![n] = {<<a, trie[m][a]>> : a \in ToFix(n, m) \ cachedIt}]
      /\ updates' = [updates EXCEPT ![n] = [a \in Account |->
                       IF a \in cachedIt \ recent THEN cache[n][a] ELSE @[a]]]
      /\ requests' = requests \cup UNION {Request(n, m, a, trie[n][a]) : a \in ExtraBadKeys(n, m)}
      /\ IF bad'[n] = {} THEN Finish(n)
         ELSE /\ phase' = [phase EXCEPT ![n] = "fetch"]
              /\ votes' = [votes EXCEPT ![n] = tally]
              /\ firstChoice' = [firstChoice EXCEPT ![n] = m]
  BY <1>1 DEF FindBadAccounts
<1>4. \A a \in cachedIt \ recent : cache[n][a] # 0
  BY DEF ToFix
<1> HIDE DEF recent
<1>5. WorldOK'
  <2>1. todo' \in [Node -> SUBSET Made]
    BY <1>2 DEF WorldOK, worldVars
  <2> QED
    BY <1>2, <2>1, WorldKept DEF worldVars
<1>6. DataOK'
  <2> HIDE DEF cachedIt
  <2>1. UNCHANGED <<made, stored, cache, queue, trie>>
    BY <1>2 DEF worldVars, dataVars
  <2>2. ASSUME NEW k \in Node, NEW a \in Account
        PROVE  updates'[k][a] = IF k = n /\ a \in cachedIt \ recent THEN cache[k][a] ELSE updates[k][a]
    BY <1>3 DEF DataOK, StatesOf
  <2>3. updates' \in StatesOf
    BY <1>3 DEF DataOK, StatesOf
  <2>4. UpToDate(updates)'
    BY <2>1, <2>2 DEF DataOK, UpToDate, Newest
  <2>5. ASSUME NEW k \in Node, NEW a \in Account PROVE KeepsUp(k, a)'
    <3>1. KeepsUp(k, a)
      BY DEF DataOK
    <3>2. CASE k = n /\ a \in cachedIt \ recent
      BY <1>4, <2>1, <2>2, <3>1, <3>2 DEF KeepsUp
    <3>3. CASE ~(k = n /\ a \in cachedIt \ recent)
      <4>1. updates'[k][a] = updates[k][a]
        BY <2>2, <3>3
      <4> QED
        BY <2>1, <3>1, <4>1 DEF KeepsUp
    <3> QED
      BY <3>2, <3>3
  <2> QED
    BY <2>1, <2>3, <2>4, <2>5 DEF DataOK, UpToDate, Newest
<1>7. RepairOK'
  <2>1. \A a \in Account : trie[m][a] \in Nat /\ trie[m][a] <= Newest(a) /\ Newest(a) \in Nat
    BY DEF DataOK, StatesOf, UpToDate, WorldOK
  <2>2. \A a \in ToFix(n, m) : <<a, trie[m][a]>> \in Made
    <3> SUFFICES ASSUME NEW a \in ToFix(n, m) PROVE <<a, trie[m][a]>> \in Made
      OBVIOUS
    <3>1. a \in Account /\ trie[m][a] # 0
      BY DEF ToFix
    <3>2. trie[m][a] \in 1 .. Newest(a)
      BY <2>1, <3>1
    <3> QED
      BY <3>1, <3>2, MadePair
  <2>3. bad' \in [Node -> SUBSET Made]
    BY <1>3, <2>2 DEF RepairOK
  <2>4. requests' \subseteq Reference
    <3>1. \A a \in ExtraBadKeys(n, m) : Request(n, m, a, trie[n][a]) \subseteq Reference
      BY RequestOK DEF ExtraBadKeys
    <3> QED
      BY <1>3, <3>1 DEF RepairOK
  <2>5. /\ phase' \in [Node -> {"waiting", "reported", "fetch", "check", "write", "done"}]
        /\ DOMAIN votes' = Node /\ \A k \in Node : votes'[k].voters \subseteq Node \ {k}
        /\ firstChoice' \in [Node -> Node]
    <3>1. CASE bad'[n] = {}
      BY <1>3, <3>1, FinishOK
    <3>2. CASE bad'[n] # {}
      <4>1. /\ phase' = [phase EXCEPT ![n] = "fetch"]
            /\ votes' = [votes EXCEPT ![n] = tally]
            /\ firstChoice' = [firstChoice EXCEPT ![n] = m]
        BY <1>3, <3>2
      <4>2. tally.voters \subseteq Node \ {n}
        BY TallyOK
      <4> HIDE DEF cachedIt
      <4> QED
        BY <4>1, <4>2 DEF RepairOK
    <3> QED
      BY <3>1, <3>2
  <2> QED
    BY <1>2, <2>3, <2>4, <2>5, MadeKept DEF RepairOK, worldVars, dataVars
<1> QED
  BY <1>5, <1>6, <1>7

LEMMA FetchOK ==
  ASSUME PatcherInv, NEW n \in Node, NEW m \in Node, Fetch(n, m)
  PROVE  PatcherInv'
<1> USE DEF PatcherInv
<1> DEFINE received == {x \in bad[n] : stored[m][x[1]] = x[2]}
           tooOld == {x \in received : x[2] < cache[n][x[1]]}
<1>1. /\ bad' = [bad EXCEPT ![n] = {x \in received : x[2] > cache[n][x[1]]}]
      /\ requests' = requests \cup UNION {Request(n, m, x[1], cache[n][x[1]]) : x \in tooOld}
      /\ IF bad'[n] = {} THEN Finish(n)
         ELSE /\ phase' = [phase EXCEPT ![n] = "check"]
              /\ UNCHANGED <<votes, firstChoice>>
      /\ UNCHANGED <<worldVars, dataVars, updates, trie>>
  BY DEF Fetch
<1>2. WorldOK' /\ DataOK'
  BY <1>1, RestKept DEF dataVars
<1>3. RepairOK'
  <2>1. bad[n] \subseteq Made
    BY DEF RepairOK
  <2>2. bad' \in [Node -> SUBSET Made]
    BY <1>1, <2>1 DEF RepairOK
  <2>3. requests' \subseteq Reference
    <3>1. \A x \in tooOld : x[1] \in Account
      BY <2>1 DEF Made
    <3>2. \A x \in tooOld : Request(n, m, x[1], cache[n][x[1]]) \subseteq Reference
      BY <3>1, RequestOK
    <3> HIDE DEF tooOld
    <3> QED
      BY <1>1, <3>2 DEF RepairOK
  <2>4. /\ phase' \in [Node -> {"waiting", "reported", "fetch", "check", "write", "done"}]
        /\ DOMAIN votes' = Node /\ \A k \in Node : votes'[k].voters \subseteq Node \ {k}
        /\ firstChoice' \in [Node -> Node]
    <3>1. CASE bad'[n] = {}
      BY <1>1, <3>1, FinishOK
    <3>2. CASE bad'[n] # {}
      BY <1>1, <3>2 DEF RepairOK
    <3> QED
      BY <3>1, <3>2
  <2> QED
    BY <1>1, <2>2, <2>3, <2>4, MadeKept DEF RepairOK, worldVars, dataVars
<1> QED
  BY <1>2, <1>3

LEMMA PendingOK ==
  ASSUME WorldOK, DataOK, NEW n \in Node, NEW by \in {"patch", "request"}, NEW S \in SUBSET Made
  PROVE  Pending(n, by, S) \subseteq PendingWrite
<1> SUFFICES ASSUME NEW x \in S
             PROVE  [node |-> n, account |-> x[1], state |-> x[2], by |-> by,
                     seen |-> cache[n][x[1]]] \in PendingWrite
  BY DEF Pending
<1>1. x \in Account \X Nat /\ x = <<x[1], x[2]>> /\ x \in Made
  BY DEF Made
<1>2. cache[n][x[1]] \in Nat /\ cache[n][x[1]] <= Newest(x[1])
  BY <1>1 DEF DataOK, StatesOf, UpToDate
<1> QED
  BY <1>1, <1>2 DEF PendingWrite

LEMMA CheckOK ==
  ASSUME PatcherInv, NEW n \in Node, Check(n)
  PROVE  PatcherInv'
<1> USE DEF PatcherInv
<1> DEFINE S == {x \in bad[n] : NotOlder(n, x)}
<1>1. /\ writing' = writing \cup Pending(n, "patch", S)
      /\ bad' = [bad EXCEPT ![n] = {}] /\ phase' = [phase EXCEPT ![n] = "write"]
      /\ UNCHANGED <<worldVars, stored, cache, queue, trieVars, firstChoice, requests>>
  BY DEF Check
<1>2. WorldOK' /\ DataOK'
  BY <1>1, RestKept DEF trieVars
<1>3. writing' \subseteq PendingWrite
  <2>1. S \in SUBSET Made
    BY DEF RepairOK
  <2> HIDE DEF S
  <2> QED
    BY <1>1, <2>1, PendingOK DEF RepairOK
<1>4. RepairOK'
  BY <1>1, <1>3, MadeKept DEF RepairOK, worldVars, trieVars
<1> QED
  BY <1>2, <1>4

LEMMA PatchOK ==
  ASSUME PatcherInv, NEW n \in Node, Patch(n)
  PROVE  PatcherInv'
<1> USE DEF PatcherInv
<1> DEFINE S == {w \in writing : w.node = n /\ w.by = "patch"}
<1>1. Written(n, S) /\ Finish(n) /\ UNCHANGED <<worldVars, updates, trie, bad, requests>>
  BY DEF Patch
<1>2. UNCHANGED <<cycle, made, todo, known>>
  BY <1>1 DEF worldVars
<1>3. WorldOK'
  <2>1. todo' \in [Node -> SUBSET Made]
    BY <1>2 DEF WorldOK
  <2> QED
    BY <1>2, <2>1, WorldKept
<1>4. DataOK'
  BY <1>1, <1>2, WrittenOK
<1>5. writing' \subseteq writing
  BY <1>1 DEF Written
<1>6. RepairOK'
  BY <1>1, <1>2, <1>5, FinishOK, MadeKept DEF RepairOK
<1> QED
  BY <1>3, <1>4, <1>6

LEMMA HandleRequestOK ==
  ASSUME PatcherInv, NEW r \in requests, HandleRequest(r)
  PROVE  PatcherInv'
<1> USE DEF PatcherInv
<1> DEFINE S == {x \in {<<r.account, r.state>>} :
                   x[2] > cache[r.node][r.account] /\ x \in known[r.node]}
<1>1. /\ requests' = requests \ {r} /\ writing' = writing \cup Pending(r.node, "request", S)
      /\ UNCHANGED <<worldVars, stored, cache, queue, trieVars, phase, firstChoice, bad>>
  BY DEF HandleRequest
<1>2. WorldOK' /\ DataOK'
  BY <1>1, RestKept DEF trieVars
<1>3. writing' \subseteq PendingWrite
  <2>1. S \in SUBSET Made /\ r.node \in Node
    BY DEF RepairOK, Reference
  <2> HIDE DEF S
  <2> QED
    BY <1>1, <2>1, PendingOK DEF RepairOK
<1>4. RepairOK'
  BY <1>1, <1>3, MadeKept DEF RepairOK, worldVars, trieVars
<1> QED
  BY <1>2, <1>4

LEMMA WriteRepairOK ==
  ASSUME PatcherInv, NEW w \in writing, WriteRepair(w)
  PROVE  PatcherInv'
<1> USE DEF PatcherInv
<1>1. /\ Written(w.node, {w}) /\ w.node \in Node
      /\ UNCHANGED <<worldVars, trieVars, testVars>>
  BY DEF WriteRepair, RepairOK, PendingWrite
<1>2. UNCHANGED <<cycle, made, todo, known>>
  BY <1>1 DEF worldVars
<1>3. WorldOK'
  <2>1. todo' \in [Node -> SUBSET Made]
    BY <1>2 DEF WorldOK
  <2> QED
    BY <1>2, <2>1, WorldKept
<1>4. DataOK'
  BY <1>1, <1>2, WrittenOK DEF trieVars
<1>5. writing' \subseteq writing
  BY <1>1 DEF Written
<1>6. RepairOK'
  BY <1>1, <1>2, <1>5, MadeKept DEF RepairOK, trieVars, testVars
<1> QED
  BY <1>3, <1>4, <1>6

LEMMA TickOK ==
  ASSUME PatcherInv, Tick
  PROVE  PatcherInv'
<1> USE PatcherAssumption DEF PatcherInv
<1>1. /\ cycle' = (IF InTime THEN cycle ELSE cycle + 1) /\ phase' = [n \in Node |-> "waiting"]
      /\ UNCHANGED <<made, todo, known, dataVars, trieVars, firstChoice, bad, requests>>
  BY DEF Tick
<1>2. cycle' \in 0 .. MaxCycle /\ cycle <= cycle' /\ cycle \in Nat /\ cycle' \in Nat
  BY <1>1 DEF InTime, WorldOK
<1>3. \A a \in Account : Newest(a)' = Newest(a)
  BY <1>1, MadeKept
<1>4. \A a \in Account : \A i \in 1 .. Newest(a) : made[a][i] <= cycle'
  <2> SUFFICES ASSUME NEW a \in Account, NEW i \in 1 .. Newest(a) PROVE made[a][i] <= cycle'
    OBVIOUS
  <2>1. made[a][i] \in Nat /\ made[a][i] <= cycle
    BY MadeIn DEF WorldOK
  <2> QED
    BY <1>2, <2>1
<1>5. WorldOK'
  BY <1>1, <1>2, <1>3, <1>4, MadeKept DEF WorldOK
<1>6. DataOK'
  BY <1>1, DataKept DEF dataVars, trieVars
<1>7. RepairOK'
  BY <1>1, MadeKept DEF RepairOK, dataVars, trieVars
<1> QED
  BY <1>5, <1>6, <1>7

LEMMA NextOK ==
  ASSUME PatcherInv, [Next]_vars
  PROVE  PatcherInv'
<1>1. CASE Next
  <2>1. ASSUME NEW a \in Account, NEW aware \in SUBSET Node, NEW committers \in SUBSET aware,
               Transaction(a, aware, committers)
        PROVE  PatcherInv'
    BY <2>1, TransactionOK
  <2>2. ASSUME NEW n \in Node, NoAnswer(n) \/ CommitNext(n)
        PROVE  PatcherInv'
    BY <2>2, TestOK, CommitOK DEF CommitNext
  <2>3. ASSUME NEW n \in Node, PatchStep(n)
        PROVE  PatcherInv'
    BY <2>3, ReportOK, TestOK, CompareOK, FetchOK, CheckOK, PatchOK DEF PatchStep, FetchFrom
  <2>4. ASSUME NEW n \in Node, HandleNext(n) \/ WriteNext(n)
        PROVE  PatcherInv'
    BY <2>4, HandleRequestOK, WriteRepairOK DEF HandleNext, WriteNext
  <2> QED
    BY <1>1, <2>1, <2>2, <2>3, <2>4, TickOK DEF Next, Work
<1>2. CASE UNCHANGED vars
  <2>1. WorldOK' /\ DataOK'
    BY <1>2, RestKept DEF PatcherInv, vars, worldVars, dataVars, trieVars
  <2>2. RepairOK'
    BY <1>2, RepairKept DEF PatcherInv, vars, worldVars, dataVars, trieVars
  <2> QED
    BY <2>1, <2>2 DEF PatcherInv
<1> QED
  BY <1>1, <1>2

-----------------------------------------------------------------------------
LEMMA Typed == PatcherInv => TypeOK
<1> SUFFICES ASSUME PatcherInv PROVE TypeOK
  OBVIOUS
<1> USE PatcherAssumption DEF PatcherInv
<1>1. \A a \in Account : Newest(a) \in 1 .. MaxState
  BY DEF WorldOK
<1>2. \A x \in Made : x \in Account \X (State \ {0})
  BY <1>1 DEF Made, State
<1>3. \A s \in StatesOf : UpToDate(s) => s \in [Node -> [Account -> State]]
  <2> SUFFICES ASSUME NEW s \in StatesOf, UpToDate(s) PROVE s \in [Node -> [Account -> State]]
    OBVIOUS
  <2>1. \A n \in Node, a \in Account : s[n][a] \in State
    BY <1>1 DEF StatesOf, UpToDate, State
  <2> QED
    BY <2>1 DEF StatesOf
<1>4. {stored, cache, updates, trie} \subseteq [Node -> [Account -> State]]
  BY <1>3 DEF DataOK
<1>5. queue \in [Node -> [Account -> SUBSET State]]
  <2>1. ASSUME NEW n \in Node, NEW a \in Account PROVE queue[n][a] \subseteq State
    <3>1. cache[n][a] \in State /\ queue[n][a] \subseteq 1 .. cache[n][a]
      BY <1>4 DEF DataOK, KeepsUp
    <3> QED
      BY <3>1 DEF State
  <2> QED
    BY <2>1 DEF DataOK
<1>6. \A n \in Node : todo[n] \cup known[n] \subseteq Account \X State
  BY <1>2 DEF WorldOK
<1>7. \A n \in Node : bad[n] \subseteq Account \X (State \ {0})
  BY <1>2 DEF RepairOK
<1>8. requests \subseteq Repair
  <2> SUFFICES ASSUME NEW r \in requests PROVE r \in Repair
    OBVIOUS
  <2>1. r \in [node : Node, account : Account, state : Nat] /\ <<r.account, r.state>> \in Account \X State
    BY <1>2 DEF RepairOK, Reference
  <2> QED
    BY <2>1 DEF Repair
<1>9. writing \subseteq Write
  <2> SUFFICES ASSUME NEW w \in writing PROVE w \in Write
    OBVIOUS
  <2>1. /\ w \in [node : Node, account : Account, state : Nat, by : {"patch", "request"}, seen : Nat]
        /\ <<w.account, w.state>> \in Account \X State /\ w.seen <= Newest(w.account)
    BY <1>2 DEF RepairOK, PendingWrite
  <2>2. w.seen \in State
    BY <1>1, <2>1 DEF State
  <2> QED
    BY <2>1, <2>2 DEF Write
<1> QED
  BY <1>4, <1>5, <1>6, <1>7, <1>8, <1>9 DEF TypeOK, WorldOK, RepairOK

LEMMA InvHolds == Spec => []PatcherInv
<1>1. Init => PatcherInv
  BY InitOK
<1>2. PatcherInv /\ [Next]_vars => PatcherInv'
  BY NextOK
<1> QED
  BY <1>1, <1>2, PTL DEF Spec

(* The newest hash in the cache of a node is in its trie, or on its way:   *)
(* the queue of updateAccountHash, what processCacheUpdates takes from it  *)
(* and what findBadAccounts puts back lose no account (AccountCache.ts:    *)
(* 291-355, AccountPatcher.ts:1747, 2989).                                 *)
THEOREM TrieFollows == Spec => []TrieKeepsUp
<1>1. PatcherInv => TrieKeepsUp
  BY Typed DEF PatcherInv, DataOK, KeepsUp, TrieKeepsUp
<1> QED
  BY <1>1, InvHolds, PTL

-----------------------------------------------------------------------------
(* What goes back                                                          *)

(* What a step may do to the data.                                         *)
BackByOvertaken ==
  \A n \in Node, a \in Account : stored'[n][a] < stored[n][a] =>
    \E w \in writing \ writing' : w.node = n /\ w.account = a /\ Overtaken(w)

LEMMA DataUntouched ==
  ASSUME DataOK, RepairInv, UNCHANGED <<stored, cache>>, \A w \in writing' : w.seen <= w.state
  PROVE  RepairInv' /\ BackByOvertaken
<1>1. BackByOvertaken
  BY DEF DataOK, StatesOf, BackByOvertaken
<1> QED
  BY <1>1 DEF RepairInv

LEMMA PendingNotOlder ==
  ASSUME NEW n, NEW by, NEW S, \A x \in S : x[2] >= cache[n][x[1]],
         NEW w \in Pending(n, by, S)
  PROVE  w.state >= w.seen
BY DEF Pending

LEMMA CommitForward ==
  ASSUME PatcherInv, RepairInv, NEW n \in Node, NEW x \in todo[n], Commit(n, x)
  PROVE  RepairInv' /\ BackByOvertaken
<1> USE DEF PatcherInv
<1>1. UNCHANGED writing
  BY DEF Commit
<1>2. CASE ~(x[2] > cache[n][x[1]])
  <2>1. UNCHANGED <<stored, cache>>
    BY <1>2 DEF Commit
  <2> QED
    BY <1>1, <2>1, DataUntouched DEF RepairInv
<1>3. CASE x[2] > cache[n][x[1]]
  <2> DEFINE new == [a \in Account |-> IF a = x[1] THEN x[2] ELSE 0]
  <2>1. x[1] \in Account /\ x[2] \in Nat
    BY DEF WorldOK, Made
  <2>2. stored' = [stored EXCEPT ![n][x[1]] = x[2]] /\ Cached(n, new)
    BY <1>3 DEF Commit
  <2>3. cache' = [cache EXCEPT ![n] = [a \in Account |-> IF new[a] > @[a] THEN new[a] ELSE @[a]]]
    BY <2>2 DEF Cached
  <2>4. ASSUME NEW m \in Node, NEW a \in Account
        PROVE  /\ stored'[m][a] = IF m = n /\ a = x[1] THEN x[2] ELSE stored[m][a]
               /\ cache'[m][a] = IF m = n /\ a = x[1] THEN x[2] ELSE cache[m][a]
    BY <1>3, <2>1, <2>2, <2>3 DEF DataOK, StatesOf
  <2>5. ASSUME NEW m \in Node, NEW a \in Account
        PROVE  stored'[m][a] <= cache'[m][a] /\ ~(stored'[m][a] < stored[m][a])
    <3>1. stored[m][a] \in Nat /\ cache[m][a] \in Nat /\ stored[m][a] <= cache[m][a]
      BY DEF DataOK, StatesOf, RepairInv
    <3> HIDE DEF new
    <3> QED
      BY <1>3, <2>1, <2>4, <3>1
  <2> QED
    BY <1>1, <2>5 DEF RepairInv, BackByOvertaken
<1> QED
  BY <1>2, <1>3

(* Of the repairs of S that are of an account, the one that is written is  *)
(* as new as what it was checked against; if that is older than the data,  *)
(* it is older than the cache, which has moved on since.                   *)
LEMMA WrittenForward ==
  ASSUME PatcherInv, RepairInv, NEW n \in Node, NEW S \in SUBSET writing,
         \A w \in S : w.node = n, Written(n, S)
  PROVE  RepairInv' /\ BackByOvertaken
<1> USE DEF PatcherInv
<1>1. S \in SUBSET PendingWrite
  BY DEF RepairOK
<1>2. writing' = writing \ S
  BY DEF Written
<1>3. ASSUME NEW a \in Account
      PROVE  IF \E w \in S : w.account = a
             THEN /\ New(S)[a] # 0 /\ New(S)[a] \in Nat
                  /\ \E w \in S : w.account = a /\ w.state = New(S)[a]
             ELSE New(S)[a] = 0
  <2>1. CASE \E w \in S : w.account = a
    <3>1. PICK w \in S : w.account = a /\ New(S)[a] = w.state
      BY <1>1, <2>1, NewValues
    <3>2. w.state \in Nat /\ w.state # 0
      BY <1>1, PendingState
    <3> QED
      BY <2>1, <3>1, <3>2
  <2>2. CASE ~\E w \in S : w.account = a
    BY <1>1, <2>2, NewValues
  <2> QED
    BY <2>1, <2>2
<1>4. cache' = [cache EXCEPT ![n] = [a \in Account |-> IF New(S)[a] > @[a] THEN New(S)[a] ELSE @[a]]]
  BY DEF Written, New, Cached
<1>5. stored' = [stored EXCEPT ![n] = [a \in Account |-> IF New(S)[a] = 0 THEN @[a] ELSE New(S)[a]]]
  BY DEF Written, New
<1>6. ASSUME NEW m \in Node, NEW a \in Account
      PROVE  /\ stored'[m][a] <= cache'[m][a]
             /\ stored'[m][a] < stored[m][a] =>
                  \E w \in writing \ writing' : w.node = m /\ w.account = a /\ Overtaken(w)
  <2>1. cache[m][a] \in Nat /\ stored[m][a] \in Nat /\ stored[m][a] <= cache[m][a]
    BY DEF DataOK, StatesOf, RepairInv
  <2>2. CASE m # n
    <3>1. stored'[m][a] = stored[m][a] /\ cache'[m][a] = cache[m][a]
      BY <1>4, <1>5, <2>2 DEF DataOK, StatesOf
    <3> QED
      BY <2>1, <3>1
  <2>3. CASE m = n
    <3>1. /\ stored'[n][a] = IF New(S)[a] = 0 THEN stored[n][a] ELSE New(S)[a]
          /\ cache'[n][a] = IF New(S)[a] > cache[n][a] THEN New(S)[a] ELSE cache[n][a]
      BY <1>4, <1>5 DEF DataOK, StatesOf
    <3>2. CASE New(S)[a] = 0
      BY <2>1, <2>3, <3>1, <3>2
    <3>3. CASE New(S)[a] # 0
      <4>1. PICK w \in S : w.account = a /\ w.state = New(S)[a] /\ New(S)[a] \in Nat
        BY <1>3, <3>3
      <4>2. w.node = n /\ w \in writing \ writing' /\ w.seen \in Nat /\ w.seen <= w.state
        BY <1>1, <1>2 DEF RepairInv, PendingWrite
      <4>3. stored'[n][a] <= cache'[n][a]
        BY <2>1, <2>3, <3>1, <3>3, <4>1
      <4>4. stored'[n][a] < stored[n][a] => Overtaken(w)
        <5>1. stored'[n][a] = w.state
          BY <3>1, <3>3, <4>1
        <5>2. w.seen <= stored'[n][a] /\ (stored'[n][a] < stored[n][a] => w.seen < cache[n][a])
          BY <2>1, <2>3, <4>1, <4>2, <5>1
        <5> QED
          BY <4>1, <4>2, <5>2 DEF Overtaken
      <4> QED
        BY <2>3, <4>1, <4>2, <4>3, <4>4
    <3> QED
      BY <3>2, <3>3
  <2> QED
    BY <2>2, <2>3
<1> QED
  BY <1>2, <1>6 DEF RepairInv, BackByOvertaken

LEMMA CheckForward ==
  ASSUME PatcherInv, RepairInv, NEW n \in Node, Check(n)
  PROVE  RepairInv' /\ BackByOvertaken
<1> DEFINE S == {x \in bad[n] : NotOlder(n, x)}
<1>1. writing' = writing \cup Pending(n, "patch", S) /\ UNCHANGED <<stored, cache>>
  BY DEF Check
<1>2. \A x \in S : x[2] >= cache[n][x[1]]
  BY DEF NotOlder
<1> HIDE DEF S
<1>3. \A w \in Pending(n, "patch", S) : w.seen <= w.state
  <2> SUFFICES ASSUME NEW w \in Pending(n, "patch", S) PROVE w.seen <= w.state
    OBVIOUS
  <2> QED
    BY <1>2, PendingNotOlder
<1>4. \A w \in writing' : w.seen <= w.state
  BY <1>1, <1>3 DEF RepairInv
<1> QED
  BY <1>1, <1>4, DataUntouched DEF PatcherInv

LEMMA HandleForward ==
  ASSUME PatcherInv, RepairInv, NEW r \in requests, HandleRequest(r)
  PROVE  RepairInv' /\ BackByOvertaken
<1> DEFINE S == {x \in {<<r.account, r.state>>} :
                   x[2] > cache[r.node][r.account] /\ x \in known[r.node]}
<1>1. writing' = writing \cup Pending(r.node, "request", S) /\ UNCHANGED <<stored, cache>>
  BY DEF HandleRequest
<1>2. r.state \in Nat /\ cache[r.node][r.account] \in Nat
  <2>1. r.node \in Node /\ r.account \in Account /\ r.state \in Nat
    BY DEF PatcherInv, RepairOK, Reference
  <2> QED
    BY <2>1 DEF PatcherInv, DataOK, StatesOf
<1>3. \A x \in S : x[2] >= cache[r.node][x[1]]
  BY <1>2
<1> HIDE DEF S
<1>4. \A w \in Pending(r.node, "request", S) : w.seen <= w.state
  <2> SUFFICES ASSUME NEW w \in Pending(r.node, "request", S) PROVE w.seen <= w.state
    OBVIOUS
  <2> QED
    BY <1>3, PendingNotOlder
<1>5. \A w \in writing' : w.seen <= w.state
  BY <1>1, <1>4 DEF RepairInv
<1> QED
  BY <1>1, <1>5, DataUntouched DEF PatcherInv

LEMMA RepairNext ==
  ASSUME PatcherInv, RepairInv, [Next]_vars
  PROVE  RepairInv' /\ BackByOvertaken
<1>1. ASSUME UNCHANGED <<stored, cache, writing>>
      PROVE  RepairInv' /\ BackByOvertaken
  BY <1>1, DataUntouched DEF RepairInv, PatcherInv
<1>2. CASE Next
  <2>1. ASSUME NEW a \in Account, NEW aware \in SUBSET Node, NEW committers \in SUBSET aware,
               Transaction(a, aware, committers)
        PROVE  RepairInv' /\ BackByOvertaken
    BY <1>1, <2>1 DEF Transaction, dataVars
  <2>2. ASSUME NEW n \in Node, CommitNext(n)
        PROVE  RepairInv' /\ BackByOvertaken
    BY <2>2, CommitForward DEF CommitNext
  <2>3. ASSUME NEW n \in Node,
               Test(n) \/ NoAnswer(n) \/ NobodyToAsk(n) \/ FetchFrom(n)
                 \/ \E m \in Node : Compare(n, m)
        PROVE  RepairInv' /\ BackByOvertaken
    <3>1. UNCHANGED <<stored, cache, writing>>
      BY <2>3 DEF Test, NoAnswer, NobodyToAsk, FetchFrom, Fetch, Compare, dataVars
    <3> QED
      BY <1>1, <3>1
  <2>4. ASSUME NEW n \in Node, Report(n)
        PROVE  RepairInv' /\ BackByOvertaken
    BY <1>1, <2>4 DEF Report
  <2>5. ASSUME NEW n \in Node, Patch(n)
        PROVE  RepairInv' /\ BackByOvertaken
    BY <2>5, WrittenForward DEF Patch
  <2>6. ASSUME NEW w \in writing, WriteRepair(w)
        PROVE  RepairInv' /\ BackByOvertaken
    <3>1. w.node \in Node /\ Written(w.node, {w})
      BY <2>6 DEF WriteRepair, PatcherInv, RepairOK, PendingWrite
    <3> QED
      BY <3>1, WrittenForward
  <2>7. ASSUME Tick
        PROVE  RepairInv' /\ BackByOvertaken
    BY <1>1, <2>7 DEF Tick, dataVars
  <2>8. ASSUME NEW n \in Node, PatchStep(n) \/ HandleNext(n) \/ WriteNext(n)
        PROVE  RepairInv' /\ BackByOvertaken
    BY <2>3, <2>4, <2>5, <2>6, <2>8, CheckForward, HandleForward
       DEF PatchStep, HandleNext, WriteNext
  <2> QED
    BY <1>2, <2>1, <2>2, <2>3, <2>7, <2>8 DEF Next, Work
<1>3. CASE UNCHANGED vars
  BY <1>1, <1>3 DEF vars, dataVars
<1> QED
  BY <1>2, <1>3

(* However commits, patches and repairs that were asked for overlap, a     *)
(* node's data of an account goes back only when checkAndSetAccountData    *)
(* (index.ts:1133-1145) let a repair through and the node took a newer     *)
(* state between that check and the write.                                 *)
THEOREM RolledBackWhenOvertaken == Spec => OnlyOvertaken
<1>1. Init => RepairInv
  BY InitOK
<1>2. PatcherInv /\ RepairInv /\ [Next]_vars => RepairInv' /\ BackByOvertaken
  BY RepairNext
<1>3. PatcherInv /\ RepairInv /\ [Next]_vars =>
        [\A n \in Node, a \in Account : stored'[n][a] < stored[n][a] =>
           \E w \in writing \ writing' : w.node = n /\ w.account = a /\ Overtaken(w)]_vars
  BY <1>2 DEF BackByOvertaken
<1> QED
  BY <1>1, <1>2, <1>3, InvHolds, PTL DEF Spec, OnlyOvertaken

=============================================================================
