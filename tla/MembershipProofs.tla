-------------------------- MODULE MembershipProofs --------------------------
(***************************************************************************)
(* For any validators and candidates, while no candidate restarts and asks *)
(* again at once: the lists of nodes stay disjoint, and a record drops     *)
(* only nodes that were silent, though messages be lost; where none is     *)
(* lost, all validators make the same record, and one candidate that       *)
(* leaves is gone with the next.  If also the candidates are few enough    *)
(* for the age scrub, nobody stays longer than the others explain.         *)
(*                                                                         *)
(* The lists: a request to join is on its way for two cycles, in which its *)
(* candidate neither asks again nor is in any list; a node says once that  *)
(* it finished.  The record: whatever a validator keeps for it, every      *)
(* other one keeps as well or has a message on the way.  The candidate     *)
(* that leaves: its request is still valid when it is sent.                *)
(***************************************************************************)
EXTENDS Membership, FiniteSetTheorems, TLAPS

Statuses == {"none", "selected", "syncing", "ready", "active"}

(* A request to join of cycle k, the last one of its candidate.            *)
JoinOf(j, k) ==
  /\ j = [type |-> "join", who |-> j.who, when |-> k - 1]
  /\ j.who \in Candidate /\ k \in Nat /\ k # 0 /\ asked[j.who] = k

Asked ==
  /\ asked \in [Candidate -> Nat]
  /\ \A c \in Candidate :
       /\ asked[c] <= cycle
       /\ c \in OnStandby \/ status[c] # "none" => asked[c] <= cycle - 2

(* A node that has finished, and whose record is not made yet.             *)
Unfinished(c) == c \in nodes /\ "finished" \in told[c] /\ status[c] \in {"selected", "syncing"}

Told ==
  /\ DOMAIN told = Candidate
  /\ \A c \in Candidate : status[c] \in {"ready", "active"} => "finished" \in told[c]

(* What a validator keeps, what is on its way, and what a record says.     *)
LeaveRequests == [type : {"unjoin"}, who : Candidate, when : Int]
QueueShape(q) ==
  /\ DOMAIN q = DOMAIN EmptyQueue
  /\ q.unjoinNext \in Seq(LeaveRequests) /\ q.unjoinThis \in Seq(LeaveRequests)
Queues == DOMAIN queue = Validator /\ \A v \in Validator : QueueShape(queue[v])

QueueOK(q) ==
  /\ \A j \in q.received : quarter # 3 /\ JoinOf(j, cycle)
  /\ \A j \in q.forGossip : JoinOf(j, IF quarter = 3 THEN cycle ELSE cycle - 1)
  /\ \A j \in q.join : quarter # 3 /\ JoinOf(j, cycle - 1)
  /\ \A c \in q.finished : quarter # 3 /\ Unfinished(c)

BodyTypes == {"join", "unjoin", "refresh", "started", "finished"}
BodyOK(b) ==
  /\ b.type \in BodyTypes
  /\ b.type = "join" => JoinOf(b, cycle - 1)
  /\ b.type = "finished" => Unfinished(b.who)

(* A node is too old for the record of this cycle; when the record keeps   *)
(* it, it removes as many others as the age scrub may.                     *)
TooOld(c) == lastHashed[c] # None /\ cycle - lastHashed[c] >= StandbyTTL
Instead(S) == (\A d \in S : d \in OnStandby /\ TooOld(d)) /\ Cardinality(S) >= MaxScrub

RecordOK(r) ==
  /\ \A j \in r.standbyAdd : JoinOf(j, cycle - 1)
  /\ r.joined \subseteq OnStandby
  /\ r.started \subseteq nodes
  /\ \A c \in r.finished : Unfinished(c)
  /\ r.activated \subseteq ToSet(ready)
  /\ Removed(r) \cap nodes \subseteq Selected
  /\ \A c \in OnStandby \ (r.standbyRemove \cup r.standbyRefresh) :
       TooOld(c) => \E S \in SUBSET r.standbyRemove : Instead(S)
  /\ \A c \in Selected : counter > selected[c] + SyncWait => c \in r.lostAfter

RequestsOK ==
  /\ Queues /\ \A v \in Validator : QueueOK(queue[v])
  /\ \A m \in msgs : m.to \in Validator /\ BodyOK(m.body)
  /\ quarter = 3 => DOMAIN made = Validator /\ \A v \in Validator : RecordOK(made[v])

LostOK ==
  /\ quarter = 3 => lostAfter = {}
  /\ quarter # 3 => /\ lostAfter \cap nodes \subseteq Selected
                    /\ \A c \in Selected : counter > selected[c] + SyncWait => c \in lostAfter
  /\ joined \cap nodes \subseteq Selected

StandbyOK ==
  /\ standby \in [Candidate -> Int] /\ lastHashed \in [Candidate -> Int]
  /\ \A c \in OnStandby :
       /\ standby[c] <= counter
       /\ lastHashed[c] \in {standby[c], None}
       /\ lastHashed[c] = None => counter - standby[c] = 2

Shape ==
  /\ cycle \in Nat /\ cycle # 0 /\ quarter \in {1, 2, 3}
  /\ nodes \subseteq Candidate
  /\ selected \in [Candidate -> Int] /\ status \in [Candidate -> Statuses]
  /\ ready \in Seq(Candidate)

SelectedLeave == \A c \in Selected : counter <= selected[c] + SyncWait + 1

ListInv ==
  /\ Shape /\ LostOK /\ StandbyOK /\ ListsDisjoint /\ SelectedLeave
  /\ Asked /\ Told /\ RequestsOK
-----------------------------------------------------------------------------
(* What a validator keeps for the record, by the kind of request.          *)
Kinds == {"join", "unjoin", "started", "finished"}
Keeps(q, kind) ==
  CASE kind = "join" -> {j.who : j \in q.join}
    [] kind = "unjoin" -> {u.who : u \in q.unjoin}
    [] kind = "started" -> q.started
    [] kind = "finished" -> q.finished

UnderWay(M, v, kind, c) == \E m \in M : m.to = v /\ m.body.type = kind /\ m.body.who = c

Flooded ==
  \A kind \in Kinds, v, w \in Validator :
    \A c \in Keeps(queue[v], kind) : c \in Keeps(queue[w], kind) \/ UnderWay(msgs, w, kind, c)

(* A message is valid wherever it arrives, but that it may be known; and   *)
(* the validator that sent it keeps what it says.                          *)
Welcome(b) ==
  /\ b.type = "join" => b.who \notin OnStandby \cup nodes
  /\ b.type = "unjoin" => UnjoinValid(b, EmptyQueue)
  /\ b.type \in {"started", "finished"} => b.who \in nodes /\ b.when = counter
  /\ b.type = "refresh" => b.owner \in Validator

Sent ==
  \A m \in msgs :
    m.from \in Validator /\ m.body.type \in Kinds => m.body.who \in Keeps(queue[m.from], m.body.type)

MessagesOK ==
  /\ quarter # 1 => msgs = {}
  /\ \A m \in msgs : Welcome(m.body)

SeenOK ==
  \A v \in Validator : \A c \in queue[v].seen :
    c \in Candidate /\ (quarter = 1 => asked[c] = cycle \/ c \in Keeps(queue[v], "join"))

KeptOK ==
  \A v \in Validator :
    /\ \A r \in queue[v].refresh : r.owner \in Validator
    /\ quarter = 3 => \A kind \in Kinds : Keeps(queue[v], kind) = {}

FloodInv == Flooded /\ Sent /\ MessagesOK /\ SeenOK /\ KeptOK /\ RecordsAgree
-----------------------------------------------------------------------------
(* Requests to leave that were taken when the newest record was k's.       *)
LeaveAt(s, k) == \A u \in ToSet(s) : u.who \in Unjoining /\ u.when = k

(* The record of validator v says that c leaves, or will say so.           *)
Caught(v, c) ==
  IF quarter # 3 THEN v \in sent => c \in Keeps(queue[v], "unjoin")
  ELSE IF c \in joined \cup made[v].joined THEN c \in made[v].apoptosized
  ELSE c \in made[v].standbyRemove

LeaveInv ==
  /\ quarter # 1 => sent = Validator
  /\ \A c \in joined : c \in Candidate /\ c \notin OnStandby /\ asked[c] # counter
  /\ \A v \in Validator :
       /\ LeaveAt(queue[v].unjoinNext, counter)
       /\ LeaveAt(queue[v].unjoinThis, counter - 1)
       /\ \A u \in ToSet(queue[v].unjoinThis) : u.who \in OnStandby \cup joined => Caught(v, u.who)
-----------------------------------------------------------------------------
(* The places of the numbers of a set: all from the first to the last, and *)
(* no two numbers have one place.                                          *)
LEMMA Ranks ==
  ASSUME NEW S \in SUBSET Nat, IsFiniteSet(S)
  PROVE  /\ Cardinality(S) \in Nat
         /\ \A x \in S : Cardinality({y \in S : y < x}) \in 0 .. Cardinality(S) - 1
         /\ \A x, z \in S : Cardinality({y \in S : y < x}) = Cardinality({y \in S : y < z}) => x = z
         /\ \A i \in 1 .. Cardinality(S) : \E x \in S : Cardinality({y \in S : y < x}) = i - 1
<1> DEFINE n == Cardinality(S)
           Below(x) == {y \in S : y < x}
           rank == [x \in S |-> Cardinality(Below(x)) + 1]
<1>1. n \in Nat
  BY FS_CardinalityType
<1>2. ASSUME NEW x \in S
      PROVE  IsFiniteSet(Below(x)) /\ Cardinality(Below(x)) \in 0 .. n - 1
  <2>1. Below(x) \in SUBSET (S \ {x})
    OBVIOUS
  <2>2. IsFiniteSet(S \ {x}) /\ Cardinality(S \ {x}) = n - 1
    BY FS_RemoveElement
  <2>3. /\ IsFiniteSet(Below(x)) /\ Cardinality(Below(x)) <= n - 1
        /\ Cardinality(Below(x)) \in Nat
    BY <2>1, <2>2, FS_Subset, FS_CardinalityType
  <2> QED BY <1>1, <2>3
<1>3. ASSUME NEW x \in S, NEW z \in S, x < z
      PROVE  Cardinality(Below(x)) < Cardinality(Below(z))
  <2>t. \A y \in S : y \in Int
    OBVIOUS
  <2>s. ~(x < x) /\ \A y \in S : y < x => y < z
    BY <1>3, <2>t
  <2>r. x \notin Below(x) /\ x \in Below(z) /\ \A y \in Below(x) : y \in Below(z)
    BY <1>3, <2>s
  <2>1. Below(x) \cup {x} \in SUBSET Below(z) /\ x \notin Below(x)
    <3> HIDE DEF Below
    <3> QED BY <2>r
  <2>2. IsFiniteSet(Below(x) \cup {x}) /\ Cardinality(Below(x) \cup {x}) = Cardinality(Below(x)) + 1
    BY <1>2, <2>1, FS_AddElement
  <2>3. Cardinality(Below(x) \cup {x}) <= Cardinality(Below(z))
    BY <1>2, <2>1, FS_Subset
  <2>4. Cardinality(Below(x)) \in Nat /\ Cardinality(Below(z)) \in Nat
    BY <1>2, FS_CardinalityType
  <2> QED BY <2>2, <2>3, <2>4
<1> HIDE DEF Below, n
<1>4. rank \in [S -> 1 .. n]
  BY <1>1, <1>2
<1>5. ASSUME NEW x \in S, NEW z \in S, rank[x] = rank[z] PROVE x = z
  <2>1. Cardinality(Below(x)) = Cardinality(Below(z))
    BY <1>2, <1>5
  <2>2. ~(x < z) /\ ~(z < x)
    BY <1>2, <1>3, <2>1
  <2> QED BY <2>2
<1>6. rank \in Surjection(S, 1 .. n)
  <2>1. rank \in Injection(S, 1 .. n)
    BY <1>4, <1>5 DEF Injection, IsInjective
  <2>2. IsFiniteSet(1 .. n) /\ Cardinality(1 .. n) = n
    BY <1>1, FS_Interval
  <2> QED BY <2>1, <2>2, FS_Injection DEF n
<1>7. ASSUME NEW i \in 1 .. n PROVE \E x \in S : Cardinality(Below(x)) = i - 1
  <2>1. PICK x \in S : rank[x] = i
    BY <1>6 DEF Surjection
  <2>2. Cardinality(Below(x)) = i - 1
    BY <1>1, <1>2, <2>1
  <2> QED BY <2>2
<1>8. \A x, z \in S : Cardinality(Below(x)) = Cardinality(Below(z)) => x = z
  BY <1>5
<1> QED BY <1>1, <1>2, <1>7, <1>8 DEF Below, n

(* The first K of a set of numbers are K at least, if there are others.    *)
LEMMA FirstOnes ==
  ASSUME NEW S \in SUBSET Nat, IsFiniteSet(S), NEW K \in Nat,
         NEW c \in S, ~(Cardinality({y \in S : y < c}) < K)
  PROVE  Cardinality({x \in S : Cardinality({y \in S : y < x}) < K}) >= K
<1> DEFINE Rank(x) == Cardinality({y \in S : y < x})
           F == {x \in S : Rank(x) < K}
           f == [x \in F |-> Rank(x) + 1]
<1>1. /\ Cardinality(S) \in Nat /\ \A x \in S : Rank(x) \in 0 .. Cardinality(S) - 1
      /\ \A i \in 1 .. Cardinality(S) : \E x \in S : Rank(x) = i - 1
      /\ ~(Rank(c) < K)
  BY Ranks
<1> HIDE DEF Rank
<1>2. K < Cardinality(S)
  BY <1>1
<1>3. \A x \in F : f[x] \in 1 .. K
  BY <1>1
<1>4. ASSUME NEW i \in 1 .. K PROVE \E x \in F : f[x] = i
  <2>1. i \in 1 .. Cardinality(S) /\ i - 1 < K
    BY <1>1, <1>2
  <2>2. PICK x \in S : Rank(x) = i - 1
    BY <1>1, <2>1
  <2>3. x \in F /\ f[x] = i
    BY <2>1, <2>2
  <2> QED BY <2>3
<1>5. F \in SUBSET S
  OBVIOUS
<1> HIDE DEF F
<1>6. f \in Surjection(F, 1 .. K)
  BY <1>3, <1>4 DEF Surjection
<1>7. IsFiniteSet(F)
  BY <1>5, FS_Subset
<1>8. Cardinality(1 .. K) <= Cardinality(F) /\ Cardinality(1 .. K) = K
  <2> HIDE DEF f
  <2> QED BY <1>6, <1>7, FS_Surjection, FS_Interval
<1>9. Cardinality(F) \in Nat
  BY <1>7, FS_CardinalityType
<1>10. Cardinality(F) >= K
  BY <1>8, <1>9
<1> QED BY <1>10 DEF F, Rank

(* The numbers of a set in ascending order: each of them, and none twice.  *)
LEMMA AscendingFacts ==
  ASSUME NEW S \in SUBSET Nat, IsFiniteSet(S)
  PROVE  /\ Cardinality(S) \in Nat
         /\ Ascending(S) \in [1 .. Cardinality(S) -> S]
         /\ \A x \in S : \E i \in 1 .. Cardinality(S) : Ascending(S)[i] = x
         /\ \A i, j \in 1 .. Cardinality(S) : Ascending(S)[i] = Ascending(S)[j] => i = j
<1> DEFINE n == Cardinality(S)
           Rank(x) == Cardinality({y \in S : y < x})
           A == Ascending(S)
<1>1. /\ n \in Nat /\ \A x \in S : Rank(x) \in 0 .. n - 1
      /\ \A x, z \in S : Rank(x) = Rank(z) => x = z
      /\ \A i \in 1 .. n : \E x \in S : Rank(x) = i - 1
  BY Ranks
<1>2. A = [i \in 1 .. n |-> CHOOSE x \in S : Rank(x) = i - 1]
  BY DEF Ascending
<1> HIDE DEF Rank, n, A
<1>3. ASSUME NEW i \in 1 .. n
      PROVE  A[i] \in S /\ Rank(A[i]) = i - 1
  <2>1. \E x \in S : Rank(x) = i - 1
    BY <1>1
  <2>2. A[i] = CHOOSE x \in S : Rank(x) = i - 1
    BY <1>2
  <2> QED BY <2>1, <2>2
<1>4. ASSUME NEW x \in S PROVE \E i \in 1 .. n : A[i] = x
  <2>1. \A k \in 0 .. n - 1 : \E i \in 1 .. n : i - 1 = k
    BY <1>1
  <2>2. PICK i \in 1 .. n : i - 1 = Rank(x)
    BY <1>1, <2>1
  <2>3. A[i] \in S /\ Rank(A[i]) = Rank(x)
    BY <1>3, <2>2
  <2> QED BY <1>1, <2>3
<1>5. A \in [1 .. n -> S]
  BY <1>2, <1>3
<1>6. \A i, j \in 1 .. n : A[i] = A[j] => i = j
  <2> SUFFICES ASSUME NEW i \in 1 .. n, NEW j \in 1 .. n, A[i] = A[j] PROVE i = j
    OBVIOUS
  <2>1. i - 1 = j - 1
    BY <1>3
  <2> QED BY <1>1, <2>1
<1> QED BY <1>1, <1>4, <1>5, <1>6 DEF A, n

(* A list of candidates, each of the set C once.                           *)
ListOf(s, C) == s \in Seq(Candidate) /\ ToSet(s) = C /\ IsInjective(s)

LEMMA MakeList ==
  ASSUME NEW C \in SUBSET Candidate, NEW n \in Nat, NEW f \in [1 .. n -> C],
         \A c \in C : \E i \in 1 .. n : f[i] = c,
         \A i, j \in 1 .. n : f[i] = f[j] => i = j
  PROVE  ListOf(f, C)
<1>1. f \in Seq(Candidate) /\ DOMAIN f = 1 .. n
  OBVIOUS
<1>2. ToSet(f) = C
  BY <1>1 DEF ToSet
<1>3. IsInjective(f)
  BY <1>1 DEF IsInjective
<1> QED BY <1>1, <1>2, <1>3 DEF ListOf

LEMMA ConcatLists ==
  ASSUME NEW s, NEW t, NEW C, NEW D, ListOf(s, C), ListOf(t, D), C \cap D = {}
  PROVE  ListOf(s \o t, C \cup D)
<1>1. /\ s \in Seq(Candidate) /\ t \in Seq(Candidate)
      /\ Len(s) \in Nat /\ Len(t) \in Nat
      /\ DOMAIN s = 1 .. Len(s) /\ DOMAIN t = 1 .. Len(t)
  BY DEF ListOf
<1> DEFINE u == s \o t
<1>2. /\ u \in Seq(Candidate) /\ DOMAIN u = 1 .. Len(s) + Len(t)
      /\ \A i \in 1 .. Len(s) : u[i] = s[i]
      /\ \A i \in DOMAIN u : i \notin 1 .. Len(s) => i - Len(s) \in DOMAIN t /\ u[i] = t[i - Len(s)]
      /\ \A i \in 1 .. Len(t) : i + Len(s) \in DOMAIN u /\ u[i + Len(s)] = t[i]
  BY <1>1
<1>3. /\ \A i \in DOMAIN s : s[i] \in C
      /\ \A i \in DOMAIN t : t[i] \in D
      /\ \A c \in C : \E i \in DOMAIN s : s[i] = c
      /\ \A c \in D : \E i \in DOMAIN t : t[i] = c
      /\ \A i, j \in DOMAIN s : s[i] = s[j] => i = j
      /\ \A i, j \in DOMAIN t : t[i] = t[j] => i = j
  BY DEF ListOf, ToSet, IsInjective
<1> HIDE DEF u
<1>4. \A i \in 1 .. Len(s) : i \in DOMAIN u
  BY <1>1, <1>2
<1>5. ToSet(u) = C \cup D
  <2>1. \A i \in DOMAIN u : u[i] \in C \cup D
    BY <1>1, <1>2, <1>3
  <2>2. ASSUME NEW c \in C \cup D PROVE \E i \in DOMAIN u : u[i] = c
    <3>1. CASE c \in C
      BY <1>1, <1>2, <1>3, <1>4, <3>1
    <3>2. CASE c \in D
      <4>1. PICK i \in 1 .. Len(t) : t[i] = c
        BY <1>1, <1>3, <3>2
      <4>2. i + Len(s) \in DOMAIN u /\ u[i + Len(s)] = c
        BY <1>2, <4>1
      <4> QED BY <4>2
    <3> QED BY <3>1, <3>2
  <2> QED BY <2>1, <2>2 DEF ToSet
<1>6. ASSUME NEW i \in DOMAIN u, NEW j \in DOMAIN u, u[i] = u[j]
      PROVE  i = j
  <2>1. CASE i \in 1 .. Len(s) /\ j \in 1 .. Len(s)
    BY <1>1, <1>2, <1>3, <1>6, <2>1
  <2>2. CASE i \notin 1 .. Len(s) /\ j \notin 1 .. Len(s)
    <3>1. i - Len(s) = j - Len(s)
      BY <1>2, <1>3, <1>6, <2>2
    <3> QED BY <1>1, <1>2, <3>1
  <2>3. CASE i \in 1 .. Len(s) /\ j \notin 1 .. Len(s)
    BY <1>1, <1>2, <1>3, <1>6, <2>3
  <2>4. CASE i \notin 1 .. Len(s) /\ j \in 1 .. Len(s)
    BY <1>1, <1>2, <1>3, <1>6, <2>4
  <2> QED BY <2>1, <2>2, <2>3, <2>4
<1>7. IsInjective(u)
  BY <1>6 DEF IsInjective
<1> QED BY <1>2, <1>5, <1>7 DEF ListOf, u

LEMMA KeptList ==
  ASSUME ListOf(ready, ToSet(ready)), NEW r
  PROVE  ListOf(KeptReady(r), ToSet(ready) \ (r.activated \cup Removed(r)))
<1> DEFINE gone == r.activated \cup Removed(r)
           K == {i \in DOMAIN ready : ready[i] \notin gone}
           C == ToSet(ready) \ gone
           n == Cardinality(K)
           f == [i \in 1 .. n |-> ready[Ascending(K)[i]]]
<1> HIDE DEF gone
<1>1. /\ ready \in Seq(Candidate) /\ Len(ready) \in Nat /\ DOMAIN ready = 1 .. Len(ready)
      /\ \A i, j \in DOMAIN ready : ready[i] = ready[j] => i = j
  BY DEF ListOf, IsInjective
<1>2. K \in SUBSET Nat /\ IsFiniteSet(K)
  <2>1. K \in SUBSET (1 .. Len(ready)) /\ IsFiniteSet(1 .. Len(ready))
    BY <1>1, FS_Interval
  <2> QED BY <1>1, <2>1, FS_Subset
<1>3. /\ n \in Nat /\ Ascending(K) \in [1 .. n -> K]
      /\ \A x \in K : \E i \in 1 .. n : Ascending(K)[i] = x
      /\ \A i, j \in 1 .. n : Ascending(K)[i] = Ascending(K)[j] => i = j
  <2> HIDE DEF K
  <2> QED BY <1>2, AscendingFacts
<1>4. /\ \A x \in K : x \in DOMAIN ready /\ ready[x] \in C
      /\ \A c \in C : \E x \in K : ready[x] = c
      /\ C \subseteq Candidate
  BY <1>1 DEF ToSet
<1> HIDE DEF K, C, n
<1>5. f \in [1 .. n -> C]
  BY <1>3, <1>4
<1>6. ASSUME NEW c \in C PROVE \E i \in 1 .. n : f[i] = c
  <2>1. PICK x \in K : ready[x] = c
    BY <1>4
  <2>2. PICK i \in 1 .. n : Ascending(K)[i] = x
    BY <1>3
  <2> QED BY <2>1, <2>2
<1>7. ASSUME NEW i \in 1 .. n, NEW j \in 1 .. n, f[i] = f[j] PROVE i = j
  <2>1. ready[Ascending(K)[i]] = ready[Ascending(K)[j]]
    BY <1>7
  <2> QED BY <1>1, <1>3, <1>4, <2>1
<1>8. KeptReady(r) = f
  <2>1. DOMAIN Ascending(K) = 1 .. n
    BY <1>3
  <2>2. KeptReady(r) = [i \in DOMAIN Ascending(K) |-> ready[Ascending(K)[i]]]
    BY DEF KeptReady, K, gone
  <2> QED BY <2>1, <2>2
<1> HIDE DEF f
<1>9. ListOf(f, C)
  BY SMTT(30), <1>3, <1>4, <1>5, <1>6, <1>7, MakeList
<1> QED BY <1>8, <1>9 DEF C, gone

(* readyByTimeAndIdOrder after a record.                                   *)
LEMMA ReadyList ==
  ASSUME ListOf(ready, ToSet(ready)), NEW r, r.finished \in SUBSET Candidate,
         r.finished \cap ToSet(ready) = {}
  PROVE  ListOf(KeptReady(r) \o NewlyReady(r),
                (ToSet(ready) \cup r.finished) \ (r.activated \cup Removed(r)))
<1> DEFINE gone == r.activated \cup Removed(r)
           D == (r.finished \ r.activated) \ Removed(r)
<1>1. D \in SUBSET Nat /\ D \in SUBSET Candidate /\ IsFiniteSet(D)
  BY MembershipAssumption, FS_Subset
<1>2. ListOf(NewlyReady(r), D)
  <2> HIDE DEF D
  <2>1. /\ Cardinality(D) \in Nat /\ Ascending(D) \in [1 .. Cardinality(D) -> D]
        /\ \A c \in D : \E i \in 1 .. Cardinality(D) : Ascending(D)[i] = c
        /\ \A i, j \in 1 .. Cardinality(D) : Ascending(D)[i] = Ascending(D)[j] => i = j
    BY <1>1, AscendingFacts
  <2>2. ListOf(Ascending(D), D)
    BY <1>1, <2>1, MakeList
  <2> QED BY <2>2 DEF NewlyReady, D
<1>3. ListOf(KeptReady(r), ToSet(ready) \ gone)
  BY KeptList
<1>4. (ToSet(ready) \ gone) \cap D = {}
  OBVIOUS
<1>5. ListOf(KeptReady(r) \o NewlyReady(r), (ToSet(ready) \ gone) \cup D)
  <2> HIDE DEF D, gone
  <2> QED BY <1>2, <1>3, <1>4, ConcatLists
<1>6. (ToSet(ready) \ gone) \cup D = (ToSet(ready) \cup r.finished) \ gone
  OBVIOUS
<1> QED BY <1>5, <1>6
-----------------------------------------------------------------------------
QueueFields ==
  {"received", "forGossip", "join", "seen", "unjoinNext", "unjoinThis", "unjoin",
   "toRefresh", "refresh", "started", "finished"}

LEMMA FieldNames == DOMAIN EmptyQueue = QueueFields
BY DEF EmptyQueue, QueueFields

(* A step that changes no record and no list: what was true of requests,   *)
(* messages and records remains so, as the candidate that asks had nothing *)
(* on its way.                                                             *)
Asks ==
  /\ UNCHANGED <<cycle, quarter, standby, lastHashed, lists, joined, lostAfter, made>>
  /\ asked' \in [Candidate -> Nat] /\ DOMAIN told' = Candidate
  /\ \A c \in Candidate :
       /\ \/ asked'[c] = asked[c]
          \/ asked'[c] = cycle /\ status[c] = "none" /\ c \notin OnStandby /\ (asked[c] = 0 \/ asked[c] <= cycle - 2)
       /\ told[c] \subseteq told'[c] \/ status[c] = "none"

LEMMA AsksJoin ==
  ASSUME ListInv, Asks, NEW j, NEW k, k = cycle \/ k = cycle - 1, JoinOf(j, k)
  PROVE  JoinOf(j, k)'
<1>1. j.who \in Candidate /\ k # 0 /\ asked[j.who] = k /\ cycle \in Nat
  BY DEF JoinOf, ListInv, Shape
<1>2. asked'[j.who] = asked[j.who]
  BY <1>1 DEF Asks
<1> QED BY <1>1, <1>2 DEF JoinOf

LEMMA AsksUnfinished ==
  ASSUME ListInv, Asks, NEW c, Unfinished(c)
  PROVE  Unfinished(c)'
<1>1. UNCHANGED <<nodes, status>> /\ nodes \subseteq Candidate /\ status[c] # "none"
  BY DEF Asks, lists, ListInv, Shape, Unfinished
<1> QED BY <1>1 DEF Asks, Unfinished

LEMMA AsksKeeps ==
  ASSUME ListInv, Asks
  PROVE  /\ \A q : QueueOK(q) => QueueOK(q)'
         /\ \A b : BodyOK(b) => BodyOK(b)'
         /\ \A r : RecordOK(r) => RecordOK(r)'
<1>1. UNCHANGED <<cycle, quarter, standby, lastHashed, nodes, selected, status, ready, lists>>
  BY DEF Asks, lists
<1>2. ASSUME NEW j, NEW k, k = cycle \/ k = cycle - 1, JoinOf(j, k) PROVE JoinOf(j, k)'
  BY <1>2, AsksJoin
<1>3. ASSUME NEW c, Unfinished(c) PROVE Unfinished(c)'
  BY <1>3, AsksUnfinished
<1>4. ASSUME NEW q, QueueOK(q) PROVE QueueOK(q)'
  BY <1>1, <1>2, <1>3, <1>4 DEF QueueOK
<1>5. ASSUME NEW b, BodyOK(b) PROVE BodyOK(b)'
  BY <1>1, <1>2, <1>3, <1>5 DEF BodyOK
<1>6. ASSUME NEW r, RecordOK(r) PROVE RecordOK(r)'
  BY <1>1, <1>2, <1>3, <1>6 DEF RecordOK, TooOld, Instead, OnStandby, Selected, Removed, counter
<1> QED BY <1>4, <1>5, <1>6

LEMMA AsksStep ==
  ASSUME ListInv, Asks, Queues',
         \A v \in Validator : QueueOK(queue[v])',
         \A m \in msgs' : m.to \in Validator /\ BodyOK(m.body)'
  PROVE  ListInv'
<1>1. UNCHANGED <<cycle, quarter, standby, lastHashed, nodes, selected, status, ready, syncing, active,
                  joined, lostAfter, made>>
  BY DEF Asks, lists
<1>2. Shape' /\ LostOK' /\ StandbyOK' /\ ListsDisjoint' /\ SelectedLeave'
  BY ZenonT(60), <1>1
  DEF ListInv, Shape, LostOK, StandbyOK, ListsDisjoint, SelectedLeave, OnStandby, Selected, counter
<1>3. Asked'
  <2>1. ASSUME NEW c \in Candidate
        PROVE  asked'[c] <= cycle /\ (c \in OnStandby \/ status[c] # "none" => asked'[c] <= cycle - 2)
    <3>1. asked[c] <= cycle /\ (c \in OnStandby \/ status[c] # "none" => asked[c] <= cycle - 2)
      BY DEF ListInv, Asked
    <3>2. asked'[c] = asked[c] \/ (asked'[c] = cycle /\ status[c] = "none" /\ c \notin OnStandby)
      BY DEF Asks
    <3>3. cycle \in Nat
      BY DEF ListInv, Shape
    <3> QED BY <3>1, <3>2, <3>3
  <2> QED BY <1>1, <2>1 DEF Asks, Asked, OnStandby
<1>4. Told'
  BY <1>1 DEF ListInv, Asks, Told
<1>5. RequestsOK'
  <2>1. ASSUME NEW v \in Validator, quarter = 3 PROVE RecordOK(made[v])'
    <3>1. RecordOK(made[v])
      BY <2>1 DEF ListInv, RequestsOK
    <3>2. PICK r : r = made[v]
      OBVIOUS
    <3>3. RecordOK(r)'
      BY <3>1, <3>2, AsksKeeps
    <3>4. made'[v] = r
      BY <1>1, <3>2
    <3> QED BY <3>3, <3>4 DEF RecordOK, Removed
  <2> QED BY <1>1, <2>1 DEF ListInv, RequestsOK
<1> QED BY <1>2, <1>3, <1>4, <1>5 DEF ListInv
-----------------------------------------------------------------------------
(* What each step does to the queues.                                      *)
(* The queue p holds what q does for the coming record.                    *)
SameRecord(q, p) ==
  p.join = q.join /\ p.unjoin = q.unjoin /\ p.refresh = q.refresh /\ p.started = q.started /\ p.finished = q.finished

SameLeave(q, p) == p.unjoinNext = q.unjoinNext /\ p.unjoinThis = q.unjoinThis

LEMMA JoinQueue ==
  ASSUME Queues, NEW c \in Candidate, NEW v \in Validator, Join(c, v)
  PROVE  /\ Queues' /\ \A w \in Validator : w # v => queue'[w] = queue[w]
         /\ SameRecord(queue[v], queue'[v]) /\ SameLeave(queue[v], queue'[v])
         /\ queue'[v].forGossip = queue[v].forGossip /\ queue'[v].seen \subseteq queue[v].seen \cup {c}
         /\ \A j \in queue'[v].received :
              j \in queue[v].received \/ (quarter = 1 /\ j = [type |-> "join", who |-> c, when |-> counter])
BY FieldNames DEF Queues, QueueShape, Join, SameRecord, SameLeave, QueueFields

LEMMA UnjoinQueue ==
  ASSUME Queues, ListInv, NEW c \in Candidate, NEW v \in Validator, Unjoin(c, v) \/ AskRefresh(c, v)
  PROVE  /\ Queues' /\ \A w \in Validator : w # v => queue'[w] = queue[w]
         /\ SameRecord(queue[v], queue'[v]) /\ queue'[v].forGossip = queue[v].forGossip
         /\ queue'[v].seen = queue[v].seen /\ queue'[v].received = queue[v].received
         /\ queue'[v].unjoinThis = queue[v].unjoinThis
         /\ \/ queue'[v].unjoinNext = queue[v].unjoinNext
            \/ /\ c \in Unjoining
               /\ queue'[v].unjoinNext = Append(queue[v].unjoinNext, [type |-> "unjoin", who |-> c, when |-> counter])
<1> DEFINE q == queue[v]
           p == queue'[v]
           u == [type |-> "unjoin", who |-> c, when |-> counter]
<1>1. /\ DOMAIN queue' = Validator /\ \A w \in Validator : w # v => queue'[w] = queue[w]
      /\ DOMAIN p = QueueFields /\ SameRecord(q, p) /\ p.forGossip = q.forGossip
      /\ p.seen = q.seen /\ p.received = q.received /\ p.unjoinThis = q.unjoinThis
      /\ p.unjoinNext = q.unjoinNext \/ (c \in Unjoining /\ p.unjoinNext = Append(q.unjoinNext, u))
  BY FieldNames DEF Queues, QueueShape, Unjoin, AskRefresh, SameRecord, QueueFields
<1>2. u \in LeaveRequests
  BY DEF LeaveRequests, counter, ListInv, Shape
<1>3. q.unjoinNext \in Seq(LeaveRequests) /\ q.unjoinThis \in Seq(LeaveRequests)
  BY DEF Queues, QueueShape
<1>4. p.unjoinNext \in Seq(LeaveRequests) /\ p.unjoinThis \in Seq(LeaveRequests)
  <2> HIDE DEF u, p, q
  <2>1. Append(q.unjoinNext, u) \in Seq(LeaveRequests)
    BY <1>2, <1>3
  <2> QED BY <1>1, <1>3, <2>1
<1> QED BY <1>1, <1>4, FieldNames DEF Queues, QueueShape

LEMMA SendQueue ==
  ASSUME Queues, NEW v \in Validator, SendRequests(v)
  PROVE  LET q == queue[v]
             p == queue'[v]
         IN  /\ Queues' /\ \A w \in Validator : w # v => queue'[w] = queue[w]
             /\ p.join = q.join \cup Saved(q) /\ p.seen = q.seen \cup {j.who : j \in q.forGossip}
             /\ p.unjoin = q.unjoin \cup Unjoins(q) /\ p.refresh = q.refresh \cup Refreshes(v)
             /\ p.started = q.started /\ p.finished = q.finished
             /\ p.forGossip = {} /\ p.received = q.received /\ SameLeave(q, p)
BY FieldNames DEF Queues, QueueShape, SendRequests, SameLeave, QueueFields

(* Gossip that is new is kept; the rest changes at most which keys of join *)
(* requests were seen.                                                     *)
News(m) == InTime(m) /\ Valid(m.body, queue[m.to])

LEMMA ReceiveQueue ==
  ASSUME Queues, NEW m \in msgs, m.to \in Validator, m.body.type \in BodyTypes, Receive(m)
  PROVE  LET v == m.to
             b == m.body
             q == queue[v]
             p == queue'[v]
             new(type) == News(m) /\ b.type = type
         IN  /\ Queues' /\ \A w \in Validator : w # v => queue'[w] = queue[w]
             /\ p.join = IF new("join") THEN q.join \cup {b} ELSE q.join
             /\ p.unjoin = IF new("unjoin") THEN q.unjoin \cup {b} ELSE q.unjoin
             /\ p.refresh = IF new("refresh") THEN q.refresh \cup {b} ELSE q.refresh
             /\ p.started = IF new("started") THEN q.started \cup {b.who} ELSE q.started
             /\ p.finished = IF new("finished") THEN q.finished \cup {b.who} ELSE q.finished
             /\ p.seen = IF InTime(m) /\ b.type = "join" /\ b.who \notin OnStandby THEN q.seen \cup {b.who} ELSE q.seen
             /\ p.forGossip = q.forGossip /\ p.received = q.received /\ SameLeave(q, p)
<1> DEFINE v == m.to
           b == m.body
           q == queue[v]
           k == Keep(b, q)
           s(o) == See(b, o)
<1>1. /\ QueueShape(q) /\ (QueueShape(queue[v])' => Queues')
      /\ \A w \in Validator : w # v => queue'[w] = queue[w]
      /\ queue'[v] = IF News(m) THEN s(k) ELSE IF InTime(m) THEN s(q) ELSE q
      /\ DOMAIN q = QueueFields
  BY FieldNames DEF Queues, QueueShape, Receive, News
<1>2. /\ DOMAIN k = QueueFields
      /\ k.join = IF b.type = "join" THEN q.join \cup {b} ELSE q.join
      /\ k.unjoin = IF b.type = "unjoin" THEN q.unjoin \cup {b} ELSE q.unjoin
      /\ k.refresh = IF b.type = "refresh" THEN q.refresh \cup {b} ELSE q.refresh
      /\ k.started = IF b.type = "started" THEN q.started \cup {b.who} ELSE q.started
      /\ k.finished = IF b.type = "finished" THEN q.finished \cup {b.who} ELSE q.finished
      /\ SameLeave(q, k) /\ k.seen = q.seen /\ k.forGossip = q.forGossip /\ k.received = q.received
  <2> HIDE DEF b, q, v
  <2> QED BY <1>1 DEF Keep, SameLeave, QueueFields, BodyTypes, b
<1>3. ASSUME NEW o, DOMAIN o = QueueFields
      PROVE  /\ DOMAIN s(o) = QueueFields /\ SameRecord(o, s(o)) /\ SameLeave(o, s(o))
             /\ s(o).seen = IF b.type = "join" /\ b.who \notin OnStandby THEN o.seen \cup {b.who} ELSE o.seen
             /\ s(o).forGossip = o.forGossip /\ s(o).received = o.received
  BY <1>3 DEF See, SameRecord, SameLeave, QueueFields
<1> HIDE DEF b, q, v, k, s
<1>4. /\ DOMAIN s(k) = QueueFields /\ SameRecord(k, s(k)) /\ SameLeave(k, s(k))
      /\ s(k).seen = IF b.type = "join" /\ b.who \notin OnStandby THEN k.seen \cup {b.who} ELSE k.seen
      /\ s(k).forGossip = k.forGossip /\ s(k).received = k.received
  BY <1>2, <1>3
<1>5. /\ DOMAIN s(q) = QueueFields /\ SameRecord(q, s(q)) /\ SameLeave(q, s(q))
      /\ s(q).seen = IF b.type = "join" /\ b.who \notin OnStandby THEN q.seen \cup {b.who} ELSE q.seen
      /\ s(q).forGossip = q.forGossip /\ s(q).received = q.received
  BY <1>1, <1>3
<1>6. CASE News(m)
  <2>1. queue'[v] = s(k) /\ InTime(m)
    BY <1>1, <1>6 DEF News
  <2>2. Queues'
    BY <1>1, <1>2, <1>4, <2>1, FieldNames DEF QueueShape, SameLeave
  <2> QED BY <1>1, <1>2, <1>4, <1>6, <2>1, <2>2 DEF SameRecord, SameLeave, b, q, v
<1>7. CASE ~News(m)
  <2>1. queue'[v] = IF InTime(m) THEN s(q) ELSE q
    BY <1>1, <1>7
  <2>2. Queues'
    BY <1>1, <1>5, <2>1, FieldNames DEF QueueShape, SameLeave
  <2> QED BY <1>1, <1>5, <1>7, <2>1, <2>2 DEF SameRecord, SameLeave, b, q, v
<1> QED BY <1>6, <1>7

LEMMA RunQ3Queue ==
  ASSUME Queues, RunQ3
  PROVE  /\ Queues'
         /\ \A v \in Validator :
              LET q == queue[v]
                  p == queue'[v]
              IN  /\ p.join = {} /\ p.unjoin = {} /\ p.refresh = {} /\ p.started = {} /\ p.finished = {}
                  /\ p.forGossip = q.received /\ p.received = {} /\ p.seen = q.seen /\ SameLeave(q, p)
BY FieldNames DEF Queues, QueueShape, RunQ3, SameLeave, QueueFields

LEMMA CycleQueue ==
  ASSUME Queues, CycleCreator
  PROVE  /\ Queues'
         /\ \A v \in Validator :
              LET q == queue[v]
                  p == queue'[v]
              IN  /\ SameRecord(q, p) /\ p.forGossip = q.forGossip /\ p.received = q.received /\ p.seen = {}
                  /\ p.unjoinNext = <<>> /\ p.unjoinThis = q.unjoinNext
<1>1. \A v \in Validator :
        LET q == queue[v]
            p == queue'[v]
        IN  /\ SameRecord(q, p) /\ p.forGossip = q.forGossip /\ p.received = q.received /\ p.seen = {}
            /\ DOMAIN p = DOMAIN q /\ p.unjoinNext = <<>> /\ p.unjoinThis = q.unjoinNext
  BY FieldNames DEF Queues, QueueShape, CycleCreator, SameRecord, QueueFields
<1>2. DOMAIN queue' = Validator
  BY DEF CycleCreator
<1>3. <<>> \in Seq(LeaveRequests)
  OBVIOUS
<1> QED BY <1>1, <1>2, <1>3 DEF Queues, QueueShape
-----------------------------------------------------------------------------
(* The lists, step by step.                                                *)
LEMMA ListQueues == ASSUME ListInv PROVE Queues
BY DEF ListInv, RequestsOK

LEMMA AsksQueue ==
  ASSUME ListInv, Asks, Queues', NEW v \in Validator,
         LET q == queue[v]
             p == queue'[v]
         IN  /\ \A j \in p.received : j \in q.received \/ (quarter = 1 /\ JoinOf(j, cycle)')
             /\ p.forGossip \subseteq q.forGossip
             /\ \A j \in p.join : j \in q.join \/ (quarter # 3 /\ JoinOf(j, cycle - 1))
             /\ \A c \in p.finished : c \in q.finished \/ (quarter # 3 /\ Unfinished(c))
  PROVE  QueueOK(queue[v])'
<1>1. PICK q : q = queue[v]
  OBVIOUS
<1>2. QueueOK(q)'
  BY <1>1, AsksKeeps DEF ListInv, RequestsOK
<1>3. quarter' = quarter /\ cycle' = cycle
  BY DEF Asks
<1>4. ASSUME NEW j, JoinOf(j, cycle - 1) PROVE JoinOf(j, cycle - 1)'
  <2>1. PICK k : k = cycle - 1
    OBVIOUS
  <2>2. JoinOf(j, k)'
    BY <1>4, <2>1, AsksJoin
  <2> QED BY <1>3, <2>1, <2>2 DEF JoinOf
<1>5. ASSUME NEW c, Unfinished(c) PROVE Unfinished(c)'
  BY <1>5, AsksUnfinished
<1>6. PICK p : p = queue'[v]
  OBVIOUS
<1>8. QueueOK(p)'
  BY <1>1, <1>2, <1>3, <1>4, <1>5, <1>6 DEF QueueOK
<1> QED BY <1>6, <1>8 DEF QueueOK

LEMMA AsksMessages ==
  ASSUME ListInv, Asks, \A m \in msgs' : m \in msgs \/ (m.to \in Validator /\ BodyOK(m.body)')
  PROVE  \A m \in msgs' : m.to \in Validator /\ BodyOK(m.body)'
BY AsksKeeps DEF ListInv, RequestsOK

LEMMA JoinLists ==
  ASSUME Forgetful = {}, ListInv, NEW c \in Candidate, NEW v \in Validator, Join(c, v)
  PROVE  ListInv'
<1>1. /\ asked' = [asked EXCEPT ![c] = cycle] /\ told' = [told EXCEPT ![c] = {}]
      /\ status[c] = "none" /\ c \notin OnStandby /\ (asked[c] = 0 \/ asked[c] <= cycle - 2)
      /\ UNCHANGED chain /\ msgs' = msgs
  BY DEF Join
<1>2. Asks /\ asked'[c] = cycle
  BY <1>1 DEF chain, Asks, ListInv, Shape, Asked, Told
<1>3. cycle' = cycle
  BY <1>1 DEF chain
<1>4. JoinOf([type |-> "join", who |-> c, when |-> counter], cycle)'
  BY <1>2, <1>3 DEF JoinOf, counter, ListInv, Shape
<1>5. Queues' /\ \A w \in Validator : QueueOK(queue[w])'
  <2>1. /\ Queues' /\ \A w \in Validator : w # v => queue'[w] = queue[w]
        /\ SameRecord(queue[v], queue'[v]) /\ queue'[v].forGossip = queue[v].forGossip
        /\ \A j \in queue'[v].received : j \in queue[v].received \/ (quarter = 1 /\ JoinOf(j, cycle)')
    <3>1. PICK n : n = [type |-> "join", who |-> c, when |-> counter]
      OBVIOUS
    <3>2. \A j \in queue'[v].received : j \in queue[v].received \/ (quarter = 1 /\ j = n)
      BY <3>1, ListQueues, JoinQueue
    <3>3. JoinOf(n, cycle)'
      BY <1>3, <1>4, <3>1 DEF JoinOf, counter
    <3>4. \A j : j = n => JoinOf(j, cycle)'
      BY <3>3 DEF JoinOf
    <3> QED BY <3>2, <3>4, ListQueues, JoinQueue
  <2>2. ASSUME NEW w \in Validator, w # v PROVE QueueOK(queue[w])'
    BY <1>2, <2>1, <2>2, AsksQueue
  <2>3. QueueOK(queue[v])'
    BY <1>2, <2>1, AsksQueue DEF SameRecord
  <2> QED BY <2>1, <2>2, <2>3
<1>6. \A m \in msgs' : m.to \in Validator /\ BodyOK(m.body)'
  BY <1>1, <1>2, AsksMessages
<1> QED BY <1>2, <1>5, <1>6, AsksStep

LEMMA UnjoinLists ==
  ASSUME ListInv, NEW c \in Candidate, NEW v \in Validator, Unjoin(c, v) \/ AskRefresh(c, v)
  PROVE  ListInv'
<1>1. Asks /\ msgs' = msgs
  BY DEF Unjoin, AskRefresh, chain, Asks, ListInv, Asked, Told
<1>2. Queues' /\ \A w \in Validator : QueueOK(queue[w])'
  BY <1>1, ListQueues, UnjoinQueue, AsksQueue DEF SameRecord
<1>3. \A m \in msgs' : m.to \in Validator /\ BodyOK(m.body)'
  BY <1>1, AsksMessages
<1> QED BY <1>1, <1>2, <1>3, AsksStep

LEMMA TellLists ==
  ASSUME ListInv, NEW c \in Candidate, NEW what \in {"started", "finished"}, TellProgress(c, what)
  PROVE  ListInv'
<1>1. /\ UNCHANGED <<chain, queue, asked>> /\ told' = [told EXCEPT ![c] = @ \cup {what}]
      /\ c \in nodes /\ what \notin told[c]
      /\ msgs' = msgs \cup Gossip(c, Validator, [type |-> what, who |-> c, when |-> counter], TRUE)
  BY DEF TellProgress
<1>2. Asks
  BY <1>1 DEF chain, Asks, ListInv, Asked, Told
<1>3. Queues' /\ \A w \in Validator : QueueOK(queue[w])'
  BY <1>1, <1>2, ListQueues, AsksQueue DEF Queues
<1>4. what = "finished" => Unfinished(c)'
  BY <1>1 DEF Unfinished, ListInv, Shape, ListsDisjoint, Told, Statuses, chain, lists
<1>5. \A m \in msgs' : m \in msgs \/ (m.to \in Validator /\ m.body = [type |-> what, who |-> c, when |-> counter])
  BY <1>1 DEF Gossip
<1>6. \A m \in msgs' : m \in msgs \/ (m.to \in Validator /\ BodyOK(m.body)')
  BY <1>4, <1>5 DEF BodyTypes, BodyOK
<1>7. \A m \in msgs' : m.to \in Validator /\ BodyOK(m.body)'
  BY <1>2, <1>6, AsksMessages
<1> QED BY <1>2, <1>3, <1>7, AsksStep

LEMMA UnjoinTypes ==
  ASSUME Queues, NEW v \in Validator, NEW b \in Unjoins(queue[v])
  PROVE  b \in LeaveRequests
BY DEF Queues, QueueShape, Unjoins

(* sendRequests gossips the join requests of the last cycle.               *)
LEMMA SendLists ==
  ASSUME ListInv, NEW v \in Validator, SendRequests(v)
  PROVE  ListInv'
<1> DEFINE q == queue[v]
           bodies == Refreshes(v) \cup Unjoins(q) \cup q.forGossip
<1>1. /\ quarter = 1 /\ UNCHANGED <<cycle, quarter, standby, lastHashed, picked, lists, joined, lostAfter, made, asked, told>>
      /\ msgs' = msgs \cup UNION {Gossip(v, Others(v), b, TRUE) : b \in bodies}
  BY DEF SendRequests
<1>2. \A j \in q.forGossip : JoinOf(j, cycle - 1)
  BY <1>1 DEF ListInv, RequestsOK, QueueOK
<1>3. /\ Queues' /\ \A w \in Validator : w # v => queue'[w] = queue[w]
      /\ queue'[v].join = q.join \cup Saved(q) /\ queue'[v].forGossip = {}
      /\ queue'[v].finished = q.finished /\ queue'[v].received = q.received
  BY ListQueues, SendQueue
<1>4. Asks
  BY <1>1 DEF Asks, ListInv, Asked, Told
<1>5. \A w \in Validator : QueueOK(queue[w])'
  <2>1. ASSUME NEW w \in Validator, w # v PROVE QueueOK(queue[w])'
    BY <1>3, <1>4, <2>1, AsksQueue
  <2>2. QueueOK(queue[v])'
    BY <1>1, <1>2, <1>3, <1>4, AsksQueue DEF Saved
  <2> QED BY <2>1, <2>2
<1>6. ASSUME NEW m \in msgs' PROVE m \in msgs \/ (m.to \in Validator /\ BodyOK(m.body)')
  <2>1. CASE m \notin msgs
    <3>1. PICK b \in bodies : m \in Gossip(v, Others(v), b, TRUE)
      BY <1>1, <2>1
    <3>2. m.to \in Validator /\ m.body = b
      BY <3>1 DEF Gossip, Others
    <3>3. BodyOK(b)
      <4>1. CASE b \in q.forGossip
        BY <1>2, <4>1 DEF JoinOf, BodyTypes, BodyOK
      <4>2. CASE b \in Unjoins(q)
        BY <4>2, ListQueues, UnjoinTypes DEF LeaveRequests, BodyTypes, BodyOK
      <4>3. CASE b \in Refreshes(v)
        BY <4>3 DEF Refreshes, BodyTypes, BodyOK
      <4> QED BY <3>1, <4>1, <4>2, <4>3
    <3>4. BodyOK(b)'
      BY <1>4, <3>3, AsksKeeps
    <3> QED BY <3>2, <3>4 DEF BodyOK
  <2> QED BY <2>1
<1>7. \A m \in msgs' : m.to \in Validator /\ BodyOK(m.body)'
  BY <1>4, <1>6, AsksMessages
<1> QED BY <1>3, <1>4, <1>5, <1>7, AsksStep

LEMMA ReceiveLists ==
  ASSUME ListInv, NEW m \in msgs, Receive(m)
  PROVE  ListInv'
<1> DEFINE v == m.to
           b == m.body
<1>1. /\ UNCHANGED <<chain, asked, told>>
      /\ v \in Validator /\ BodyOK(b) /\ Queues
  BY DEF Receive, ListInv, RequestsOK
<1>2. Asks
  BY <1>1 DEF chain, Asks, ListInv, Asked, Told
<1>3. News(m) => quarter # 3
  BY DEF News, InTime
<1>4. /\ Queues' /\ \A w \in Validator : w # v => queue'[w] = queue[w]
      /\ queue'[v].join = IF News(m) /\ b.type = "join" THEN queue[v].join \cup {b} ELSE queue[v].join
      /\ queue'[v].finished = IF News(m) /\ b.type = "finished" THEN queue[v].finished \cup {b.who} ELSE queue[v].finished
      /\ queue'[v].forGossip = queue[v].forGossip /\ queue'[v].received = queue[v].received
  BY <1>1, ReceiveQueue DEF BodyOK
<1>5. ASSUME NEW w \in Validator PROVE QueueOK(queue[w])'
  <2>1. CASE w # v
    BY <1>2, <1>4, <2>1, AsksQueue
  <2>2. CASE w = v
    <3>1. /\ \A j \in queue'[v].join : j \in queue[v].join \/ (quarter # 3 /\ JoinOf(j, cycle - 1))
          /\ \A c \in queue'[v].finished : c \in queue[v].finished \/ (quarter # 3 /\ Unfinished(c))
      BY <1>1, <1>3, <1>4 DEF BodyOK
    <3> QED BY <1>2, <1>4, <2>2, <3>1, AsksQueue
  <2> QED BY <2>1, <2>2
<1>6. ASSUME NEW k \in msgs' PROVE k \in msgs \/ (k.to \in Validator /\ BodyOK(k.body)')
  <2>1. k \in msgs \/ (k.to \in Validator /\ k.body = b)
    BY DEF Receive, Gossip, Others
  <2>2. PICK d : d = b
    OBVIOUS
  <2>3. BodyOK(d)'
    BY <1>1, <1>2, <2>2, AsksKeeps
  <2>4. k.body = b => BodyOK(k.body)'
    BY <2>2, <2>3 DEF BodyOK
  <2> QED BY <2>1, <2>4
<1>7. \A k \in msgs' : k.to \in Validator /\ BodyOK(k.body)'
  BY <1>2, <1>6, AsksMessages
<1> QED BY <1>2, <1>4, <1>5, <1>7, AsksStep

LEMMA RunQ2Lists ==
  ASSUME ListInv, RunQ2
  PROVE  ListInv'
<1>1. /\ UNCHANGED <<cycle, standby, lastHashed, nodes, selected, syncing, ready, active, status,
                     joined, lostAfter, made, queue, asked, told, msgs>>
      /\ quarter = 1 /\ quarter' = 2
  BY DEF RunQ2, lists
<1>2. Shape' /\ LostOK' /\ StandbyOK' /\ ListsDisjoint' /\ SelectedLeave' /\ Asked' /\ Told'
  <2>1. Shape' /\ ListsDisjoint' /\ SelectedLeave'
    BY <1>1 DEF ListInv, Shape, ListsDisjoint, SelectedLeave, OnStandby, Selected, counter
  <2>2. LostOK' /\ StandbyOK'
    BY <1>1 DEF ListInv, LostOK, StandbyOK, OnStandby, Selected, counter
  <2>3. Asked' /\ Told'
    BY <1>1 DEF ListInv, Asked, Told, OnStandby
  <2> QED BY <2>1, <2>2, <2>3
<1>3. RequestsOK'
  BY <1>1 DEF ListInv, RequestsOK, Queues, QueueShape, QueueOK, BodyOK, JoinOf, Unfinished
<1> QED BY <1>2, <1>3 DEF ListInv

LEMMA ActivatedReady ==
  ASSUME ready \in Seq(Candidate)
  PROVE  Activated \subseteq ToSet(ready)
<1> DEFINE n == Min({AllowActive, Len(ready)})
<1>1. n \in {AllowActive, Len(ready)}
  <2>1. {AllowActive, Len(ready)} \in SUBSET Nat
    BY MembershipAssumption
  <2>2. {AllowActive, Len(ready)} # {}
    OBVIOUS
  <2>3. \A a, b \in Nat : \E x \in {a, b} : \A y \in {a, b} : x <= y
    OBVIOUS
  <2>4. \E x \in {AllowActive, Len(ready)} : \A y \in {AllowActive, Len(ready)} : x <= y
    BY <2>1, <2>3
  <2> QED BY <2>4 DEF Min
<1>2. n \in Nat /\ n <= Len(ready)
  <2>1. AllowActive \in Nat /\ Len(ready) \in Nat
    BY MembershipAssumption
  <2>2. \E x \in {AllowActive, Len(ready)} : \A y \in {AllowActive, Len(ready)} : x <= y
    BY <2>1
  <2>3. \A y \in {AllowActive, Len(ready)} : n <= y
    BY <2>2 DEF Min
  <2> QED BY <1>1, <2>1, <2>3
<1> HIDE DEF n
<1>3. Activated = ToSet(SubSeq(ready, 1, n))
  BY DEF Activated, n
<1> DEFINE s == SubSeq(ready, 1, n)
<1>4. \A i \in DOMAIN s : i \in DOMAIN ready /\ s[i] = ready[i]
  BY <1>2
<1> QED BY <1>3, <1>4 DEF ToSet

(* What updateRecord makes.                                                *)
LEMMA MadeOK ==
  ASSUME ListInv, quarter = 2, NEW v \in Validator
  PROVE  RecordOK(MakeRecord(v))
<1> DEFINE q == queue[v]
           r == MakeRecord(v)
<1>1. /\ r.standbyAdd = q.join /\ Scrubbed(q) \subseteq r.standbyRemove /\ r.standbyRefresh = Refreshed(q)
      /\ r.joined = Joining /\ r.apoptosized = ToRemove(q) /\ r.started \subseteq nodes
      /\ r.finished \subseteq q.finished /\ r.lostAfter = lostAfter /\ r.activated = Activated
  BY DEF MakeRecord
<1>2. QueueOK(q)
  BY DEF ListInv, RequestsOK
<1>3. ToRemove(q) \cap nodes \subseteq Selected
  BY DEF ToRemove, Joining, ListInv, ListsDisjoint, LostOK
<1>4. lostAfter \cap nodes \subseteq Selected
  BY DEF ListInv, LostOK
<1>5. Activated \subseteq ToSet(ready)
  BY ActivatedReady DEF ListInv, Shape
<1>6. Joining \subseteq OnStandby
  BY DEF Joining
<1>7. \A c \in Selected : counter > selected[c] + SyncWait => c \in lostAfter
  BY DEF ListInv, LostOK
<1>8. ASSUME NEW c \in OnStandby, c \notin Scrubbed(q), c \notin Refreshed(q), TooOld(c)
      PROVE  Instead(Scrubbed(q))
  <2>1. Overdue(q) \in SUBSET Nat /\ IsFiniteSet(Overdue(q)) /\ MaxScrub \in Nat
    <3>1. Overdue(q) \in SUBSET Candidate
      BY DEF Overdue, OnStandby
    <3> QED BY <3>1, MembershipAssumption, FS_Subset
  <2>2. c \in Overdue(q)
    BY <1>8 DEF Overdue, TooOld
  <2>3. ~(Cardinality({d \in Overdue(q) : d < c}) < MaxScrub)
    BY <1>8, <2>2 DEF Scrubbed
  <2>4. Cardinality(Scrubbed(q)) >= MaxScrub
    <3> DEFINE T == Overdue(q)
    <3>1. Scrubbed(q) = {d \in T : Cardinality({y \in T : y < d}) < MaxScrub}
      BY DEF Scrubbed
    <3>2. T \in SUBSET Nat /\ IsFiniteSet(T) /\ c \in T /\ ~(Cardinality({y \in T : y < c}) < MaxScrub)
      BY <2>1, <2>2, <2>3
    <3> HIDE DEF T
    <3> QED BY <2>1, <3>1, <3>2, FirstOnes
  <2>5. \A d \in Scrubbed(q) : d \in OnStandby /\ TooOld(d)
    BY DEF Scrubbed, Overdue, TooOld
  <2> QED BY <2>4, <2>5 DEF Instead
<1> HIDE DEF r, q
<1>9. \A j \in r.standbyAdd : JoinOf(j, cycle - 1)
  BY <1>1, <1>2 DEF QueueOK
<1>10. \A c \in r.finished : Unfinished(c)
  BY <1>1, <1>2 DEF QueueOK
<1>11. RecordOK(r)
  BY <1>1, <1>3, <1>4, <1>5, <1>6, <1>7, <1>8, <1>9, <1>10 DEF RecordOK, Removed
<1> QED BY <1>11 DEF r

LEMMA RunQ3Lists ==
  ASSUME ListInv, RunQ3
  PROVE  ListInv'
<1>1. /\ UNCHANGED <<cycle, standby, lastHashed, nodes, selected, syncing, ready, active, status,
                     joined, asked, told, msgs>>
      /\ quarter = 2 /\ quarter' = 3 /\ lostAfter' = {} /\ made' = [v \in Validator |-> MakeRecord(v)]
  BY DEF RunQ3, lists
<1>2. Shape' /\ LostOK' /\ StandbyOK' /\ ListsDisjoint' /\ SelectedLeave' /\ Asked' /\ Told'
  <2>1. Shape' /\ ListsDisjoint' /\ SelectedLeave'
    BY <1>1 DEF ListInv, Shape, ListsDisjoint, SelectedLeave, OnStandby, Selected, counter
  <2>2. LostOK' /\ StandbyOK'
    BY <1>1 DEF ListInv, LostOK, StandbyOK, OnStandby, Selected, counter
  <2>3. Asked' /\ Told'
    BY <1>1 DEF ListInv, Asked, Told, OnStandby
  <2> QED BY <2>1, <2>2, <2>3
<1>3. Queues' /\ \A v \in Validator : QueueOK(queue[v])'
  <2>1. /\ Queues'
        /\ \A v \in Validator :
             /\ queue'[v].join = {} /\ queue'[v].finished = {}
             /\ queue'[v].forGossip = queue[v].received /\ queue'[v].received = {}
    BY ListQueues, RunQ3Queue
  <2>2. \A v \in Validator : \A j \in queue[v].received : JoinOf(j, cycle)
    BY DEF ListInv, RequestsOK, QueueOK
  <2> QED BY <1>1, <2>1, <2>2 DEF QueueOK, JoinOf
<1>4. \A m \in msgs' : m.to \in Validator /\ BodyOK(m.body)'
  BY <1>1 DEF ListInv, RequestsOK, BodyOK, JoinOf, Unfinished
<1>5. ASSUME NEW v \in Validator PROVE RecordOK(made[v])'
  <2>1. PICK r : r = MakeRecord(v)
    OBVIOUS
  <2>2. RecordOK(r)
    BY <1>1, <2>1, MadeOK
  <2>3. made'[v] = r
    BY <1>1, <2>1
  <2> QED BY <1>1, <2>2, <2>3 DEF RecordOK, TooOld, Instead, Removed, OnStandby, Selected, counter, JoinOf, Unfinished
<1> QED BY <1>1, <1>2, <1>3, <1>4, <1>5 DEF ListInv, RequestsOK
-----------------------------------------------------------------------------
(* A record is digested: what becomes of one candidate in the lists, ...   *)
LEMMA ChangeOne ==
  ASSUME ListInv, NEW r, RecordOK(r), ApplyChange(r), NEW c \in Candidate
  PROVE  /\ c \in nodes' <=> status'[c] # "none"
         /\ selected'[c] # None <=> status'[c] = "selected"
         /\ c \in syncing' <=> status'[c] = "syncing"
         /\ c \in (ToSet(ready) \cup r.finished) \ (r.activated \cup Removed(r)) <=> status'[c] = "ready"
         /\ c \in active' <=> status'[c] = "active"
         /\ status'[c] \in Statuses
         /\ status'[c] \in {"ready", "active"} => "finished" \in told[c]
         /\ selected'[c] \in Int
         /\ selected'[c] # None =>
              \/ selected'[c] = cycle
              \/ /\ c \in Selected /\ selected'[c] = selected[c]
                 /\ c \notin Removed(r) \cup r.started \cup r.finished
         /\ c \in r.joined => c \notin nodes
         /\ c \in r.joined /\ c \notin Removed(r) => selected'[c] = cycle
<1> DEFINE G == Removed(r)
           s == status[c]
<1>1. /\ c \in nodes <=> s # "none"
      /\ c \in Selected <=> s = "selected"
      /\ c \in syncing <=> s = "syncing"
      /\ c \in ToSet(ready) <=> s = "ready"
      /\ c \in active <=> s = "active"
      /\ s \in Statuses
      /\ c \in Selected <=> selected[c] # None
      /\ selected[c] \in Int
  BY DEF ListInv, ListsDisjoint, Shape, Selected
<1>2. /\ c \in r.joined => s = "none"
      /\ c \in r.started => s # "none"
      /\ c \in r.finished => s \in {"selected", "syncing"} /\ "finished" \in told[c]
      /\ c \in r.activated => s = "ready"
      /\ c \in G /\ c \in nodes => s = "selected"
      /\ s \in {"ready", "active"} => "finished" \in told[c]
  BY <1>1 DEF RecordOK, Unfinished, ListInv, ListsDisjoint, Told
<1>3. /\ nodes' = (nodes \cup r.joined) \ G
      /\ status'[c] = IF c \in (nodes \cup r.joined) \ G THEN NewStatus(r, c) ELSE "none"
      /\ selected'[c] = IF c \in r.joined \ (nodes \cup G) THEN cycle
                        ELSE IF c \in G \cup r.started \cup r.finished THEN None ELSE selected[c]
      /\ syncing' = (syncing \cup (r.started \cap Selected)) \ (r.finished \cup G)
      /\ active' = (active \cup r.activated) \ G
  BY DEF ApplyChange, Member
<1>4. NewStatus(r, c) =
        IF c \in r.activated THEN "active" ELSE IF c \in r.finished THEN "ready"
        ELSE IF c \in r.started \cap Selected THEN "syncing"
        ELSE IF c \in r.joined \ nodes THEN "selected" ELSE s
  BY DEF NewStatus
<1>5. cycle \in Int /\ cycle # None /\ None \in Int
  BY DEF ListInv, Shape, None
<1> HIDE DEF G, s
<1>6. CASE c \in G
  BY <1>1, <1>2, <1>3, <1>5, <1>6 DEF Statuses, G
<1>7. CASE c \notin G /\ c \in r.joined
  BY <1>1, <1>2, <1>3, <1>4, <1>5, <1>7 DEF Statuses, G
<1>8. CASE c \notin G /\ c \notin r.joined /\ s = "none"
  BY <1>1, <1>2, <1>3, <1>4, <1>5, <1>8 DEF Statuses, G
<1>9. CASE c \notin G /\ c \notin r.joined /\ s # "none" /\ c \in r.activated
  BY <1>1, <1>2, <1>3, <1>4, <1>5, <1>9 DEF Statuses, G
<1>10. CASE c \notin G /\ c \notin r.joined /\ s # "none" /\ c \notin r.activated /\ c \in r.finished
  BY <1>1, <1>2, <1>3, <1>4, <1>5, <1>10 DEF Statuses, G
<1>11. CASE c \notin G /\ c \notin r.joined /\ s # "none" /\ c \notin r.activated /\ c \notin r.finished /\ c \in r.started
  BY <1>1, <1>2, <1>3, <1>4, <1>5, <1>11 DEF Statuses, G
<1>12. CASE c \notin G /\ c \notin r.joined /\ s # "none" /\ c \notin r.activated /\ c \notin r.finished /\ c \notin r.started
  BY <1>1, <1>2, <1>3, <1>4, <1>5, <1>12 DEF Statuses, G
<1> QED BY <1>6, <1>7, <1>8, <1>9, <1>10, <1>11, <1>12

(* ... and on standby.                                                     *)
LEMMA StandbyOne ==
  ASSUME ListInv, NEW r, RecordOK(r), DigestStandby(r), NEW c \in Candidate
  PROVE  /\ standby'[c] \in Int /\ lastHashed'[c] \in Int
         /\ standby'[c] # None =>
              \/ /\ asked[c] = cycle - 1 /\ c \notin OnStandby /\ status[c] = "none"
                 /\ standby'[c] = cycle - 2 /\ lastHashed'[c] = None
              \/ /\ c \in OnStandby /\ c \notin r.joined /\ c \notin r.standbyRemove
                 /\ lastHashed'[c] = standby'[c]
                 /\ standby'[c] = IF c \in r.standbyRefresh THEN cycle ELSE standby[c]
<1> DEFINE added == \E j \in AddedToStandby(r) : j.who = c
           chosen == CHOOSE j \in AddedToStandby(r) : j.who = c
           refreshed == IF c \in OnStandby /\ c \notin r.joined /\ c \in r.standbyRefresh THEN cycle ELSE standby[c]
<1>1. /\ standby'[c] = IF c \in r.standbyRemove THEN None
                       ELSE IF added THEN chosen.when
                       ELSE IF c \in OnStandby /\ c \notin r.joined THEN refreshed ELSE None
      /\ lastHashed'[c] = refreshed
  BY DEF DigestStandby, StillOnStandby
<1>2. added => chosen \in r.standbyAdd /\ chosen.who = c
  BY DEF AddedToStandby
<1>3. added => /\ asked[c] = cycle - 1 /\ chosen.when = cycle - 2
  <2>1. added => JoinOf(chosen, cycle - 1) /\ chosen.who = c
    BY <1>2 DEF RecordOK
  <2> HIDE DEF chosen, added
  <2>2. cycle \in Int
    BY DEF ListInv, Shape
  <2> QED BY <2>1, <2>2 DEF JoinOf
<1>4. /\ c \in OnStandby \/ status[c] # "none" => asked[c] <= cycle - 2
      /\ standby[c] \in Int /\ cycle \in Int /\ None \in Int /\ asked[c] \in Int
      /\ c \in OnStandby <=> standby[c] # None
  BY DEF ListInv, Asked, StandbyOK, OnStandby, Shape, None
<1> HIDE DEF chosen, added
<1>5. added => c \notin OnStandby /\ status[c] = "none"
  BY <1>3, <1>4
<1> QED BY <1>1, <1>3, <1>4, <1>5

LEMMA MaxOfTwo ==
  ASSUME NEW a \in Int, NEW b \in Int
  PROVE  Max({a, b}) \in Int /\ a <= Max({a, b}) /\ b <= Max({a, b})
<1>1. \E x \in {a, b} : \A y \in {a, b} : y <= x
  OBVIOUS
<1>2. Max({a, b}) \in {a, b} /\ \A y \in {a, b} : y <= Max({a, b})
  BY <1>1 DEF Max
<1> QED BY <1>2

LEMMA CycleLists ==
  ASSUME ListInv, CycleCreator
  PROVE  ListInv'
<1>1. /\ quarter = 3 /\ quarter' = 1 /\ cycle' = cycle + 1 /\ msgs' = {}
      /\ asked' = asked /\ told' = told /\ cycle \in Nat /\ cycle # 0
  BY DEF CycleCreator, ListInv, Shape
<1>2. PICK v \in Validator : /\ ApplyChange(made[v]) /\ DigestStandby(made[v])
                             /\ lostAfter' = lostAfter \cup TooLate(made[v])
                             /\ joined' = made[v].joined
  BY DEF CycleCreator
<1>3. PICK r : r = made[v]
  OBVIOUS
<1>4. /\ RecordOK(r) /\ ApplyChange(r) /\ DigestStandby(r) /\ lostAfter' = TooLate(r) /\ joined' = r.joined
  BY <1>1, <1>2, <1>3 DEF ListInv, RequestsOK, LostOK
<1>5. /\ nodes' \subseteq Candidate /\ syncing' \subseteq Candidate /\ active' \subseteq Candidate
      /\ r.joined \subseteq Candidate
      /\ selected' = [c \in Candidate |-> selected'[c]] /\ status' = [c \in Candidate |-> status'[c]]
      /\ standby' = [c \in Candidate |-> standby'[c]] /\ lastHashed' = [c \in Candidate |-> lastHashed'[c]]
  BY <1>4 DEF ApplyChange, DigestStandby, RecordOK, Member, OnStandby, Selected, ListInv, Shape, ListsDisjoint
<1>6. ListOf(ready', (ToSet(ready) \cup r.finished) \ (r.activated \cup Removed(r)))
  <2>1. ListOf(ready, ToSet(ready))
    BY DEF ListOf, ListInv, ListsDisjoint, Shape
  <2>2. r.finished \in SUBSET Candidate /\ r.finished \cap ToSet(ready) = {}
    BY <1>4 DEF RecordOK, Unfinished, ListInv, ListsDisjoint, Shape
  <2>3. ready' = KeptReady(r) \o NewlyReady(r)
    BY <1>4 DEF ApplyChange
  <2> QED BY <2>1, <2>2, <2>3, ReadyList
<1>7. \A c \in Candidate :
         /\ c \in nodes' <=> status'[c] # "none"
         /\ selected'[c] # None <=> status'[c] = "selected"
         /\ c \in syncing' <=> status'[c] = "syncing"
         /\ c \in (ToSet(ready) \cup r.finished) \ (r.activated \cup Removed(r)) <=> status'[c] = "ready"
         /\ c \in active' <=> status'[c] = "active"
         /\ status'[c] \in Statuses
         /\ status'[c] \in {"ready", "active"} => "finished" \in told[c]
         /\ selected'[c] \in Int
         /\ selected'[c] # None =>
              \/ selected'[c] = cycle
              \/ /\ c \in Selected /\ selected'[c] = selected[c]
                 /\ c \notin Removed(r) \cup r.started \cup r.finished
         /\ c \in r.joined => c \notin nodes
         /\ c \in r.joined /\ c \notin Removed(r) => selected'[c] = cycle
  BY <1>4, ChangeOne
<1>8. \A c \in Candidate :
         /\ standby'[c] \in Int /\ lastHashed'[c] \in Int
         /\ standby'[c] # None =>
              \/ /\ asked[c] = cycle - 1 /\ c \notin OnStandby /\ status[c] = "none"
                 /\ standby'[c] = cycle - 2 /\ lastHashed'[c] = None
              \/ /\ c \in OnStandby /\ c \notin r.joined /\ c \notin r.standbyRemove
                 /\ lastHashed'[c] = standby'[c]
                 /\ standby'[c] = IF c \in r.standbyRefresh THEN cycle ELSE standby[c]
  BY <1>4, StandbyOne
<1>9. ready' \in Seq(Candidate) /\ IsInjective(ready')
      /\ ToSet(ready') = (ToSet(ready) \cup r.finished) \ (r.activated \cup Removed(r))
      /\ ToSet(ready') \subseteq Candidate
  BY <1>4, <1>6 DEF ListOf, RecordOK, Unfinished, ListInv, ListsDisjoint, Shape
<1>10. Shape'
  <2>1. selected' \in [Candidate -> Int] /\ status' \in [Candidate -> Statuses]
    BY <1>5, <1>7
  <2> QED BY <1>1, <1>5, <1>9, <2>1 DEF Shape
<1>11. \A c \in Candidate : standby'[c] # None => c \notin nodes'
  <2>1. nodes' \subseteq nodes \cup r.joined
    BY <1>4 DEF ApplyChange, Member
  <2>2. \A c \in Candidate : c \in r.joined => c \in OnStandby
    BY <1>4 DEF RecordOK
  <2>3. \A c \in Candidate : c \in nodes <=> status[c] # "none"
    BY DEF ListInv, ListsDisjoint
  <2>4. nodes \cap OnStandby = {}
    BY DEF ListInv, ListsDisjoint
  <2> QED BY <1>8, <2>1, <2>2, <2>3, <2>4
<1>12. ListsDisjoint'
  BY <1>5, <1>7, <1>9, <1>11 DEF ListsDisjoint, OnStandby, Selected
<1>13. StandbyOK'
  <2>1. ASSUME NEW c \in Candidate, standby'[c] # None
        PROVE  /\ standby'[c] <= cycle
               /\ lastHashed'[c] \in {standby'[c], None}
               /\ lastHashed'[c] = None => cycle - standby'[c] = 2
    <3>1. CASE standby'[c] = cycle - 2 /\ lastHashed'[c] = None
      BY <1>1, <3>1
    <3>2. CASE lastHashed'[c] = standby'[c] /\ standby'[c] = cycle
      BY <1>1, <3>2 DEF None
    <3>3. CASE c \in OnStandby /\ lastHashed'[c] = standby'[c] /\ standby'[c] = standby[c]
      <4>1. standby[c] <= cycle - 1 /\ standby[c] \in Int
        BY <3>3 DEF ListInv, StandbyOK, counter
      <4> QED BY <1>1, <2>1, <3>3, <4>1
    <3> QED BY <1>8, <2>1, <3>1, <3>2, <3>3
  <2>2. counter' = cycle
    BY <1>1 DEF counter
  <2>3. standby' \in [Candidate -> Int] /\ lastHashed' \in [Candidate -> Int]
    BY <1>5, <1>8
  <2> QED BY <2>1, <2>2, <2>3 DEF StandbyOK, OnStandby
<1>14. /\ \A c \in Candidate : selected'[c] # None => cycle <= selected'[c] + SyncWait + 1
       /\ \A c \in Candidate : selected'[c] # None /\ cycle > selected'[c] + SyncWait => c \in lostAfter'
  <2> SUFFICES ASSUME NEW c \in Candidate, selected'[c] # None
               PROVE  /\ cycle <= selected'[c] + SyncWait + 1
                      /\ cycle > selected'[c] + SyncWait => c \in lostAfter'
    OBVIOUS
  <2>1. SyncWait \in Nat
    BY MembershipAssumption
  <2>2. CASE selected'[c] = cycle
    BY <1>1, <2>1, <2>2
  <2>3. CASE /\ c \in Selected /\ selected'[c] = selected[c]
             /\ c \notin Removed(r) \cup r.started \cup r.finished
    <3>1. ~(cycle - 1 > selected[c] + SyncWait)
      BY <1>4, <2>3 DEF RecordOK, Removed, counter
    <3>2. selected[c] \in Int
      BY DEF ListInv, Shape
    <3>3. c \notin r.joined
      BY <1>7, <2>3 DEF ListInv, ListsDisjoint
    <3>4. cycle > selected[c] + SyncWait => c \in lostAfter'
      BY <1>4, <2>3, <3>3 DEF TooLate, Removed
    <3> QED BY <1>1, <2>1, <2>3, <3>1, <3>2, <3>4
  <2> QED BY <1>7, <2>2, <2>3
<1>15. SelectedLeave'
  BY <1>1, <1>14 DEF SelectedLeave, Selected, counter
<1>16. LostOK'
  <2>1. lostAfter' \cap nodes' \subseteq Selected'
    <3>1. ASSUME NEW c \in TooLate(r), c \in nodes' PROVE selected'[c] # None
      <4>1. /\ c \in Selected /\ c \notin r.joined \cup r.started \cup r.finished /\ c \notin Removed(r)
        BY <1>4, <3>1 DEF TooLate, ApplyChange, Member
      <4> QED BY <1>4, <4>1 DEF ApplyChange, Selected
    <3> QED BY <1>4, <1>5, <3>1 DEF Selected
  <2>2. joined' \cap nodes' \subseteq Selected'
    <3>1. ASSUME NEW c \in r.joined, c \in nodes' PROVE selected'[c] # None
      <4>1. c \notin Removed(r) /\ c \in Candidate
        BY <1>4, <1>5, <3>1 DEF ApplyChange, Member
      <4> QED BY <1>1, <1>7, <4>1 DEF None
    <3> QED BY <1>4, <1>5, <3>1 DEF Selected
  <2> QED BY <1>1, <1>14, <2>1, <2>2 DEF LostOK, Selected, counter
<1>17. Asked' /\ Told'
  <2>1. ASSUME NEW c \in Candidate
        PROVE  /\ asked[c] <= cycle + 1
               /\ standby'[c] # None \/ status'[c] # "none" => asked[c] <= cycle - 1
    <3>1. /\ asked[c] <= cycle /\ asked[c] \in Nat
          /\ c \in OnStandby \/ status[c] # "none" => asked[c] <= cycle - 2
      BY DEF ListInv, Asked
    <3>2. status'[c] # "none" => c \in OnStandby \/ status[c] # "none"
      <4>1. c \in nodes' => c \in nodes \/ c \in r.joined
        BY <1>4 DEF ApplyChange, Member
      <4> QED BY <1>4, <1>7, <4>1 DEF RecordOK, ListInv, ListsDisjoint
    <3> QED BY <1>1, <1>8, <3>1, <3>2
  <2>2. asked' \in [Candidate -> Nat]
    BY <1>1 DEF ListInv, Asked
  <2>3. Told'
    BY <1>1, <1>7 DEF ListInv, Told
  <2> QED BY <1>1, <2>1, <2>2, <2>3 DEF Asked, OnStandby
<1>18. RequestsOK'
  <2>1. /\ Queues'
        /\ \A w \in Validator :
             /\ queue'[w].join = queue[w].join /\ queue'[w].finished = queue[w].finished
             /\ queue'[w].forGossip = queue[w].forGossip /\ queue'[w].received = queue[w].received
    BY ListQueues, CycleQueue DEF SameRecord
  <2>2. \A w \in Validator :
          /\ queue[w].join = {} /\ queue[w].finished = {} /\ queue[w].received = {}
          /\ \A j \in queue[w].forGossip : JoinOf(j, cycle)
    BY <1>1 DEF ListInv, RequestsOK, QueueOK
  <2>3. cycle' - 1 = cycle
    BY <1>1
  <2>4. \A w \in Validator : QueueOK(queue[w])'
    BY <1>1, <2>1, <2>2, <2>3 DEF QueueOK, JoinOf
  <2> QED BY <1>1, <2>1, <2>4 DEF RequestsOK
<1> QED BY <1>10, <1>12, <1>13, <1>15, <1>16, <1>17, <1>18 DEF ListInv

LEMMA InitLists ==
  ASSUME Init
  PROVE  ListInv
<1>1. /\ cycle = 1 /\ quarter = 1 /\ nodes = {} /\ syncing = {} /\ ready = <<>> /\ active = {}
      /\ joined = {} /\ lostAfter = {} /\ msgs = {} /\ told = [c \in Candidate |-> {}]
      /\ asked = [c \in Candidate |-> 0]
      /\ \A c \in Candidate : standby[c] = None /\ selected[c] = None /\ status[c] = "none"
      /\ queue = [v \in Validator |-> EmptyQueue]
      /\ None \in Int
  BY DEF Init, None
<1>2. OnStandby = {} /\ Selected = {}
  BY <1>1 DEF OnStandby, Selected
<1>3. ToSet(ready) = {} /\ IsInjective(ready) /\ ready \in Seq(Candidate)
  BY <1>1 DEF ToSet, IsInjective
<1>4. Shape
  <2>1. selected \in [Candidate -> Int] /\ status \in [Candidate -> Statuses]
    BY DEF Init, Statuses, None
  <2> QED BY <1>1, <1>3, <2>1 DEF Shape
<1>5. LostOK /\ SelectedLeave
  BY <1>1, <1>2 DEF LostOK, SelectedLeave
<1>6. StandbyOK
  <2>1. standby \in [Candidate -> Int] /\ lastHashed \in [Candidate -> Int]
    BY DEF Init, None
  <2> QED BY <1>2, <2>1 DEF StandbyOK
<1>7. ListsDisjoint
  BY <1>1, <1>2, <1>3 DEF ListsDisjoint
<1>8. Asked /\ Told
  BY <1>1, <1>2 DEF Asked, Told
<1>9. RequestsOK
  <2>1. /\ EmptyQueue.received = {} /\ EmptyQueue.forGossip = {} /\ EmptyQueue.join = {} /\ EmptyQueue.finished = {}
        /\ EmptyQueue.unjoinNext = <<>> /\ EmptyQueue.unjoinThis = <<>> /\ <<>> \in Seq(LeaveRequests)
    BY DEF EmptyQueue
  <2>2. QueueShape(EmptyQueue) /\ QueueOK(EmptyQueue)
    BY <2>1 DEF QueueShape, QueueOK
  <2>3. DOMAIN queue = Validator /\ \A v \in Validator : queue[v] = EmptyQueue
    BY <1>1
  <2>4. Queues /\ \A v \in Validator : QueueOK(queue[v])
    BY <2>2, <2>3 DEF Queues
  <2> QED BY <1>1, <2>4 DEF RequestsOK
<1> QED BY <1>4, <1>5, <1>6, <1>7, <1>8, <1>9 DEF ListInv

LEMMA SameLists ==
  ASSUME ListInv, UNCHANGED vars
  PROVE  ListInv'
<1>1. /\ UNCHANGED <<cycle, quarter, standby, lastHashed, nodes, selected, syncing, ready, active, status,
                     joined, lostAfter, made, queue, asked, told, msgs>>
  BY DEF vars, chain, lists
<1>2. Shape' /\ ListsDisjoint' /\ SelectedLeave'
  BY <1>1 DEF ListInv, Shape, ListsDisjoint, SelectedLeave, OnStandby, Selected, counter
<1>3. LostOK' /\ StandbyOK'
  BY <1>1 DEF ListInv, LostOK, StandbyOK, OnStandby, Selected, counter
<1>4. Asked' /\ Told'
  BY <1>1 DEF ListInv, Asked, Told, OnStandby
<1>5. RequestsOK'
  BY <1>1 DEF ListInv, RequestsOK, Queues, QueueShape, QueueOK, BodyOK, RecordOK, TooOld, Instead, JoinOf, Unfinished, Removed,
              OnStandby, Selected, counter
<1> QED BY <1>2, <1>3, <1>4, <1>5 DEF ListInv

LEMMA NextLists ==
  ASSUME Forgetful = {}, ListInv, [Next]_vars
  PROVE  ListInv'
<1>1. CASE UNCHANGED vars
  BY <1>1, SameLists
<1>2. ASSUME NEW c \in Candidate, NEW v \in Validator, Join(c, v) PROVE ListInv'
  BY <1>2, JoinLists
<1>3. ASSUME NEW c \in Candidate, NEW v \in Validator, Unjoin(c, v) \/ AskRefresh(c, v) PROVE ListInv'
  BY <1>3, UnjoinLists
<1>4. ASSUME NEW c \in Candidate, NEW what \in {"started", "finished"}, TellProgress(c, what) PROVE ListInv'
  BY <1>4, TellLists
<1>5. ASSUME NEW v \in Validator, SendRequests(v) PROVE ListInv'
  BY <1>5, SendLists
<1>6. ASSUME NEW m \in msgs, Receive(m) PROVE ListInv'
  BY <1>6, ReceiveLists
<1>7. CASE EndOfRun
  BY <1>7, SameLists DEF EndOfRun
<1> QED BY <1>1, <1>2, <1>3, <1>4, <1>5, <1>6, <1>7, RunQ2Lists, RunQ3Lists, CycleLists DEF Next

LEMMA ListInvariant == Forgetful = {} => (Spec => []ListInv)
<1>1. SUFFICES ASSUME Forgetful = {} PROVE Spec => []ListInv
  OBVIOUS
<1>2. ListInv /\ [Next]_vars => ListInv'
  BY <1>1, NextLists
<1> QED BY <1>2, InitLists, PTL DEF Spec

(* The lists of NodeList.ts and the standby list of Join/v2 stay disjoint, *)
(* each with the nodes of its status and none twice, whatever messages are *)
(* lost: addNode, updateNode and removeNode get from a record only nodes   *)
(* that are where those functions expect them.                             *)
THEOREM ListsStayDisjoint == Forgetful = {} => (Spec => []ListsDisjoint)
<1>1. ListInv => ListsDisjoint
  BY DEF ListInv
<1> QED BY <1>1, ListInvariant, PTL

-----------------------------------------------------------------------------
(* Who stays longer on standby than StandbyTTL does so because of others:  *)
(* of each it waits for, the last refresh is so recent, or the request to  *)
(* join so far off, that it is not scrubbed before c again.                *)
Time == Max({StandbyTTL, 4})
Behind(c) ==
  {d \in Candidate \ {c} :
     IF standby[d] = None THEN asked[d] <= cycle - 2 \/ asked[d] > standby[c] + Time
     ELSE standby[d] >= standby[c] + Time}
BehindInv == \A c \in OnStandby : Overstayed(c) >= 1 => MaxScrub * Overstayed(c) <= Cardinality(Behind(c))

LEMMA BehindFinite ==
  ASSUME NEW c \in Candidate
  PROVE  /\ Cardinality(Candidate) \in Nat
         /\ IsFiniteSet(Behind(c)) /\ Cardinality(Behind(c)) \in Nat
         /\ Cardinality(Behind(c)) < Cardinality(Candidate)
<1>1. Behind(c) \in SUBSET (Candidate \ {c})
  BY DEF Behind
<1>2. /\ IsFiniteSet(Candidate \ {c})
      /\ Cardinality(Candidate) \in Nat /\ Cardinality(Candidate \ {c}) = Cardinality(Candidate) - 1
  BY MembershipAssumption, FS_RemoveElement, FS_CardinalityType
<1>3. IsFiniteSet(Behind(c)) /\ Cardinality(Behind(c)) <= Cardinality(Candidate) - 1
  BY <1>1, <1>2, FS_Subset
<1>4. Cardinality(Behind(c)) \in Nat
  BY <1>3, FS_CardinalityType
<1> QED BY <1>2, <1>3, <1>4

LEMMA TimeFacts == Time \in Int /\ StandbyTTL <= Time /\ 4 <= Time
<1>1. StandbyTTL \in Int /\ 4 \in Int
  BY MembershipAssumption
<1> QED BY <1>1, MaxOfTwo DEF Time

LEMMA Products ==
  /\ \A m \in Nat, a, b \in Int : a >= b => m * a >= m * b
  /\ \A m \in Nat, a \in Int : m * (a + 1) = m * a + m /\ m * a \in Int
<1>1. ASSUME NEW m \in Nat, NEW a \in Int, NEW b \in Int, a >= b PROVE m * a >= m * b
  <2>1. a - b \in Nat /\ m * (a - b) \in Nat
    BY <1>1
  <2>2. m * (a - b) = m * a - m * b
    OBVIOUS
  <2> QED BY <2>1, <2>2
<1> QED BY <1>1

(* A candidate that asks to join does so too late to come before c.        *)
LEMMA BehindKept ==
  ASSUME ListInv, BehindInv, cycle' = cycle, standby' = standby,
         \A d \in Candidate : asked'[d] = asked[d] \/ asked'[d] = cycle
  PROVE  BehindInv'
<1> SUFFICES ASSUME NEW c \in OnStandby, Overstayed(c) >= 1
             PROVE  MaxScrub * Overstayed(c) <= Cardinality(Behind(c)')
  BY DEF BehindInv, OnStandby, Overstayed, counter
<1>1. c \in Candidate /\ standby[c] \in Int /\ cycle \in Int /\ cycle - 1 >= standby[c] + Time
  <2>1. c \in Candidate /\ standby[c] \in Int /\ cycle \in Int
    BY DEF OnStandby, ListInv, StandbyOK, Shape
  <2> QED BY <2>1, TimeFacts DEF Overstayed, counter, Time
<1>2. Behind(c) \in SUBSET Behind(c)'
  <2> SUFFICES ASSUME NEW d \in Behind(c) PROVE d \in Behind(c)'
    OBVIOUS
  <2>1. d \in Candidate /\ d # c /\ (asked'[d] = asked[d] \/ asked'[d] = cycle)
    BY DEF Behind
  <2>2. cycle > standby[c] + Time
    BY <1>1, TimeFacts
  <2> QED BY <2>1, <2>2 DEF Behind
<1>3. IsFiniteSet(Behind(c)')
  <2>1. Behind(c)' \in SUBSET Candidate
    BY DEF Behind
  <2> QED BY <2>1, MembershipAssumption, FS_Subset
<1>4. Cardinality(Behind(c)) <= Cardinality(Behind(c)') /\ Cardinality(Behind(c)') \in Nat
  BY <1>2, <1>3, FS_Subset, FS_CardinalityType
<1>5. MaxScrub * Overstayed(c) <= Cardinality(Behind(c)) /\ Overstayed(c) \in Int
  <2>1. MaxScrub * Overstayed(c) <= Cardinality(Behind(c))
    BY DEF BehindInv
  <2> QED BY <1>1, <2>1, TimeFacts DEF Overstayed, counter, Time
<1>6. MaxScrub * Overstayed(c) \in Int /\ Cardinality(Behind(c)) \in Nat
  BY <1>1, <1>5, BehindFinite, MembershipAssumption, Products
<1> QED BY <1>4, <1>5, <1>6

(* A record that leaves c on standby though it is too old takes off        *)
(* MaxScrub others, none of which was gone.                                *)
LEMMA BehindCycle ==
  ASSUME ListInv, BehindInv, CycleCreator, Cardinality(Candidate) <= MaxScrub * StandbyTTL
  PROVE  BehindInv'
<1>1. /\ quarter = 3 /\ cycle' = cycle + 1 /\ asked' = asked /\ cycle \in Int
  <2>1. quarter = 3 /\ cycle' = cycle + 1 /\ asked' = asked
    BY DEF CycleCreator
  <2> QED BY <2>1 DEF ListInv, Shape
<1>2. PICK v \in Validator : DigestStandby(made[v])
  BY DEF CycleCreator
<1>3. PICK r : r = made[v]
  OBVIOUS
<1>4. RecordOK(r) /\ DigestStandby(r)
  BY <1>1, <1>2, <1>3 DEF ListInv, RequestsOK
<1>5. \A d \in Candidate :
         standby'[d] # None =>
              \/ /\ asked[d] = cycle - 1 /\ d \notin OnStandby /\ status[d] = "none"
                 /\ standby'[d] = cycle - 2 /\ lastHashed'[d] = None
              \/ /\ d \in OnStandby /\ d \notin r.joined /\ d \notin r.standbyRemove
                 /\ lastHashed'[d] = standby'[d]
                 /\ standby'[d] = IF d \in r.standbyRefresh THEN cycle ELSE standby[d]
  BY <1>4, StandbyOne
<1> SUFFICES ASSUME NEW c \in Candidate, standby'[c] # None, Overstayed(c)' >= 1
             PROVE  MaxScrub * Overstayed(c)' <= Cardinality(Behind(c)')
  BY DEF BehindInv, OnStandby
<1>6. Overstayed(c)' = cycle - standby'[c] - Time + 1
  BY <1>1 DEF Overstayed, counter, Time
<1>7. /\ \A d \in Candidate : standby[d] \in Int /\ asked[d] \in Int /\ lastHashed[d] \in Int
      /\ \A d \in OnStandby : asked[d] <= cycle - 2
      /\ \A d \in Candidate : d \in OnStandby <=> standby[d] # None
      /\ MaxScrub \in Nat /\ StandbyTTL \in Nat
  BY MembershipAssumption DEF ListInv, StandbyOK, Asked, OnStandby
<1>8. /\ c \in OnStandby /\ c \notin r.standbyRemove /\ c \notin r.standbyRefresh
      /\ standby'[c] = standby[c] /\ cycle >= standby[c] + Time
  <2>1. CASE standby'[c] = cycle - 2
    BY <1>1, <1>6, <2>1, TimeFacts
  <2>2. CASE standby'[c] = cycle
    BY <1>1, <1>6, <2>2, TimeFacts
  <2>3. CASE /\ c \in OnStandby /\ c \notin r.standbyRemove /\ c \notin r.standbyRefresh
             /\ standby'[c] = standby[c]
    <3>1. standby[c] \in Int
      BY <1>7
    <3> QED BY <1>1, <1>6, <2>3, <3>1, TimeFacts
  <2> QED BY <1>5, <2>1, <2>2, <2>3
<1> DEFINE k == cycle - standby[c] - Time
<1>9. /\ k \in Int /\ k >= 0 /\ Overstayed(c)' = k + 1
      /\ Overstayed(c) = k
  BY <1>1, <1>6, <1>7, <1>8, TimeFacts DEF Overstayed, counter, Time
<1>10. TooOld(c)
  <2>1. lastHashed[c] \in {standby[c], None} /\ (lastHashed[c] = None => cycle - 1 - standby[c] = 2)
    BY <1>8 DEF ListInv, StandbyOK, counter
  <2>2. lastHashed[c] = standby[c] /\ standby[c] # None
    BY <1>1, <1>7, <1>8, <2>1, TimeFacts
  <2> QED BY <1>1, <1>7, <1>8, <2>2, TimeFacts DEF TooOld
<1>11. PICK S \in SUBSET r.standbyRemove : Instead(S)
  BY <1>4, <1>8, <1>10 DEF RecordOK
<1>12. S \in SUBSET Candidate /\ c \notin S /\ IsFiniteSet(S) /\ Cardinality(S) \in Nat /\ Cardinality(S) >= MaxScrub
  <2>1. S \in SUBSET Candidate /\ c \notin S /\ Cardinality(S) >= MaxScrub
    BY <1>8, <1>11 DEF Instead, OnStandby
  <2> QED BY <2>1, MembershipAssumption, FS_Subset, FS_CardinalityType
<1>13. S \in SUBSET Behind(c)'
  <2> SUFFICES ASSUME NEW d \in S PROVE d \in Behind(c)'
    OBVIOUS
  <2>1. d \in Candidate /\ d # c /\ d \in OnStandby /\ asked[d] <= cycle - 2 /\ asked[d] \in Int
    BY <1>7, <1>11, <1>12 DEF Instead
  <2>2. standby'[d] = None
    BY <1>5, <1>11, <2>1
  <2> QED BY <1>1, <2>1, <2>2 DEF Behind
<1>14. Behind(c) \in SUBSET Behind(c)'
  <2> SUFFICES ASSUME NEW d \in Behind(c) PROVE d \in Behind(c)'
    OBVIOUS
  <2>1. d \in Candidate /\ d # c
    BY DEF Behind
  <2>2. IF standby[d] = None THEN asked[d] <= cycle - 2 \/ asked[d] > standby[c] + Time
        ELSE standby[d] >= standby[c] + Time
    BY DEF Behind
  <2>3. IF standby'[d] = None THEN asked[d] <= cycle - 1 \/ asked[d] > standby[c] + Time
        ELSE standby'[d] >= standby[c] + Time
    <3>1. CASE standby'[d] = None
      BY <1>1, <1>7, <2>1, <2>2, <3>1
    <3>2. CASE standby'[d] # None /\ d \notin OnStandby
      <4>1. standby'[d] = cycle - 2 /\ asked[d] = cycle - 1 /\ standby[d] = None
        BY <1>5, <1>7, <2>1, <3>2
      <4> QED BY <1>1, <1>7, <2>1, <2>2, <3>2, <4>1, TimeFacts
    <3>3. CASE standby'[d] # None /\ d \in OnStandby
      <4>1. standby'[d] \in {cycle, standby[d]} /\ standby[d] # None
        BY <1>5, <1>7, <2>1, <3>3
      <4> QED BY <1>7, <1>8, <2>1, <2>2, <3>3, <4>1, TimeFacts
    <3> QED BY <3>1, <3>2, <3>3
  <2> QED BY <1>1, <1>7, <1>8, <2>1, <2>3 DEF Behind
<1>15. IsFiniteSet(Behind(c)') /\ Cardinality(Behind(c)') \in Nat
  <2>1. Behind(c)' \in SUBSET Candidate
    BY DEF Behind
  <2> QED BY <2>1, MembershipAssumption, FS_Subset, FS_CardinalityType
<1>16. /\ Cardinality(Candidate) \in Nat /\ IsFiniteSet(Behind(c)) /\ Cardinality(Behind(c)) \in Nat
       /\ Cardinality(Behind(c)) < Cardinality(Candidate)
  BY BehindFinite
<1>17. CASE k = 0
  <2>1. Cardinality(S) <= Cardinality(Behind(c)')
    BY <1>13, <1>15, FS_Subset
  <2>2. MaxScrub * (k + 1) = MaxScrub
    BY <1>7, <1>17
  <2> HIDE DEF k
  <2> QED BY <1>7, <1>9, <1>12, <1>15, <2>1, <2>2
<1>18. CASE k >= 1
  <2>1. MaxScrub * k <= Cardinality(Behind(c))
    BY <1>8, <1>9, <1>18 DEF BehindInv
  <2>2. k < StandbyTTL
    <3> HIDE DEF k
    <3>1. MaxScrub * k \in Int /\ MaxScrub * StandbyTTL \in Int
      BY <1>7, <1>9, Products
    <3>2. MaxScrub * k < MaxScrub * StandbyTTL
      BY <1>16, <2>1, <3>1
    <3>3. ~(k >= StandbyTTL)
      BY <1>7, <1>9, <3>1, <3>2, Products
    <3> QED BY <1>7, <1>9, <3>3
  <2>3. S \cap Behind(c) = {}
    <3> SUFFICES ASSUME NEW d \in S, d \in Behind(c) PROVE FALSE
      OBVIOUS
    <3>1. d \in Candidate /\ d \in OnStandby /\ lastHashed[d] # None /\ cycle - lastHashed[d] >= StandbyTTL
      BY <1>11, <1>12 DEF Instead, TooOld
    <3>2. lastHashed[d] = standby[d]
      BY <3>1 DEF ListInv, StandbyOK
    <3>3. standby[d] >= standby[c] + Time
      BY <1>7, <3>1 DEF Behind
    <3> QED BY <1>1, <1>7, <1>8, <2>2, <3>1, <3>2, <3>3, TimeFacts
  <2>4. Cardinality(S \cup Behind(c)) = Cardinality(S) + Cardinality(Behind(c)) - 0
    BY <1>12, <1>16, <2>3, FS_Union, FS_EmptySet
  <2>5. S \cup Behind(c) \in SUBSET Behind(c)'
    BY <1>13, <1>14
  <2>6. Cardinality(S \cup Behind(c)) <= Cardinality(Behind(c)')
    BY <1>15, <2>5, FS_Subset
  <2>7. MaxScrub * (k + 1) = MaxScrub * k + MaxScrub /\ MaxScrub * k \in Int
    <3> HIDE DEF k
    <3> QED BY <1>7, <1>9, Products
  <2> HIDE DEF k
  <2> QED BY <1>7, <1>9, <1>12, <1>15, <1>16, <2>1, <2>4, <2>6, <2>7
<1> HIDE DEF k
<1> QED BY <1>9, <1>17, <1>18

LEMMA BehindNext ==
  ASSUME ListInv, BehindInv, [Next]_vars, Cardinality(Candidate) <= MaxScrub * StandbyTTL
  PROVE  BehindInv'
<1>1. CASE CycleCreator
  BY <1>1, BehindCycle
<1>2. CASE UNCHANGED vars \/ EndOfRun \/ RunQ2 \/ RunQ3
  BY <1>2, BehindKept DEF EndOfRun, RunQ2, RunQ3, vars, chain
<1>3. ASSUME NEW c \in Candidate, NEW v \in Validator, Join(c, v)
      PROVE  BehindInv'
  <2>1. asked' = [asked EXCEPT ![c] = cycle] /\ UNCHANGED <<cycle, standby>>
    BY <1>3 DEF Join, chain
  <2>2. \A d \in Candidate : asked'[d] = asked[d] \/ asked'[d] = cycle
    BY <2>1 DEF ListInv, Asked
  <2> QED BY <2>1, <2>2, BehindKept
<1>4. ASSUME NEW c \in Candidate, NEW v \in Validator, Unjoin(c, v) \/ AskRefresh(c, v)
      PROVE  BehindInv'
  BY <1>4, BehindKept DEF Unjoin, AskRefresh, chain
<1>5. ASSUME NEW c \in Candidate, NEW what \in {"started", "finished"}, TellProgress(c, what)
      PROVE  BehindInv'
  BY <1>5, BehindKept DEF TellProgress, chain
<1>6. ASSUME NEW v \in Validator, SendRequests(v)
      PROVE  BehindInv'
  BY <1>6, BehindKept DEF SendRequests
<1>7. ASSUME NEW m \in msgs, Receive(m)
      PROVE  BehindInv'
  BY <1>7, BehindKept DEF Receive, chain
<1> QED BY <1>1, <1>2, <1>3, <1>4, <1>5, <1>6, <1>7 DEF Next

(* While no candidate restarts and asks again in the cycle that drops it,  *)
(* and there are no more candidates than the age scrub can take off in     *)
(* StandbyTTL records: updateRecord (Join/index.ts:365-398) scrubs whoever *)
(* stays on standby too long, or MaxScrub others in each record that       *)
(* leaves it there; and parseRecord with lostAfterSelection drops whoever  *)
(* does not start syncing.                                                 *)
THEOREM NobodyStaysTooLong ==
  Forgetful = {} /\ Cardinality(Candidate) <= MaxScrub * StandbyTTL => (Spec => []NobodyOverstays)
<1>1. SUFFICES ASSUME Forgetful = {}, Cardinality(Candidate) <= MaxScrub * StandbyTTL
               PROVE  Spec => []NobodyOverstays
  OBVIOUS
<1>2. Init => BehindInv
  BY DEF Init, BehindInv, OnStandby
<1>3. ListInv /\ BehindInv /\ [Next]_vars => BehindInv'
  BY <1>1, BehindNext
<1>4. ListInv /\ BehindInv => NobodyOverstays
  <2> SUFFICES ASSUME ListInv, BehindInv PROVE NobodyOverstays
    OBVIOUS
  <2>1. ASSUME NEW c \in OnStandby, ~(Overstayed(c) <= 0)
        PROVE  MaxScrub * Overstayed(c) < Cardinality(Candidate)
    <3>1. c \in Candidate /\ Overstayed(c) \in Int
      <4>1. c \in Candidate /\ standby[c] \in Int /\ cycle \in Int
        BY DEF OnStandby, ListInv, StandbyOK, Shape
      <4> QED BY <4>1, TimeFacts DEF Overstayed, counter, Time
    <3>2. MaxScrub * Overstayed(c) <= Cardinality(Behind(c))
      BY <2>1, <3>1 DEF BehindInv
    <3>3. MaxScrub * Overstayed(c) \in Int
      BY <3>1, MembershipAssumption, Products
    <3> QED BY <3>1, <3>2, <3>3, BehindFinite
  <2> QED BY <2>1 DEF NobodyOverstays, ListInv, SelectedLeave
<1> QED BY <1>1, <1>2, <1>3, <1>4, ListInvariant, PTL DEF Spec

(* applyNodeListChange removes only nodes that have not said yet that they *)
(* sync, though the record may name nodes that its maker decided to drop a *)
(* record earlier.                                                         *)
THEOREM OnlySilentLeave == Forgetful = {} => (Spec => OnlySilentDropped)
<1>1. ASSUME ListInv, [Next]_vars PROVE [nodes \ nodes' \subseteq Selected]_vars
  <2>1. SUFFICES ASSUME Next PROVE nodes \ nodes' \subseteq Selected
    BY <1>1
  <2>2. CASE CycleCreator
    <3>1. PICK v \in Validator : ApplyChange(made[v]) /\ RecordOK(made[v])
      BY <1>1, <2>2 DEF CycleCreator, ListInv, RequestsOK
    <3>2. Removed(made[v]) \cap nodes \subseteq Selected
      BY <3>1 DEF RecordOK
    <3>3. nodes \ nodes' \subseteq Removed(made[v])
      BY <3>1 DEF ApplyChange, Member
    <3> QED BY <3>2, <3>3
  <2>3. CASE ~CycleCreator
    <3>1. ASSUME NEW c \in Candidate, NEW v \in Validator, Join(c, v) \/ Unjoin(c, v) \/ AskRefresh(c, v)
          PROVE  lists' = lists
      BY <3>1 DEF Join, Unjoin, AskRefresh, chain
    <3>2. ASSUME NEW c \in Candidate, NEW what, TellProgress(c, what) PROVE lists' = lists
      BY <3>2 DEF TellProgress, chain
    <3>3. ASSUME NEW v \in Validator, SendRequests(v) PROVE lists' = lists
      BY <3>3 DEF SendRequests
    <3>4. ASSUME NEW m \in msgs, Receive(m) PROVE lists' = lists
      BY <3>4 DEF Receive, chain
    <3>5. RunQ2 \/ RunQ3 \/ EndOfRun => lists' = lists
      BY DEF RunQ2, RunQ3, EndOfRun, vars, chain
    <3>6. lists' = lists
      BY <2>1, <2>3, <3>1, <3>2, <3>3, <3>4, <3>5 DEF Next
    <3> QED BY <3>6 DEF lists
  <2> QED BY <2>2, <2>3
<1>2. SUFFICES ASSUME Forgetful = {} PROVE Spec => OnlySilentDropped
  OBVIOUS
<1>3. Spec => []ListInv
  BY <1>2, ListInvariant
<1> QED BY <1>1, <1>3, PTL DEF Spec, OnlySilentDropped
-----------------------------------------------------------------------------
(* Where no message is lost, all validators keep the same for the record.  *)
LEMMA KeepsKinds ==
  ASSUME NEW q
  PROVE  /\ Keeps(q, "join") = {j.who : j \in q.join}
         /\ Keeps(q, "unjoin") = {u.who : u \in q.unjoin}
         /\ Keeps(q, "started") = q.started
         /\ Keeps(q, "finished") = q.finished
BY DEF Keeps

LEMMA SameKeeps ==
  ASSUME NEW q, NEW p, SameRecord(q, p), NEW kind \in Kinds
  PROVE  Keeps(p, kind) = Keeps(q, kind)
<1>1. /\ Keeps(p, "join") = Keeps(q, "join") /\ Keeps(p, "unjoin") = Keeps(q, "unjoin")
      /\ Keeps(p, "started") = Keeps(q, "started") /\ Keeps(p, "finished") = Keeps(q, "finished")
  BY KeepsKinds DEF SameRecord
<1> QED BY <1>1 DEF Kinds

(* One validator keeps more, and has told the others; a message that is    *)
(* there no more has reached it.                                           *)
LEMMA FloodStep ==
  ASSUME Flooded, Sent, NEW v \in Validator,
         \A w \in Validator : w # v => queue'[w] = queue[w],
         \A kind \in Kinds : Keeps(queue[v], kind) \subseteq Keeps(queue'[v], kind),
         \A kind \in Kinds : \A c \in Keeps(queue'[v], kind) :
           \/ c \in Keeps(queue[v], kind)
           \/ \A w \in Validator : w # v => c \in Keeps(queue[w], kind) \/ UnderWay(msgs', w, kind, c),
         \A m \in msgs :
           m \in msgs' \/ (m.to = v /\ (m.body.type \in Kinds => m.body.who \in Keeps(queue'[v], m.body.type))),
         \A m \in msgs' :
           m \in msgs \/ (m.from = v /\ (m.body.type \in Kinds => m.body.who \in Keeps(queue'[v], m.body.type)))
  PROVE  Flooded' /\ Sent'
<1>1. ASSUME NEW w \in Validator, NEW kind \in Kinds PROVE Keeps(queue[w], kind) \subseteq Keeps(queue'[w], kind)
  OBVIOUS
<1>2. ASSUME NEW kind \in Kinds, NEW a \in Validator, NEW b \in Validator, NEW c \in Keeps(queue'[a], kind)
      PROVE  c \in Keeps(queue'[b], kind) \/ UnderWay(msgs', b, kind, c)
  <2>1. CASE c \in Keeps(queue[a], kind)
    <3>1. CASE c \in Keeps(queue[b], kind)
      BY <1>1, <3>1
    <3>2. CASE UnderWay(msgs, b, kind, c)
      <4>1. PICK m \in msgs : m.to = b /\ m.body.type = kind /\ m.body.who = c
        BY <3>2 DEF UnderWay
      <4>2. CASE m \in msgs'
        BY <4>1, <4>2 DEF UnderWay
      <4>3. CASE m \notin msgs'
        BY <4>1, <4>3
      <4> QED BY <4>2, <4>3
    <3> QED BY <2>1, <3>1, <3>2 DEF Flooded
  <2>2. CASE c \notin Keeps(queue[a], kind)
    <3>1. a = v
      BY <2>2
    <3>2. CASE b = v
      BY <3>1, <3>2
    <3>3. CASE b # v
      <4>1. c \in Keeps(queue[b], kind) \/ UnderWay(msgs', b, kind, c)
        BY <2>2, <3>1, <3>3
      <4> QED BY <1>1, <4>1
    <3> QED BY <3>2, <3>3
  <2> QED BY <2>1, <2>2
<1>3. ASSUME NEW m \in msgs', m.from \in Validator, m.body.type \in Kinds
      PROVE  m.body.who \in Keeps(queue'[m.from], m.body.type)
  <2>1. CASE m \in msgs
    <3>1. m.body.who \in Keeps(queue[m.from], m.body.type)
      BY <1>3, <2>1 DEF Sent
    <3> QED BY <1>1, <1>3, <3>1
  <2>2. CASE m \notin msgs
    BY <1>3, <2>2
  <2> QED BY <2>1, <2>2
<1>4. Flooded'
  BY <1>2 DEF Flooded, UnderWay
<1> QED BY <1>3, <1>4 DEF Sent

(* The lists stay as they are for the rest of the cycle.                   *)
LEMMA WelcomeStays ==
  ASSUME UNCHANGED <<cycle, standby, lists, joined>>, NEW b, Welcome(b)
  PROVE  Welcome(b)'
BY DEF Welcome, UnjoinValid, OnStandby, counter, lists

LEMMA JoinFlood ==
  ASSUME Forgetful = {}, ListInv, FloodInv, NEW c \in Candidate, NEW v \in Validator,
         Join(c, v) \/ Unjoin(c, v) \/ AskRefresh(c, v)
  PROVE  FloodInv'
<1>1. /\ UNCHANGED <<cycle, quarter, standby, lists, joined, made, msgs>>
      /\ asked' = asked \/ asked' = [asked EXCEPT ![c] = cycle]
  BY DEF Join, Unjoin, AskRefresh, chain
<1>2. /\ \A w \in Validator : w # v => queue'[w] = queue[w]
      /\ SameRecord(queue[v], queue'[v])
      /\ \A d \in queue'[v].seen : d \in queue[v].seen \/ (d = c /\ asked'[c] = cycle)
  <2>1. CASE Join(c, v)
    <3>1. asked'[c] = cycle
      BY <2>1 DEF Join, ListInv, Asked
    <3> QED BY <2>1, <3>1, ListQueues, JoinQueue
  <2>2. CASE Unjoin(c, v) \/ AskRefresh(c, v)
    BY <2>2, ListQueues, UnjoinQueue
  <2> QED BY <2>1, <2>2
<1>3. \A w \in Validator : SameRecord(queue[w], queue'[w])
  BY <1>2 DEF SameRecord
<1>4. \A w \in Validator : \A kind \in Kinds : Keeps(queue'[w], kind) = Keeps(queue[w], kind)
  BY <1>3, SameKeeps
<1>5. Flooded' /\ Sent'
  BY <1>1, <1>4 DEF FloodInv, Flooded, Sent
<1>6. MessagesOK'
  BY <1>1, WelcomeStays DEF FloodInv, MessagesOK
<1>7. SeenOK'
  <2>1. ASSUME NEW w \in Validator, NEW d \in queue'[w].seen
        PROVE  d \in Candidate /\ (quarter = 1 => asked'[d] = cycle \/ d \in Keeps(queue'[w], "join"))
    <3>1. CASE d \in queue[w].seen
      <4>1. d \in Candidate /\ (quarter = 1 => asked[d] = cycle \/ d \in Keeps(queue[w], "join"))
        BY <2>1, <3>1 DEF FloodInv, SeenOK
      <4>2. asked[d] = cycle => asked'[d] = cycle
        BY <1>1, <4>1 DEF ListInv, Asked
      <4> QED BY <1>4, <4>1, <4>2 DEF Kinds
    <3>2. CASE d \notin queue[w].seen
      BY <1>2, <2>1, <3>2
    <3> QED BY <3>1, <3>2
  <2> QED BY <1>1, <2>1 DEF SeenOK
<1>8. KeptOK'
  BY <1>1, <1>3, <1>4 DEF FloodInv, KeptOK, SameRecord
<1>9. RecordsAgree'
  BY <1>1 DEF FloodInv, RecordsAgree
<1> QED BY <1>5, <1>6, <1>7, <1>8, <1>9 DEF FloodInv

LEMMA TellFlood ==
  ASSUME ListInv, FloodInv, NEW c \in Candidate, NEW what \in {"started", "finished"}, TellProgress(c, what)
  PROVE  FloodInv'
<1>1. /\ UNCHANGED <<cycle, quarter, standby, lists, joined, made, queue, asked>>
      /\ quarter = 1 /\ c \in nodes
      /\ msgs' = msgs \cup Gossip(c, Validator, [type |-> what, who |-> c, when |-> counter], TRUE)
  BY DEF TellProgress, chain
<1>2. \A m \in msgs' : m \in msgs \/ (m.from = c /\ m.body = [type |-> what, who |-> c, when |-> counter])
  BY <1>1 DEF Gossip
<1>3. Flooded'
  <2>1. \A v, kind, d : UnderWay(msgs, v, kind, d) => UnderWay(msgs', v, kind, d)
    BY <1>1 DEF UnderWay
  <2> QED BY <1>1, <2>1 DEF FloodInv, Flooded
<1>4. Sent'
  <2>1. c \notin Validator
    BY MembershipAssumption
  <2> QED BY <1>1, <1>2, <2>1 DEF FloodInv, Sent
<1>5. MessagesOK'
  <2>1. ASSUME NEW m \in msgs' PROVE Welcome(m.body)
    <3>1. CASE m \in msgs
      BY <3>1 DEF FloodInv, MessagesOK
    <3>2. CASE m.body = [type |-> what, who |-> c, when |-> counter]
      BY <1>1, <3>2 DEF Welcome
    <3> QED BY <1>2, <3>1, <3>2
  <2> QED BY <1>1, <2>1, WelcomeStays DEF MessagesOK
<1>6. SeenOK' /\ KeptOK' /\ RecordsAgree'
  BY <1>1 DEF FloodInv, SeenOK, KeptOK, RecordsAgree
<1> QED BY <1>3, <1>4, <1>5, <1>6 DEF FloodInv

(* A request of the last cycle whose key was seen is kept already.         *)
LEMMA SeenKept ==
  ASSUME ListInv, FloodInv, quarter = 1, NEW v \in Validator, NEW j, JoinOf(j, cycle - 1), j.who \in queue[v].seen
  PROVE  j.who \in Keeps(queue[v], "join")
BY DEF FloodInv, SeenOK, JoinOf, ListInv, Shape

LEMMA SendFlood ==
  ASSUME ListInv, FloodInv, NEW v \in Validator, SendRequests(v)
  PROVE  FloodInv'
<1> DEFINE q == queue[v]
           p == queue'[v]
           bodies == Refreshes(v) \cup Unjoins(q) \cup q.forGossip
<1>1. /\ UNCHANGED <<cycle, quarter, standby, lists, joined, made, asked>>
      /\ quarter = 1
      /\ msgs' = msgs \cup UNION {Gossip(v, Others(v), b, TRUE) : b \in bodies}
  BY DEF SendRequests
<1>2. /\ \A w \in Validator : w # v => queue'[w] = queue[w]
      /\ p.join = q.join \cup Saved(q) /\ p.seen = q.seen \cup {j.who : j \in q.forGossip}
      /\ p.unjoin = q.unjoin \cup Unjoins(q) /\ p.refresh = q.refresh \cup Refreshes(v)
      /\ p.started = q.started /\ p.finished = q.finished
  BY ListQueues, SendQueue
<1>3. \A j \in q.forGossip : JoinOf(j, cycle - 1)
  BY <1>1 DEF ListInv, RequestsOK, QueueOK
<1>4. /\ \A b \in q.forGossip : b.type = "join"
      /\ \A b \in Unjoins(q) : b.type = "unjoin" /\ UnjoinValid(b, q)
      /\ \A b \in Refreshes(v) : b.type = "refresh" /\ b.owner = v
  <2>1. \A b \in Unjoins(q) : b.type = "unjoin"
    BY ListQueues, UnjoinTypes DEF LeaveRequests
  <2>2. \A b \in Unjoins(q) : UnjoinValid(b, q)
    <3>1. ASSUME NEW b \in Unjoins(q) PROVE UnjoinValid(b, q)
      <4>1. PICK i \in DOMAIN q.unjoinThis : /\ b = q.unjoinThis[i]
                                             /\ \A k \in 1 .. i : UnjoinValid(q.unjoinThis[k], q)
        BY <3>1 DEF Unjoins
      <4>2. q.unjoinThis \in Seq(LeaveRequests)
        BY ListQueues DEF Queues, QueueShape
      <4>3. i \in 1 .. i
        BY <4>2
      <4> QED BY <4>1, <4>3
    <3> QED BY <3>1
  <2> QED BY <1>3, <2>1, <2>2 DEF JoinOf, Refreshes
<1>5. ASSUME NEW b \in bodies, NEW w \in Validator, w # v
      PROVE  UnderWay(msgs', w, b.type, b.who)
  <2>1. PICK m : m = [to |-> w, from |-> v, first |-> TRUE, body |-> b]
    OBVIOUS
  <2>2. m \in Gossip(v, Others(v), b, TRUE)
    BY <1>5, <2>1 DEF Gossip, Others
  <2>3. m \in msgs' /\ m.to = w /\ m.body = b
    BY <1>1, <2>1, <2>2
  <2> QED BY <2>3 DEF UnderWay
<1>6. \A m \in msgs' : m \in msgs \/ (m.from = v /\ m.body \in bodies)
  BY <1>1 DEF Gossip
<1>7. ASSUME NEW j \in q.forGossip PROVE j.who \in Keeps(p, "join")
  <2>1. CASE j.who \in q.seen
    <3>1. j.who \in Keeps(q, "join")
      BY <1>1, <1>3, <2>1, SeenKept
    <3> QED BY <1>2, <3>1, KeepsKinds
  <2>2. CASE j.who \notin q.seen
    BY <1>2, <2>2, KeepsKinds DEF Saved
  <2> QED BY <2>1, <2>2
<1>8. \A b \in bodies : b.type \in Kinds => b.who \in Keeps(p, b.type)
  <2>1. \A b \in Unjoins(q) : b.who \in Keeps(p, "unjoin")
    BY <1>2, KeepsKinds
  <2> QED BY <1>4, <1>7, <2>1 DEF Kinds
<1>9. /\ Keeps(q, "join") \subseteq Keeps(p, "join") /\ Keeps(q, "unjoin") \subseteq Keeps(p, "unjoin")
      /\ Keeps(p, "started") = Keeps(q, "started") /\ Keeps(p, "finished") = Keeps(q, "finished")
      /\ \A c \in Keeps(p, "join") : c \in Keeps(q, "join") \/ \E b \in q.forGossip : b.who = c
      /\ \A c \in Keeps(p, "unjoin") : c \in Keeps(q, "unjoin") \/ \E b \in Unjoins(q) : b.who = c
  BY <1>2, KeepsKinds DEF Saved
<1>10. Flooded' /\ Sent'
  <2>1. \A kind \in Kinds : Keeps(q, kind) \subseteq Keeps(p, kind)
    BY <1>9 DEF Kinds
  <2>2. ASSUME NEW kind \in Kinds, NEW c \in Keeps(p, kind), c \notin Keeps(q, kind)
        PROVE  \A w \in Validator : w # v => UnderWay(msgs', w, kind, c)
    <3>1. CASE kind = "join"
      <4>1. PICK b \in q.forGossip : b.who = c
        BY <1>9, <2>2, <3>1
      <4> QED BY <1>4, <1>5, <3>1, <4>1
    <3>2. CASE kind = "unjoin"
      <4>1. PICK b \in Unjoins(q) : b.who = c
        BY <1>9, <2>2, <3>2
      <4> QED BY <1>4, <1>5, <3>2, <4>1
    <3> QED BY <1>9, <2>2, <3>1, <3>2 DEF Kinds
  <2>3. \A m \in msgs : m \in msgs'
    BY <1>1
  <2>4. \A m \in msgs' : m \in msgs \/ (m.from = v /\ (m.body.type \in Kinds => m.body.who \in Keeps(p, m.body.type)))
    BY <1>6, <1>8
  <2>5. Flooded /\ Sent
    BY DEF FloodInv
  <2> QED BY <1>2, <2>1, <2>2, <2>3, <2>4, <2>5, FloodStep
<1>11. MessagesOK'
  <2>1. ASSUME NEW b \in bodies PROVE Welcome(b)
    <3>1. CASE b \in q.forGossip
      BY <1>3, <1>4, <3>1 DEF Welcome, JoinOf, ListInv, Asked, ListsDisjoint, Shape
    <3>2. CASE b \in Unjoins(q)
      BY <1>4, <3>2 DEF Welcome, UnjoinValid, EmptyQueue
    <3>3. CASE b \in Refreshes(v)
      BY <1>4, <3>3 DEF Welcome
    <3> QED BY <3>1, <3>2, <3>3
  <2>2. \A m \in msgs' : Welcome(m.body)
    BY <1>6, <2>1 DEF FloodInv, MessagesOK
  <2> QED BY <1>1, <2>2, WelcomeStays DEF MessagesOK
<1>12. SeenOK'
  <2>1. ASSUME NEW w \in Validator, NEW d \in queue'[w].seen
        PROVE  d \in Candidate /\ (asked[d] = cycle \/ d \in Keeps(queue'[w], "join"))
    <3>1. CASE w # v
      BY <1>1, <1>2, <2>1, <3>1 DEF FloodInv, SeenOK
    <3>2. CASE w = v /\ d \in q.seen
      BY <1>1, <1>9, <3>2 DEF FloodInv, SeenOK
    <3>3. CASE w = v /\ d \notin q.seen
      BY <1>2, <1>3, <1>7, <2>1, <3>3 DEF JoinOf
    <3> QED BY <3>1, <3>2, <3>3
  <2> QED BY <1>1, <2>1 DEF SeenOK
<1>13. KeptOK'
  <2>1. \A w \in Validator : \A r \in queue'[w].refresh : r.owner \in Validator
    BY <1>2, <1>4 DEF FloodInv, KeptOK
  <2> QED BY <1>1, <2>1 DEF KeptOK
<1>14. RecordsAgree'
  BY <1>1 DEF FloodInv, RecordsAgree
<1> QED BY <1>10, <1>11, <1>12, <1>13, <1>14 DEF FloodInv

LEMMA ReceiveFlood ==
  ASSUME ListInv, FloodInv, NEW m \in msgs, Receive(m)
  PROVE  FloodInv'
<1> DEFINE v == m.to
           b == m.body
           q == queue[v]
           p == queue'[v]
           new == News(m)
<1>1. /\ UNCHANGED <<cycle, quarter, standby, lists, joined, made, asked>>
      /\ v \in Validator /\ BodyOK(b) /\ Welcome(b) /\ quarter = 1
  BY DEF Receive, chain, ListInv, RequestsOK, FloodInv, MessagesOK
<1>2. /\ \A w \in Validator : w # v => queue'[w] = queue[w]
      /\ p.join = IF new /\ b.type = "join" THEN q.join \cup {b} ELSE q.join
      /\ p.unjoin = IF new /\ b.type = "unjoin" THEN q.unjoin \cup {b} ELSE q.unjoin
      /\ p.refresh = IF new /\ b.type = "refresh" THEN q.refresh \cup {b} ELSE q.refresh
      /\ p.started = IF new /\ b.type = "started" THEN q.started \cup {b.who} ELSE q.started
      /\ p.finished = IF new /\ b.type = "finished" THEN q.finished \cup {b.who} ELSE q.finished
      /\ p.seen \subseteq q.seen \cup IF b.type = "join" THEN {b.who} ELSE {}
  BY <1>1, ListQueues, ReceiveQueue DEF BodyOK
<1>3. b.type = "join" => JoinOf(b, cycle - 1)
  BY <1>1 DEF BodyOK
<1>4. /\ Keeps(p, "join") = Keeps(q, "join") \cup IF new /\ b.type = "join" THEN {b.who} ELSE {}
      /\ Keeps(p, "unjoin") = Keeps(q, "unjoin") \cup IF new /\ b.type = "unjoin" THEN {b.who} ELSE {}
      /\ Keeps(p, "started") = Keeps(q, "started") \cup IF new /\ b.type = "started" THEN {b.who} ELSE {}
      /\ Keeps(p, "finished") = Keeps(q, "finished") \cup IF new /\ b.type = "finished" THEN {b.who} ELSE {}
  <2> HIDE DEF p, q, b, new
  <2> QED BY <1>2, KeepsKinds
<1>5. \A kind \in Kinds : Keeps(p, kind) = Keeps(q, kind) \cup IF new /\ b.type = kind THEN {b.who} ELSE {}
  <2> HIDE DEF p, q, b, new
  <2> QED BY <1>4 DEF Kinds
(* What is not new is known.                                               *)
<1>6. ASSUME b.type \in Kinds PROVE b.who \in Keeps(p, b.type)
  <2>1. CASE new
    <3> HIDE DEF p, q, b, new
    <3> QED BY <1>5, <1>6, <2>1
  <2>2. CASE ~new
    <3>1. ~Valid(b, q)
      BY <1>1, <2>2 DEF News, InTime
    <3>2. b.who \in Keeps(q, b.type)
      <4>1. CASE b.type = "join"
        <5>1. b.who \notin OnStandby /\ b.who \notin nodes
          BY <1>1, <4>1 DEF Welcome
        <5>2. b.who \in q.seen
          BY <3>1, <4>1, <5>1 DEF Valid
        <5> QED BY <1>1, <1>3, <4>1, <5>2, SeenKept
      <4>2. CASE b.type = "unjoin"
        <5>1. ~UnjoinValid(b, q) /\ UnjoinValid(b, EmptyQueue)
          BY <1>1, <3>1, <4>2 DEF Valid, Welcome
        <5>2. \E u \in q.unjoin : u.who = b.who
          BY <5>1 DEF UnjoinValid
        <5> QED BY <4>2, <5>2, KeepsKinds
      <4>3. CASE b.type = "started"
        BY <1>1, <3>1, <4>3, KeepsKinds DEF Valid, Welcome, Progress
      <4>4. CASE b.type = "finished"
        BY <1>1, <3>1, <4>4, KeepsKinds DEF Valid, Welcome, Progress
      <4> QED BY <1>6, <4>1, <4>2, <4>3, <4>4 DEF Kinds
    <3> HIDE DEF p, q, b, new
    <3> QED BY <1>5, <1>6, <3>2
  <2> QED BY <2>1, <2>2
<1>7. msgs' = (msgs \ {m}) \cup IF new THEN Gossip(v, Others(v) \ {m.from}, b, FALSE) ELSE {}
  BY DEF Receive, News
<1>8. \A k \in msgs' : k \in msgs \/ (k.from = v /\ k.body = b)
  BY <1>7 DEF Gossip
<1>9. ASSUME new, b.type \in Kinds, NEW w \in Validator, w # v
      PROVE  b.who \in Keeps(queue[w], b.type) \/ UnderWay(msgs', w, b.type, b.who)
  <2>1. CASE w = m.from
    BY <1>9, <2>1 DEF FloodInv, Sent
  <2>2. CASE w # m.from
    <3>1. PICK k : k = [to |-> w, from |-> v, first |-> FALSE, body |-> b]
      OBVIOUS
    <3>2. k \in Gossip(v, Others(v) \ {m.from}, b, FALSE)
      BY <1>9, <2>2, <3>1 DEF Gossip, Others
    <3>3. k \in msgs' /\ k.to = w /\ k.body = b
      BY <1>7, <1>9, <3>1, <3>2
    <3> QED BY <3>3 DEF UnderWay
  <2> QED BY <2>1, <2>2
<1>10. Flooded' /\ Sent'
  <2>1. \A kind \in Kinds : Keeps(q, kind) \subseteq Keeps(p, kind)
    BY <1>5
  <2>2. \A kind \in Kinds : \A c \in Keeps(p, kind) :
          \/ c \in Keeps(q, kind)
          \/ \A w \in Validator : w # v => c \in Keeps(queue[w], kind) \/ UnderWay(msgs', w, kind, c)
    <3> HIDE DEF p, q, b, new, v
    <3> QED BY <1>5, <1>9
  <2>3. \A k \in msgs : k \in msgs' \/ (k.to = v /\ (k.body.type \in Kinds => k.body.who \in Keeps(p, k.body.type)))
    BY <1>6, <1>7
  <2>4. \A k \in msgs' : k \in msgs \/ (k.from = v /\ (k.body.type \in Kinds => k.body.who \in Keeps(p, k.body.type)))
    BY <1>6, <1>8
  <2>5. Flooded /\ Sent
    BY DEF FloodInv
  <2> QED BY <1>1, <1>2, <2>1, <2>2, <2>3, <2>4, <2>5, FloodStep
<1>11. MessagesOK'
  <2>1. \A k \in msgs' : Welcome(k.body)
    BY <1>1, <1>8 DEF FloodInv, MessagesOK
  <2> QED BY <1>1, <2>1, WelcomeStays DEF MessagesOK
<1>12. SeenOK'
  <2>1. ASSUME NEW w \in Validator, NEW d \in queue'[w].seen
        PROVE  d \in Candidate /\ (asked[d] = cycle \/ d \in Keeps(queue'[w], "join"))
    <3>1. CASE w # v
      BY <1>1, <1>2, <2>1, <3>1 DEF FloodInv, SeenOK
    <3>2. CASE w = v /\ d \in q.seen
      BY <1>1, <1>4, <3>2 DEF FloodInv, SeenOK
    <3>3. CASE w = v /\ d \notin q.seen
      <4>1. b.type = "join" /\ d = b.who
        BY <1>2, <2>1, <3>3
      <4> QED BY <1>3, <1>6, <3>3, <4>1 DEF Kinds, JoinOf
    <3> QED BY <3>1, <3>2, <3>3
  <2> QED BY <1>1, <2>1 DEF SeenOK
<1>13. KeptOK'
  <2>1. b.type = "refresh" => b.owner \in Validator
    BY <1>1 DEF Welcome
  <2>2. \A w \in Validator : \A r \in queue'[w].refresh : r.owner \in Validator
    BY <1>2, <2>1 DEF FloodInv, KeptOK
  <2> QED BY <1>1, <2>2 DEF KeptOK
<1>14. RecordsAgree'
  BY <1>1 DEF FloodInv, RecordsAgree
<1> QED BY <1>10, <1>11, <1>12, <1>13, <1>14 DEF FloodInv

LEMMA RunQ2Flood ==
  ASSUME ~Lossy, ListInv, FloodInv, RunQ2
  PROVE  FloodInv'
<1>1. /\ UNCHANGED <<cycle, standby, lists, joined, made, queue, msgs, asked>>
      /\ quarter = 1 /\ quarter' = 2 /\ msgs = {}
  BY DEF RunQ2, Arrived
<1> QED BY <1>1 DEF FloodInv, Flooded, Sent, MessagesOK, SeenOK, KeptOK, RecordsAgree

(* No refresh is found under a validator's key, and what the record says   *)
(* depends on who asked only.                                              *)
LEMMA MadeSame ==
  ASSUME ListInv, FloodInv, quarter = 2, NEW v \in Validator, NEW w \in Validator
  PROVE  MakeRecord(v) = MakeRecord(w)
<1> DEFINE q == queue[v]
           p == queue[w]
<1>1. \A kind \in Kinds : Keeps(q, kind) = Keeps(p, kind)
  <2>1. msgs = {}
    BY DEF FloodInv, MessagesOK
  <2>2. \A kind \in Kinds, a, b \in Validator : \A c \in Keeps(queue[a], kind) : c \in Keeps(queue[b], kind)
    BY <2>1 DEF FloodInv, Flooded, UnderWay
  <2> QED BY <2>2
<1>2. {u.who : u \in q.unjoin} = {u.who : u \in p.unjoin} /\ q.started = p.started /\ q.finished = p.finished
  BY <1>1, KeepsKinds DEF Kinds
<1>3. q.join = p.join
  <2>1. \A j \in q.join \cup p.join : JoinOf(j, cycle - 1)
    BY DEF ListInv, RequestsOK, QueueOK
  <2>2. {j.who : j \in q.join} = {j.who : j \in p.join}
    BY <1>1, KeepsKinds DEF Kinds
  <2>3. \A j, k : JoinOf(j, cycle - 1) /\ JoinOf(k, cycle - 1) /\ j.who = k.who => j = k
    BY DEF JoinOf
  <2>4. (\A j \in q.join : \E k \in p.join : k.who = j.who) /\ (\A k \in p.join : \E j \in q.join : k.who = j.who)
    BY <2>2
  <2>5. ASSUME NEW j \in q.join PROVE j \in p.join
    <3>1. PICK k \in p.join : k.who = j.who
      BY <2>4
    <3> QED BY <2>1, <2>3, <3>1
  <2>6. ASSUME NEW k \in p.join PROVE k \in q.join
    <3>1. PICK j \in q.join : k.who = j.who
      BY <2>4
    <3> QED BY <2>1, <2>3, <3>1
  <2> QED BY <2>5, <2>6
<1>4. Refreshed(q) = {} /\ Refreshed(p) = {}
  BY MembershipAssumption DEF Refreshed, OnStandby, FloodInv, KeptOK
<1>5. Overdue(q) = Overdue(p)
  BY <1>4 DEF Overdue
<1>6. Scrubbed(q) = Scrubbed(p) /\ Surplus(q) = Surplus(p)
  BY <1>5 DEF Scrubbed, Surplus
<1>7. ToRemove(q) = ToRemove(p)
  BY <1>2 DEF ToRemove
<1> QED BY <1>2, <1>3, <1>4, <1>5, <1>6, <1>7 DEF MakeRecord

LEMMA RunQ3Flood ==
  ASSUME ~Lossy, ListInv, FloodInv, RunQ3
  PROVE  FloodInv'
<1>1. /\ UNCHANGED <<cycle, standby, lists, joined, msgs, asked>> /\ msgs = {}
      /\ quarter = 2 /\ quarter' = 3 /\ made' = [v \in Validator |-> MakeRecord(v)]
  BY DEF RunQ3, Arrived
<1>2. \A v \in Validator :
        /\ queue'[v].join = {} /\ queue'[v].unjoin = {} /\ queue'[v].refresh = {}
        /\ queue'[v].started = {} /\ queue'[v].finished = {} /\ queue'[v].seen = queue[v].seen
  BY ListQueues, RunQ3Queue
<1>3. \A v \in Validator : \A kind \in Kinds : Keeps(queue'[v], kind) = {}
  BY <1>2, KeepsKinds DEF Kinds
<1>4. RecordsAgree'
  BY <1>1, MadeSame DEF RecordsAgree
<1>5. SeenOK'
  BY <1>1, <1>2 DEF FloodInv, SeenOK
<1> QED BY <1>1, <1>2, <1>3, <1>4, <1>5 DEF FloodInv, Flooded, Sent, MessagesOK, KeptOK

LEMMA CycleFlood ==
  ASSUME ListInv, FloodInv, CycleCreator
  PROVE  FloodInv'
<1>1. quarter = 3 /\ quarter' = 1 /\ msgs' = {} /\ made' = <<>>
  BY DEF CycleCreator
<1>2. \A v \in Validator : SameRecord(queue[v], queue'[v]) /\ queue'[v].seen = {}
  BY ListQueues, CycleQueue
<1>3. \A v \in Validator : \A kind \in Kinds : Keeps(queue'[v], kind) = {}
  BY <1>1, <1>2, SameKeeps DEF FloodInv, KeptOK
<1>4. \A v \in Validator : \A r \in queue'[v].refresh : r.owner \in Validator
  BY <1>2 DEF SameRecord, FloodInv, KeptOK
<1> QED BY <1>1, <1>2, <1>3, <1>4
        DEF FloodInv, Flooded, Sent, MessagesOK, SeenOK, KeptOK, RecordsAgree

LEMMA SameFlood ==
  ASSUME FloodInv, UNCHANGED vars
  PROVE  FloodInv'
<1>1. UNCHANGED <<cycle, quarter, standby, lists, joined, made, queue, msgs, asked>>
  BY DEF vars, chain
<1>2. MessagesOK'
  BY <1>1, WelcomeStays DEF FloodInv, MessagesOK
<1>3. Flooded' /\ Sent' /\ SeenOK' /\ KeptOK' /\ RecordsAgree'
  BY <1>1 DEF FloodInv, Flooded, Sent, SeenOK, KeptOK, RecordsAgree
<1> QED BY <1>2, <1>3 DEF FloodInv

LEMMA FloodInvariant == ~Lossy /\ Forgetful = {} => (Spec => []FloodInv)
<1>1. SUFFICES ASSUME ~Lossy, Forgetful = {} PROVE Spec => []FloodInv
  OBVIOUS
<1>2. Init => FloodInv
  <2>1. SUFFICES ASSUME Init PROVE FloodInv
    OBVIOUS
  <2>2. msgs = {} /\ made = <<>> /\ quarter = 1 /\ \A v \in Validator : queue[v] = EmptyQueue
    BY <2>1 DEF Init
  <2>3. /\ EmptyQueue.join = {} /\ EmptyQueue.unjoin = {} /\ EmptyQueue.refresh = {}
        /\ EmptyQueue.started = {} /\ EmptyQueue.finished = {} /\ EmptyQueue.seen = {}
    BY DEF EmptyQueue
  <2>4. \A kind \in Kinds : Keeps(EmptyQueue, kind) = {}
    BY <2>3, KeepsKinds DEF Kinds
  <2> QED BY <2>2, <2>3, <2>4 DEF FloodInv, Flooded, Sent, MessagesOK, SeenOK, KeptOK, RecordsAgree
<1>3. ListInv /\ FloodInv /\ [Next]_vars => FloodInv'
  <2>1. SUFFICES ASSUME ListInv, FloodInv, [Next]_vars PROVE FloodInv'
    OBVIOUS
  <2>2. ASSUME NEW c \in Candidate, NEW v \in Validator, Join(c, v) \/ Unjoin(c, v) \/ AskRefresh(c, v)
        PROVE  FloodInv'
    BY <1>1, <2>1, <2>2, JoinFlood
  <2>3. ASSUME NEW c \in Candidate, NEW what \in {"started", "finished"}, TellProgress(c, what) PROVE FloodInv'
    BY <2>1, <2>3, TellFlood
  <2>4. ASSUME NEW v \in Validator, SendRequests(v) PROVE FloodInv'
    BY <2>1, <2>4, SendFlood
  <2>5. ASSUME NEW m \in msgs, Receive(m) PROVE FloodInv'
    BY <2>1, <2>5, ReceiveFlood
  <2>6. CASE UNCHANGED vars
    BY <2>1, <2>6, SameFlood
  <2>7. CASE EndOfRun
    BY <2>1, <2>7, SameFlood DEF EndOfRun
  <2> QED BY <1>1, <2>1, <2>2, <2>3, <2>4, <2>5, <2>6, <2>7, RunQ2Flood, RunQ3Flood, CycleFlood DEF Next
<1>4. Spec => []ListInv
  BY <1>1, ListInvariant
<1> QED BY <1>2, <1>3, <1>4, PTL DEF Spec

(* If no gossip is lost, the validators make the same record: those who    *)
(* want to join, leave or stay, and those who sync, are told to one of     *)
(* them, and sendRequests and the gossip handlers tell all the others      *)
(* before updateRecord.                                                    *)
THEOREM SameRecordMade == ~Lossy /\ Forgetful = {} => (Spec => []RecordsAgree)
<1>1. FloodInv => RecordsAgree
  BY DEF FloodInv
<1> QED BY <1>1, FloodInvariant, PTL
-----------------------------------------------------------------------------
(* The one candidate that leaves.                                          *)
LEMMA AppendedSet ==
  ASSUME NEW S, NEW s \in Seq(S), NEW x
  PROVE  ToSet(Append(s, x)) = ToSet(s) \cup {x}
<1>1. /\ Len(s) \in Nat /\ DOMAIN s = 1 .. Len(s) /\ DOMAIN Append(s, x) = 1 .. Len(s) + 1
      /\ \A i \in 1 .. Len(s) : Append(s, x)[i] = s[i]
      /\ Append(s, x)[Len(s) + 1] = x
  OBVIOUS
<1> DEFINE t == Append(s, x)
           n == Len(s)
<1> HIDE DEF t, n
<1>2. /\ n \in Nat /\ DOMAIN s = 1 .. n /\ DOMAIN t = 1 .. n + 1
      /\ \A i \in 1 .. n : t[i] = s[i]
      /\ t[n + 1] = x
  BY <1>1 DEF t, n
<1>3. \A i \in 1 .. n + 1 : i \in 1 .. n \/ i = n + 1
  BY <1>2
<1>4. \A i \in 1 .. n : i \in 1 .. n + 1
  BY <1>2
<1>5. n + 1 \in 1 .. n + 1
  BY <1>2
<1>6. ToSet(t) = ToSet(s) \cup {x}
  BY <1>2, <1>3, <1>4, <1>5 DEF ToSet
<1> QED BY <1>6 DEF t

(* A step within a cycle: what is kept for the next record grows, and only *)
(* who has sent its requests need look at them.                            *)
LEMMA LeaveStep ==
  ASSUME LeaveInv, UNCHANGED <<cycle, standby, joined>>, quarter \in {1, 2, 3}, quarter' \in {1, 2, 3},
         quarter = 3 <=> quarter' = 3, quarter = 3 => made' = made,
         quarter' # 1 => sent' = Validator,
         \A c \in joined : asked'[c] = asked[c] \/ asked'[c] = cycle, cycle \in Nat,
         \A v \in Validator :
           /\ queue'[v].unjoinThis = queue[v].unjoinThis
           /\ LeaveAt(queue'[v].unjoinNext, counter)
           /\ Keeps(queue[v], "unjoin") \subseteq Keeps(queue'[v], "unjoin")
           /\ v \in sent' /\ v \notin sent =>
                \A u \in ToSet(queue[v].unjoinThis) :
                  u.who \in OnStandby \cup joined => u.who \in Keeps(queue'[v], "unjoin")
  PROVE  LeaveInv'
<1>1. OnStandby' = OnStandby /\ counter' = counter /\ joined' = joined /\ cycle' = cycle
  BY DEF OnStandby, counter
<1>2. \A c \in joined' : c \in Candidate /\ c \notin OnStandby' /\ asked'[c] # counter'
  BY <1>1 DEF LeaveInv, counter
<1>3. ASSUME NEW v \in Validator
      PROVE  /\ LeaveAt(queue'[v].unjoinNext, counter')
             /\ LeaveAt(queue'[v].unjoinThis, counter' - 1)
             /\ \A u \in ToSet(queue'[v].unjoinThis) : u.who \in OnStandby' \cup joined' => Caught(v, u.who)'
  <2>1. LeaveAt(queue'[v].unjoinNext, counter') /\ LeaveAt(queue'[v].unjoinThis, counter' - 1)
    BY <1>1 DEF LeaveInv
  <2>2. ASSUME NEW u \in ToSet(queue[v].unjoinThis), u.who \in OnStandby \cup joined
        PROVE  Caught(v, u.who)'
    <3>1. Caught(v, u.who)
      BY <2>2 DEF LeaveInv
    <3>2. CASE quarter = 3
      BY <1>1, <3>1, <3>2 DEF Caught
    <3>3. CASE quarter # 3
      <4>1. v \in sent' => u.who \in Keeps(queue'[v], "unjoin")
        BY <2>2, <3>1, <3>3 DEF Caught
      <4> QED BY <3>3, <4>1 DEF Caught
    <3> QED BY <3>2, <3>3
  <2> QED BY <1>1, <2>1, <2>2
<1> QED BY <1>2, <1>3 DEF LeaveInv, LeaveAt

LEMMA AskLeave ==
  ASSUME ListInv, LeaveInv, NEW c \in Candidate, NEW v \in Validator,
         Join(c, v) \/ Unjoin(c, v) \/ AskRefresh(c, v)
  PROVE  LeaveInv'
<1> DEFINE u == [type |-> "unjoin", who |-> c, when |-> counter]
<1>1. /\ UNCHANGED <<cycle, quarter, standby, joined, made, sent>>
      /\ asked' = asked \/ asked' = [asked EXCEPT ![c] = cycle]
      /\ quarter \in {1, 2, 3} /\ cycle \in Nat
      /\ asked \in [Candidate -> Nat] /\ \A d \in joined : d \in Candidate
  BY DEF Join, Unjoin, AskRefresh, chain, ListInv, Shape, Asked, LeaveInv
<1>2. /\ \A w \in Validator : w # v => queue'[w] = queue[w]
      /\ SameRecord(queue[v], queue'[v]) /\ queue'[v].unjoinThis = queue[v].unjoinThis
      /\ \/ queue'[v].unjoinNext = queue[v].unjoinNext
         \/ c \in Unjoining /\ queue'[v].unjoinNext = Append(queue[v].unjoinNext, u)
  BY ListQueues, JoinQueue, UnjoinQueue DEF SameLeave
<1>3. \A w \in Validator : LeaveAt(queue[w].unjoinNext, counter)
  BY DEF LeaveInv
<1>4. LeaveAt(queue'[v].unjoinNext, counter)
  <2>1. CASE queue'[v].unjoinNext = queue[v].unjoinNext
    BY <1>3, <2>1
  <2>2. CASE c \in Unjoining /\ queue'[v].unjoinNext = Append(queue[v].unjoinNext, u)
    <3>1. ToSet(queue'[v].unjoinNext) = ToSet(queue[v].unjoinNext) \cup {u}
      BY <2>2, ListQueues, AppendedSet DEF Queues, QueueShape
    <3> QED BY <1>3, <2>2, <3>1 DEF LeaveAt
  <2> QED BY <1>2, <2>1, <2>2
<1>5. \A w \in Validator : Keeps(queue'[w], "unjoin") = Keeps(queue[w], "unjoin")
  BY ZenonT(60), <1>2, KeepsKinds DEF SameRecord
<1>6. \A d \in joined : asked'[d] = asked[d] \/ asked'[d] = cycle
  BY <1>1
<1>7. quarter' # 1 => sent' = Validator
  BY <1>1 DEF LeaveInv
<1> HIDE DEF u
<1> QED BY <1>1, <1>2, <1>3, <1>4, <1>5, <1>6, <1>7, LeaveStep

(* sendRequests takes the first request of its list, which is the leaving  *)
(* candidate's and still valid, unless it keeps one of that candidate.     *)
LEMMA SendLeave ==
  ASSUME \A c, d \in Unjoining : c = d, ListInv, LeaveInv, NEW v \in Validator, SendRequests(v)
  PROVE  LeaveInv'
<1> DEFINE q == queue[v]
           p == queue'[v]
<1>1. /\ UNCHANGED <<cycle, quarter, standby, joined, made, asked>>
      /\ quarter = 1 /\ v \notin sent /\ sent' = sent \cup {v} /\ cycle \in Nat
  BY DEF SendRequests, ListInv, Shape
<1>2. /\ \A w \in Validator : w # v => queue'[w] = queue[w]
      /\ p.unjoin = q.unjoin \cup Unjoins(q) /\ SameLeave(q, p)
  BY ListQueues, SendQueue
<1>3. Keeps(q, "unjoin") \subseteq Keeps(p, "unjoin") /\ \A b \in Unjoins(q) : b.who \in Keeps(p, "unjoin")
  BY <1>2, KeepsKinds
<1>4. ASSUME NEW u \in ToSet(q.unjoinThis), u.who \in OnStandby \cup joined
      PROVE  u.who \in Keeps(p, "unjoin")
  <2> DEFINE s == q.unjoinThis
             c == u.who
  <2>1. s \in Seq(LeaveRequests) /\ Len(s) \in Nat /\ DOMAIN s = 1 .. Len(s) /\ 1 \in DOMAIN s
    <3>1. s \in Seq(LeaveRequests)
      BY ListQueues DEF Queues, QueueShape
    <3>2. PICK i \in DOMAIN s : u = s[i]
      BY <1>4 DEF ToSet
    <3> QED BY <3>1, <3>2
  <2>2. s[1].who = c /\ s[1].when = counter - 1
    <3>1. s[1] \in ToSet(s)
      BY <2>1 DEF ToSet
    <3>2. LeaveAt(s, counter - 1)
      BY DEF LeaveInv
    <3> QED BY <1>4, <3>1, <3>2 DEF LeaveAt
  <2>3. CASE c \in Keeps(q, "unjoin")
    BY <1>3, <2>3
  <2>4. CASE c \notin Keeps(q, "unjoin")
    <3>1. UnjoinValid(s[1], q)
      <4>1. \A w \in q.unjoin : w.who # s[1].who
        BY <2>2, <2>4, KeepsKinds
      <4>2. counter - s[1].when \in -1 .. 1
        BY <1>1, <2>2 DEF counter
      <4>3. c \in OnStandby => c \notin nodes
        BY DEF ListInv, ListsDisjoint
      <4> QED BY <1>4, <2>2, <4>1, <4>2, <4>3 DEF UnjoinValid
    <3>2. s[1] \in Unjoins(q)
      <4>1. \A k \in 1 .. 1 : k = 1
        OBVIOUS
      <4>2. \A j \in 1 .. 1 - 1 : FALSE
        OBVIOUS
      <4> HIDE DEF c, p
      <4> QED BY <2>1, <3>1, <4>1, <4>2 DEF Unjoins
    <3> QED BY <1>3, <2>2, <3>2
  <2> QED BY <2>3, <2>4
<1>5. \A w \in Validator : LeaveAt(queue[w].unjoinNext, counter)
  BY DEF LeaveInv
<1> HIDE DEF p, q
<1>6. ASSUME NEW w \in Validator
      PROVE  /\ queue'[w].unjoinThis = queue[w].unjoinThis
             /\ LeaveAt(queue'[w].unjoinNext, counter)
             /\ Keeps(queue[w], "unjoin") \subseteq Keeps(queue'[w], "unjoin")
             /\ w \in sent' /\ w \notin sent =>
                  \A u \in ToSet(queue[w].unjoinThis) :
                    u.who \in OnStandby \cup joined => u.who \in Keeps(queue'[w], "unjoin")
  <2>1. CASE w = v
    BY <1>2, <1>3, <1>4, <1>5, <2>1 DEF SameLeave, p, q
  <2>2. CASE w # v
    BY <1>1, <1>2, <1>5, <2>2
  <2> QED BY <2>1, <2>2
<1> QED BY <1>1, <1>6, LeaveStep

LEMMA ReceiveLeave ==
  ASSUME ListInv, LeaveInv, NEW m \in msgs, Receive(m)
  PROVE  LeaveInv'
<1>1. /\ UNCHANGED <<cycle, quarter, standby, joined, made, sent, asked>>
      /\ m.to \in Validator /\ BodyOK(m.body) /\ quarter \in {1, 2, 3} /\ cycle \in Nat
  BY DEF Receive, chain, ListInv, RequestsOK, Shape
<1>2. /\ \A w \in Validator : w # m.to => queue'[w] = queue[w]
      /\ queue[m.to].unjoin \subseteq queue'[m.to].unjoin /\ SameLeave(queue[m.to], queue'[m.to])
  BY <1>1, ListQueues, ReceiveQueue DEF BodyOK
<1>3. \A w \in Validator : queue[w].unjoin \subseteq queue'[w].unjoin /\ SameLeave(queue[w], queue'[w])
  BY <1>2 DEF SameLeave
<1>4. \A w \in Validator : Keeps(queue[w], "unjoin") \subseteq Keeps(queue'[w], "unjoin")
  BY <1>3, KeepsKinds
<1>5. \A w \in Validator : LeaveAt(queue'[w].unjoinNext, counter) /\ queue'[w].unjoinThis = queue[w].unjoinThis
  BY <1>3 DEF LeaveInv, SameLeave
<1>6. quarter' # 1 => sent' = Validator
  BY <1>1 DEF LeaveInv
<1> QED BY <1>1, <1>4, <1>5, <1>6, LeaveStep

LEMMA OtherLeave ==
  ASSUME ListInv, LeaveInv,
         \/ UNCHANGED vars
         \/ RunQ2
         \/ \E c \in Candidate, what \in {"started", "finished"} : TellProgress(c, what)
  PROVE  LeaveInv'
<1>1. /\ UNCHANGED <<cycle, standby, joined, made, sent, asked, queue>>
      /\ quarter' = quarter \/ (quarter = 1 /\ quarter' = 2 /\ sent = Validator)
      /\ quarter \in {1, 2, 3} /\ cycle \in Nat
  BY DEF vars, chain, RunQ2, TellProgress, ListInv, Shape
<1>2. \A w \in Validator : LeaveAt(queue'[w].unjoinNext, counter)
  BY <1>1 DEF LeaveInv
<1>3. quarter' # 1 => sent' = Validator
  BY <1>1 DEF LeaveInv
<1> QED BY <1>1, <1>2, <1>3, LeaveStep

(* updateRecord: who is selected or was so just now leaves the node list,  *)
(* anybody else the standby list.                                          *)
LEMMA RunQ3Leave ==
  ASSUME ListInv, LeaveInv, RunQ3
  PROVE  LeaveInv'
<1>1. /\ UNCHANGED <<cycle, standby, joined, sent, asked>>
      /\ quarter = 2 /\ quarter' = 3 /\ sent = Validator
      /\ made' = [v \in Validator |-> MakeRecord(v)]
  <2>1. /\ UNCHANGED <<cycle, standby, joined, sent, asked>>
        /\ made' = [v \in Validator |-> MakeRecord(v)]
    BY DEF RunQ3
  <2>2. quarter = 2 /\ quarter' = 3
    BY DEF RunQ3
  <2>3. quarter # 1 => sent = Validator
    BY DEF LeaveInv
  <2>4. sent = Validator
    BY <2>2, <2>3
  <2> QED BY <2>1, <2>2, <2>4
<1>2. \A v \in Validator : SameLeave(queue[v], queue'[v])
  BY ListQueues, RunQ3Queue
<1>3. OnStandby' = OnStandby /\ counter' = counter
  BY <1>1 DEF OnStandby, counter
<1>4. ASSUME NEW v \in Validator, NEW u \in ToSet(queue[v].unjoinThis), u.who \in OnStandby \cup joined
      PROVE  Caught(v, u.who)'
  <2>1. u.who \in Keeps(queue[v], "unjoin")
    BY <1>1, <1>4 DEF LeaveInv, Caught
  <2>2. u.who \in {w.who : w \in queue[v].unjoin}
    BY <2>1, KeepsKinds
  <2>3. PICK r : r = MakeRecord(v)
    OBVIOUS
  <2>4. /\ r.joined = Joining /\ r.apoptosized = ToRemove(queue[v])
        /\ {w.who : w \in queue[v].unjoin} \ ToRemove(queue[v]) \subseteq r.standbyRemove
    BY <2>3 DEF MakeRecord
  <2>5. made'[v] = r
    BY <1>1, <2>3
  <2> QED BY <1>1, <2>2, <2>4, <2>5 DEF Caught, ToRemove
<1>5. ASSUME NEW v \in Validator
      PROVE  /\ LeaveAt(queue'[v].unjoinNext, counter')
             /\ LeaveAt(queue'[v].unjoinThis, counter' - 1)
             /\ \A u \in ToSet(queue'[v].unjoinThis) : u.who \in OnStandby' \cup joined' => Caught(v, u.who)'
  BY <1>1, <1>2, <1>3, <1>4 DEF LeaveInv, SameLeave
<1>6. \A c \in joined' : c \in Candidate /\ c \notin OnStandby' /\ asked'[c] # counter'
  BY <1>1, <1>3 DEF LeaveInv
<1> QED BY <1>1, <1>5, <1>6 DEF LeaveInv, LeaveAt

(* digestCycle takes whom the record drops off the lists, and the next     *)
(* cycle looks at the requests that came in this one.                      *)
LEMMA CycleLeave ==
  ASSUME ListInv, LeaveInv, CycleCreator
  PROVE  LeaveInv'
<1>1. PICK v \in Validator : DigestStandby(made[v]) /\ joined' = made[v].joined
  BY DEF CycleCreator
<1>2. PICK r : r = made[v]
  OBVIOUS
<1>3. /\ quarter' = 1 /\ sent' = {} /\ cycle' = cycle + 1 /\ asked' = asked /\ cycle \in Nat
      /\ RecordOK(r) /\ DigestStandby(r) /\ joined' = r.joined
  BY <1>1, <1>2 DEF CycleCreator, ListInv, Shape, RequestsOK
<1>4. counter' = cycle /\ counter' - 1 = counter
  BY <1>3 DEF counter
<1>5. ASSUME NEW c \in joined' PROVE c \in Candidate /\ c \notin OnStandby' /\ asked'[c] # counter'
  <2>1. c \in OnStandby /\ c \in Candidate
    BY <1>3, <1>5 DEF RecordOK, OnStandby
  <2>2. asked[c] \in Nat /\ asked[c] <= cycle - 2
    BY <2>1 DEF ListInv, Asked
  <2>3. standby'[c] = None
    BY <1>3, <1>5, <2>1, StandbyOne
  <2> QED BY <1>3, <1>4, <2>1, <2>2, <2>3 DEF OnStandby
<1>6. \A w \in Validator : queue'[w].unjoinNext = <<>> /\ queue'[w].unjoinThis = queue[w].unjoinNext
  BY ListQueues, CycleQueue
<1>7. LeaveAt(<<>>, counter')
  BY DEF LeaveAt, ToSet
<1>8. ASSUME NEW w \in Validator
      PROVE  /\ LeaveAt(queue'[w].unjoinNext, counter')
             /\ LeaveAt(queue'[w].unjoinThis, counter' - 1)
             /\ \A u \in ToSet(queue'[w].unjoinThis) : u.who \in OnStandby' \cup joined' => Caught(w, u.who)'
  BY <1>3, <1>4, <1>6, <1>7 DEF LeaveInv, Caught
<1> QED BY <1>3, <1>5, <1>8 DEF LeaveInv, LeaveAt

LEMMA LeaverDropped ==
  ASSUME ListInv, FloodInv, LeaveInv, CycleCreator,
         NEW c \in OnStandby \cup joined, NEW v \in Validator, NEW u \in ToSet(queue[v].unjoinThis), u.who = c
  PROVE  c \notin OnStandby' \cup nodes'
<1>1. PICK w \in Validator : DigestStandby(made[w]) /\ ApplyChange(made[w])
  BY DEF CycleCreator
<1>2. PICK r : r = made[v]
  OBVIOUS
<1>3. quarter = 3 /\ DOMAIN made = Validator /\ RecordOK(r)
  BY <1>2 DEF CycleCreator, ListInv, RequestsOK
<1>4. DigestStandby(r) /\ ApplyChange(r)
  BY <1>1, <1>2, <1>3 DEF FloodInv, RecordsAgree
<1>5. IF c \in joined \cup r.joined THEN c \in r.apoptosized ELSE c \in r.standbyRemove
  BY <1>2, <1>3 DEF LeaveInv, Caught
<1>6. c \in Candidate /\ (c \in joined => c \notin OnStandby /\ asked[c] # cycle - 1)
  BY DEF LeaveInv, OnStandby, counter
<1>7. c \in nodes' => (c \in nodes \/ c \in r.joined) /\ c \notin r.apoptosized
  BY <1>4 DEF ApplyChange, Member, Removed
<1>8. c \in OnStandby => c \notin nodes
  BY DEF ListInv, ListsDisjoint
<1>9. c \notin nodes'
  BY <1>5, <1>7, <1>8
<1>10. standby'[c] = None
  <2>1. standby'[c] # None =>
          \/ asked[c] = cycle - 1 /\ c \notin OnStandby
          \/ c \in OnStandby /\ c \notin r.joined /\ c \notin r.standbyRemove
    BY <1>3, <1>4, <1>6, StandbyOne
  <2> QED BY <1>5, <1>6, <2>1
<1> QED BY <1>9, <1>10 DEF OnStandby

(* If one candidate leaves, and no gossip is lost, then it is gone with    *)
(* the record of the cycle in which its request goes out, however long it  *)
(* is on standby by then and even if it is selected in that cycle or was   *)
(* in the last: sendRequests finds its request valid, updateRecord says    *)
(* in the record which list it leaves, and digestCycle does not put it     *)
(* back.                                                                   *)
THEOREM LeaverIsGone ==
  (\A c, d \in Unjoining : c = d) /\ ~Lossy /\ Forgetful = {} => (Spec => LeaversGone)
<1>1. SUFFICES ASSUME \A c, d \in Unjoining : c = d, ~Lossy, Forgetful = {} PROVE Spec => LeaversGone
  OBVIOUS
<1> DEFINE Gone ==
      \A c \in Candidate :
        /\ cycle' # cycle
        /\ c \in OnStandby \cup joined
        /\ \E v \in Validator : c \in {u.who : u \in ToSet(queue[v].unjoinThis)}
        => c \notin OnStandby' \cup nodes'
<1>2. Init => LeaveInv
  <2>1. SUFFICES ASSUME Init PROVE LeaveInv
    OBVIOUS
  <2>2. joined = {} /\ quarter = 1 /\ \A v \in Validator : queue[v] = EmptyQueue
    BY <2>1 DEF Init
  <2>3. EmptyQueue.unjoinNext = <<>> /\ EmptyQueue.unjoinThis = <<>>
    BY DEF EmptyQueue
  <2>4. ToSet(<<>>) = {}
    BY DEF ToSet
  <2> QED BY <2>2, <2>3, <2>4 DEF LeaveInv, LeaveAt
<1>3. ListInv /\ LeaveInv /\ [Next]_vars => LeaveInv'
  <2>1. SUFFICES ASSUME ListInv, LeaveInv, [Next]_vars PROVE LeaveInv'
    OBVIOUS
  <2>2. ASSUME NEW c \in Candidate, NEW v \in Validator, Join(c, v) \/ Unjoin(c, v) \/ AskRefresh(c, v)
        PROVE  LeaveInv'
    BY <2>1, <2>2, AskLeave
  <2>3. ASSUME NEW c \in Candidate, NEW what \in {"started", "finished"}, TellProgress(c, what) PROVE LeaveInv'
    BY <2>1, <2>3, OtherLeave
  <2>4. ASSUME NEW v \in Validator, SendRequests(v) PROVE LeaveInv'
    BY <1>1, <2>1, <2>4, SendLeave
  <2>5. ASSUME NEW m \in msgs, Receive(m) PROVE LeaveInv'
    BY <2>1, <2>5, ReceiveLeave
  <2>6. CASE UNCHANGED vars \/ EndOfRun \/ RunQ2
    BY <2>1, <2>6, OtherLeave DEF EndOfRun
  <2>7. CASE RunQ3
    BY <2>1, <2>7, RunQ3Leave
  <2>8. CASE CycleCreator
    BY <2>1, <2>8, CycleLeave
  <2> QED BY <2>1, <2>2, <2>3, <2>4, <2>5, <2>6, <2>7, <2>8 DEF Next
<1>4. ListInv /\ FloodInv /\ LeaveInv /\ [Next]_vars => [Gone]_vars
  <2>1. SUFFICES ASSUME ListInv, FloodInv, LeaveInv, [Next]_vars, cycle' # cycle PROVE Gone
    OBVIOUS
  <2>2. CycleCreator
    BY ZenonT(60), <2>1
    DEF Next, Join, Unjoin, AskRefresh, TellProgress, SendRequests, Receive, RunQ2, RunQ3, EndOfRun,
                vars, chain
  <2> QED BY <2>1, <2>2, LeaverDropped
<1>5. (Spec => []ListInv) /\ (Spec => []FloodInv)
  BY <1>1, ListInvariant, FloodInvariant
<1>6. Spec => [][Gone]_vars
  <2> HIDE DEF Gone
  <2> QED BY <1>2, <1>3, <1>4, <1>5, PTL DEF Spec
<1> QED BY <1>6 DEF LeaversGone
=============================================================================
