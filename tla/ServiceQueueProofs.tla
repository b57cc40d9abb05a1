------------------------- MODULE ServiceQueueProofs -------------------------
(***************************************************************************)
(* Proofs about the queue of network transactions, for any number of       *)
(* nodes, transactions and subqueues: lists stay sorted (QueueWellFormed), *)
(* nothing is removed unexecuted (RemovedApplied), subqueues are executed  *)
(* in order (SubQueuesOrdered), a walk handles as much as it may           *)
(* (BudgetSpent), and nodes in the same cycle have the same list           *)
(* (QueuesAgree).                                                          *)
(*                                                                         *)
(* First what inserting, removing and parsing a whole record do to a       *)
(* list; then QueueInv (what is collected, made and decided), WalkInv (how *)
(* far a walk has come) and AgreeInv (who has digested what).              *)
(***************************************************************************)
EXTENDS ServiceQueue, SequenceTheorems, FiniteSetTheorems, WellFoundedInduction, TLAPS

(* Induction over the natural numbers, stated for a set.                   *)
LEMMA NatInductionSet ==
  ASSUME NEW T, 0 \in T, \A i \in Nat : i \in T => i + 1 \in T
  PROVE  \A i \in Nat : i \in T
<1> SUFFICES ASSUME Nat \ T # {} PROVE FALSE
  OBVIOUS
<1> DEFINE R == {ss \in Nat \X Nat : ss[1] < ss[2]}
<1>1. \A x, y \in Nat : x < y => <<x, y>> \in R
  OBVIOUS
<1>2. IsWellFoundedOn(R, Nat)
  BY NatLessThanWellFounded, Zenon DEF OpToRel
<1> HIDE DEF R
<1>3. PICK x \in Nat \ T : \A y \in Nat \ T : ~(<<y, x>> \in R)
  <2> Nat \ T \subseteq Nat
    OBVIOUS
  <2> QED
    BY <1>2, WFMin
<1>4. x - 1 \in Nat /\ x - 1 < x /\ (x - 1) + 1 = x
  BY <1>3
<1>5. x - 1 \notin T
  BY <1>3, <1>4
<1> QED
  BY <1>1, <1>3, <1>4, <1>5

LEMMA MinLeast ==
  ASSUME NEW T \in SUBSET Nat, T # {}
  PROVE  Min(T) \in T /\ \A j \in T : Min(T) <= j
<1> DEFINE R == {ss \in Nat \X Nat : ss[1] < ss[2]}
<1>1. \A x, y \in Nat : x < y => <<x, y>> \in R
  OBVIOUS
<1>2. IsWellFoundedOn(R, Nat)
  BY NatLessThanWellFounded, Zenon DEF OpToRel
<1> HIDE DEF R
<1>3. PICK x \in T : \A y \in T : ~(<<y, x>> \in R)
  BY <1>2, WFMin
<1>4. ASSUME NEW y \in T PROVE x <= y
  <2>1. x \in Nat /\ y \in Nat /\ ~(y < x)
    BY <1>1, <1>3
  <2> QED
    BY <2>1
<1>5. \E z \in T : \A y \in T : z =< y
  BY <1>3, <1>4
<1>6. Min(T) = CHOOSE z \in T : \A y \in T : z =< y
  BY DEF Min
<1> QED
  BY <1>5, <1>6, Zenon

LEMMA MaxGreatest ==
  ASSUME NEW N \in Nat, NEW T \in SUBSET (1 .. N), T # {}
  PROVE  Max(T) \in T
<1> DEFINE U == {i \in Nat : \A j \in T : j <= i}
<1>1. N \in U /\ U \in SUBSET Nat
  OBVIOUS
<1>2. Min(U) \in U /\ \A j \in U : Min(U) <= j
  BY <1>1, MinLeast
<1> DEFINE u == Min(U)
<1>3. u \in Nat /\ (\A j \in T : j <= u) /\ \A i \in Nat : (\A j \in T : j <= i) => u <= i
  BY <1>2
<1> HIDE DEF u, U
<1>4. u \in T
  <2> SUFFICES ASSUME u \notin T PROVE FALSE
    OBVIOUS
  <2>1. \A j \in T : j <= u - 1
    BY <1>3
  <2>2. u - 1 \in Nat
    <3> PICK j \in T : TRUE
      OBVIOUS
    <3> QED
      BY <1>3, <2>1
  <2> QED
    BY <1>3, <2>1, <2>2
<1> QED
  BY <1>3, <1>4 DEF Max

-----------------------------------------------------------------------------
(* The function a fold over a finite set is defined with.                  *)
Folded(it, S, base, op, pick) ==
  it = [s \in SUBSET S |-> IF s = {} THEN base ELSE op[<<pick[s], it[s \ {pick[s]}]>>]]

LEMMA FoldExists ==
  ASSUME NEW S, IsFiniteSet(S), NEW V, NEW base \in V, NEW op \in [S \X V -> V],
         NEW pick, \A s \in SUBSET S : s # {} => pick[s] \in s
  PROVE  \E it \in [SUBSET S -> V] : Folded(it, S, base, op, pick)
<1> DEFINE Small(k) == {s \in SUBSET S : Cardinality(s) <= k}
           Val(u, s) == IF s = {} THEN base ELSE op[<<pick[s], u[s \ {pick[s]}]>>]
           Solves(u, k) == u \in [Small(k) -> V] /\ \A s \in Small(k) : u[s] = Val(u, s)
           T == {k \in Nat : \E u : Solves(u, k)}
<1>1. \A s \in SUBSET S : IsFiniteSet(s) /\ Cardinality(s) \in Nat /\ Cardinality(s) <= Cardinality(S)
  BY FS_Subset, FS_CardinalityType
<1>2. ASSUME NEW k \in Nat, NEW s \in Small(k), s # {}
      PROVE  s \ {pick[s]} \in Small(k - 1) /\ Cardinality(s) # 0
  <2>1. Cardinality(s \ {pick[s]}) = Cardinality(s) - 1
    BY <1>1, <1>2, FS_RemoveElement
  <2>2. Cardinality(s) # 0
    BY <1>1, <1>2, FS_EmptySet
  <2> QED
    BY <1>1, <1>2, <2>1, <2>2
<1>3. 0 \in T
  <2> DEFINE u == [s \in Small(0) |-> base]
  <2>1. \A s \in Small(0) : s = {}
    BY <1>1, FS_EmptySet
  <2>2. Solves(u, 0)
    BY <2>1
  <2> QED
    BY <2>2
<1>4. ASSUME NEW k \in Nat, k \in T PROVE k + 1 \in T
  <2> PICK u : Solves(u, k)
    BY <1>4
  <2> DEFINE w == [s \in Small(k + 1) |-> Val(u, s)]
  <2>1. \A s \in Small(k + 1) : s # {} => s \ {pick[s]} \in Small(k)
    <3> \A s \in Small(k + 1) : s # {} => s \ {pick[s]} \in Small((k + 1) - 1)
      BY <1>2
    <3> QED
      OBVIOUS
  <2>2. \A s \in Small(k + 1) : Val(u, s) \in V
    <3> SUFFICES ASSUME NEW s \in Small(k + 1), s # {} PROVE op[<<pick[s], u[s \ {pick[s]}]>>] \in V
      OBVIOUS
    <3>1. u[s \ {pick[s]}] \in V /\ pick[s] \in S
      BY <2>1
    <3> QED
      BY <3>1
  <2>3. \A s \in Small(k) : s \in Small(k + 1) /\ u[s] = w[s]
    BY <1>1
  <2>4. \A s \in Small(k + 1) : Val(w, s) = Val(u, s)
    BY <2>1, <2>3
  <2>5. Solves(w, k + 1)
    <3> HIDE DEF Small, Val
    <3> QED
      BY <2>2, <2>4
  <2> HIDE DEF Solves, w
  <2> QED
    BY <2>5
<1>5. Cardinality(S) \in T
  <2> HIDE DEF T
  <2>1. Cardinality(S) \in Nat
    BY <1>1
  <2>2. \A i \in Nat : i \in T => i + 1 \in T
    BY <1>4
  <2>3. \A i \in Nat : i \in T
    BY <1>3, <2>2, NatInductionSet, Zenon
  <2> QED
    BY <2>1, <2>3
<1>6. Small(Cardinality(S)) = SUBSET S
  BY <1>1
<1>7. PICK u : u \in [SUBSET S -> V] /\ \A s \in SUBSET S : u[s] = Val(u, s)
  <2> PICK u : Solves(u, Cardinality(S))
    BY <1>5
  <2> HIDE DEF Small, Val
  <2> QED
    BY <1>6
<1>8. Folded(u, S, base, op, pick)
  BY <1>7 DEF Folded
<1> QED
  BY <1>7, <1>8

(* Every value of such a function has what the base has and a step keeps.  *)
LEMMA FoldIn ==
  ASSUME NEW S, IsFiniteSet(S), NEW V, NEW it, it[{}] \in V,
         \A s \in SUBSET S : s # {} => \E x \in s : it[s \ {x}] \in V => it[s] \in V
  PROVE  it[S] \in V
<1> DEFINE T == {k \in Nat : \A s \in SUBSET S : Cardinality(s) = k => it[s] \in V}
<1>1. \A s \in SUBSET S : IsFiniteSet(s) /\ Cardinality(s) \in Nat
  BY FS_Subset, FS_CardinalityType
<1>2. 0 \in T
  BY <1>1, FS_EmptySet
<1>3. ASSUME NEW k \in Nat, k \in T PROVE k + 1 \in T
  <2> SUFFICES ASSUME NEW s \in SUBSET S, Cardinality(s) = k + 1 PROVE it[s] \in V
    OBVIOUS
  <2>1. s # {}
    BY FS_EmptySet
  <2>2. PICK x \in s : it[s \ {x}] \in V => it[s] \in V
    BY <2>1
  <2>3. Cardinality(s \ {x}) = Cardinality(s) - 1
    BY <1>1, FS_RemoveElement
  <2> QED
    BY <1>3, <2>2, <2>3
<1> HIDE DEF T
<1>4. \A i \in Nat : i \in T => i + 1 \in T
  BY <1>3
<1>5. \A i \in Nat : i \in T
  BY <1>2, <1>4, NatInductionSet, Zenon
<1> QED
  BY <1>1, <1>5 DEF T
-----------------------------------------------------------------------------
(* What every insertion keeps, the fold over all additions keeps, and the  *)
(* same for removals.                                                      *)
LEMMA InsertedIn ==
  ASSUME NEW adds, IsFiniteSet(adds), NEW V, NEW list \in V,
         \A e \in adds, l \in V : InsertNew(l, e) \in V
  PROVE  FoldSet(LAMBDA e, l : InsertNew(l, e), list, adds) \in V
<1> DEFINE op == [p \in adds \X V |-> InsertNew(p[2], p[1])]
           pick == [s \in SUBSET adds |-> CHOOSE x \in s : TRUE]
           Step(it) == [s \in SUBSET adds |->
                          IF s = {} THEN list
                          ELSE InsertNew(it[s \ {CHOOSE x \in s : TRUE}], CHOOSE x \in s : TRUE)]
           it == CHOOSE u : u = Step(u)
<1>1. op \in [adds \X V -> V]
  OBVIOUS
<1>2. \A s \in SUBSET adds : s # {} => pick[s] \in s
  OBVIOUS
<1>3. PICK u \in [SUBSET adds -> V] : Folded(u, adds, list, op, pick)
  <2> HIDE DEF op, pick
  <2> QED
    BY <1>1, <1>2, FoldExists
<1>4. u = Step(u)
  <2>1. ASSUME NEW s \in SUBSET adds, s # {}
        PROVE  op[<<pick[s], u[s \ {pick[s]}]>>]
                 = InsertNew(u[s \ {CHOOSE x \in s : TRUE}], CHOOSE x \in s : TRUE)
    <3>1. pick[s] \in adds /\ u[s \ {pick[s]}] \in V
      BY <1>2, <2>1
    <3>2. pick[s] = CHOOSE x \in s : TRUE
      OBVIOUS
    <3> HIDE DEF pick
    <3> QED
      BY <3>1, <3>2
  <2> HIDE DEF op, pick
  <2> QED
    BY <1>3, <2>1 DEF Folded
<1>5. it = Step(it)
  <2> HIDE DEF Step
  <2> QED
    BY <1>4
<1>6. it[adds] \in V
  <2> HIDE DEF it
  <2>1. it[{}] = list
    BY <1>5
  <2>2. ASSUME NEW s \in SUBSET adds, s # {} PROVE \E x \in s : it[s \ {x}] \in V => it[s] \in V
    <3>1. (CHOOSE x \in s : TRUE) \in s
      BY <2>2
    <3>2. it[s] = InsertNew(it[s \ {CHOOSE x \in s : TRUE}], CHOOSE x \in s : TRUE)
      BY <1>5, <2>2
    <3>3. ASSUME it[s \ {CHOOSE x \in s : TRUE}] \in V PROVE it[s] \in V
      BY <3>1, <3>2, <3>3
    <3> QED
      BY <3>1, <3>3, Zenon
  <2> QED
    BY <2>1, <2>2, FoldIn
<1> QED
  BY <1>6 DEF FoldSet, MapThenFoldSet

LEMMA RemovedIn ==
  ASSUME NEW removes, IsFiniteSet(removes), NEW V, NEW list \in V,
         \A t \in removes, l \in V : Without(l, t) \in V
  PROVE  FoldSet(LAMBDA t, l : Without(l, t), list, removes) \in V
<1> DEFINE op == [p \in removes \X V |-> Without(p[2], p[1])]
           pick == [s \in SUBSET removes |-> CHOOSE x \in s : TRUE]
           Step(it) == [s \in SUBSET removes |->
                          IF s = {} THEN list
                          ELSE Without(it[s \ {CHOOSE x \in s : TRUE}], CHOOSE x \in s : TRUE)]
           it == CHOOSE u : u = Step(u)
<1>1. op \in [removes \X V -> V]
  OBVIOUS
<1>2. \A s \in SUBSET removes : s # {} => pick[s] \in s
  OBVIOUS
<1>3. PICK u \in [SUBSET removes -> V] : Folded(u, removes, list, op, pick)
  <2> HIDE DEF op, pick
  <2> QED
    BY <1>1, <1>2, FoldExists
<1>4. u = Step(u)
  <2>1. ASSUME NEW s \in SUBSET removes, s # {}
        PROVE  op[<<pick[s], u[s \ {pick[s]}]>>]
                 = Without(u[s \ {CHOOSE x \in s : TRUE}], CHOOSE x \in s : TRUE)
    <3>1. pick[s] \in removes /\ u[s \ {pick[s]}] \in V
      BY <1>2, <2>1
    <3>2. pick[s] = CHOOSE x \in s : TRUE
      OBVIOUS
    <3> HIDE DEF pick
    <3> QED
      BY <3>1, <3>2
  <2> HIDE DEF op, pick
  <2> QED
    BY <1>3, <2>1 DEF Folded
<1>5. it = Step(it)
  <2> HIDE DEF Step
  <2> QED
    BY <1>4
<1>6. it[removes] \in V
  <2> HIDE DEF it
  <2>1. it[{}] = list
    BY <1>5
  <2>2. ASSUME NEW s \in SUBSET removes, s # {} PROVE \E x \in s : it[s \ {x}] \in V => it[s] \in V
    <3>1. (CHOOSE x \in s : TRUE) \in s
      BY <2>2
    <3>2. it[s] = Without(it[s \ {CHOOSE x \in s : TRUE}], CHOOSE x \in s : TRUE)
      BY <1>5, <2>2
    <3>3. ASSUME it[s \ {CHOOSE x \in s : TRUE}] \in V PROVE it[s] \in V
      BY <3>1, <3>2, <3>3
    <3> QED
      BY <3>1, <3>3, Zenon
  <2> QED
    BY <2>1, <2>2, FoldIn
<1> QED
  BY <1>6 DEF FoldSet, MapThenFoldSet

(* The proposals of a cycle, added one by one.                             *)
AddOne(adds, e) == IF \E f \in adds : f.tx = e.tx THEN adds ELSE adds \cup {e}

LEMMA ProposedIn ==
  ASSUME NEW seq, NEW N \in Nat, DOMAIN seq = 1 .. N, NEW V, NEW adds \in V,
         \A i \in DOMAIN seq, a \in V : AddOne(a, seq[i]) \in V
  PROVE  FoldLeft(LAMBDA a, e : IF \E f \in a : f.tx = e.tx THEN a ELSE a \cup {e}, adds, seq) \in V
<1> DEFINE D == DOMAIN seq
           op == [p \in D \X V |-> AddOne(p[2], seq[p[1]])]
           pick == [s \in SUBSET D |-> Max(s)]
           Step(it) == [s \in SUBSET D |->
                          IF s = {} THEN adds
                          ELSE IF \E f \in it[s \ {Max(s)}] : f.tx = seq[Max(s)].tx
                               THEN it[s \ {Max(s)}]
                               ELSE it[s \ {Max(s)}] \cup {seq[Max(s)]}]
           it == CHOOSE u : u = Step(u)
<1>1. op \in [D \X V -> V]
  OBVIOUS
<1>2. \A s \in SUBSET D : s # {} => Max(s) \in s
  BY MaxGreatest
<1>3. IsFiniteSet(D)
  BY FS_Interval
<1>4. PICK u \in [SUBSET D -> V] : Folded(u, D, adds, op, pick)
  <2>1. \A s \in SUBSET D : s # {} => pick[s] \in s
    BY <1>2
  <2> HIDE DEF op, pick, D
  <2> QED
    BY <1>1, <1>3, <2>1, FoldExists
<1>5. u = Step(u)
  <2>1. ASSUME NEW s \in SUBSET D, s # {}
        PROVE  op[<<pick[s], u[s \ {pick[s]}]>>] = AddOne(u[s \ {Max(s)}], seq[Max(s)])
    <3>1. Max(s) \in D /\ u[s \ {Max(s)}] \in V
      BY <1>2, <2>1
    <3>2. pick[s] = Max(s)
      OBVIOUS
    <3> HIDE DEF pick, D
    <3> QED
      BY <3>1, <3>2
  <2>2. u = [s \in SUBSET D |-> IF s = {} THEN adds ELSE AddOne(u[s \ {Max(s)}], seq[Max(s)])]
    <3> HIDE DEF op, pick, D
    <3> QED
      BY <1>4, <2>1 DEF Folded
  <2> HIDE DEF D
  <2> QED
    BY <2>2 DEF AddOne
<1>6. it = Step(it)
  <2> HIDE DEF Step
  <2> QED
    BY <1>5
<1>7. it[D] \in V
  <2>1. it[{}] = adds /\ \A s \in SUBSET D : s # {} => it[s] = AddOne(it[s \ {Max(s)}], seq[Max(s)])
    <3> HIDE DEF it, D
    <3> QED
      BY <1>6 DEF AddOne
  <2> HIDE DEF it
  <2>2. ASSUME NEW s \in SUBSET D, s # {} PROVE \E x \in s : it[s \ {x}] \in V => it[s] \in V
    <3>1. Max(s) \in s /\ it[s] = AddOne(it[s \ {Max(s)}], seq[Max(s)])
      BY <1>2, <2>1, <2>2
    <3>2. ASSUME it[s \ {Max(s)}] \in V PROVE it[s] \in V
      BY <3>1, <3>2
    <3> QED
      BY <3>1, <3>2, Zenon
  <2> HIDE DEF D
  <2> QED
    BY <1>3, <2>1, <2>2, FoldIn
<1> QED
  BY <1>7 DEF FoldLeft, MapThenFoldSet
-----------------------------------------------------------------------------
Entry == [tx : Tx, cycle : Int]
Lists == {l \in Seq(Entry) : Sorted(l)}

(* The order of entries is transitive, and total on different ones.        *)
LEMMA BeforeOrder ==
  \A e, f, g \in Entry :
    /\ Before(e, f) /\ Before(f, g) => Before(e, g)
    /\ e.tx # f.tx => Before(e, f) \/ Before(f, e)
<1> TAKE e, f, g \in Entry
<1> DEFINE c(x) == x.cycle
           p(x) == Priority[x.tx]
           r(x) == Rank[x.tx]
<1>1. \A x \in Entry : c(x) \in Int /\ p(x) \in Nat /\ r(x) \in Nat /\ x.tx \in Tx
  BY QueueAssumption DEF Entry
<1>2. e.tx # f.tx => r(e) # r(f)
  BY <1>1, QueueAssumption
<1>3. \A x, y \in Entry : Before(x, y) <=> \/ c(x) < c(y)
                                           \/ c(x) = c(y) /\ p(x) > p(y)
                                           \/ c(x) = c(y) /\ p(x) = p(y) /\ r(x) < r(y)
  BY DEF Before
<1> HIDE DEF c, p, r
<1>4. /\ c(e) \in Int /\ p(e) \in Nat /\ r(e) \in Nat
      /\ c(f) \in Int /\ p(f) \in Nat /\ r(f) \in Nat
      /\ c(g) \in Int /\ p(g) \in Nat /\ r(g) \in Nat
  BY <1>1
<1> QED
  BY <1>2, <1>3, <1>4

(* SortedInsert puts a new entry after the ones before it.                 *)
LEMMA InsertShape ==
  ASSUME NEW list \in Lists, NEW e \in Entry, ~InList(list, e.tx)
  PROVE  \E p \in 1 .. Len(list) + 1 :
           LET new == SortedInsert(list, e)
           IN  /\ new \in Seq(Entry) /\ Len(new) = Len(list) + 1
               /\ \A i \in 1 .. Len(new) :
                    /\ i < p => i \in 1 .. Len(list) /\ new[i] = list[i] /\ Before(list[i], e)
                    /\ i = p => new[i] = e
                    /\ i > p => i - 1 \in 1 .. Len(list) /\ new[i] = list[i - 1] /\ Before(e, list[i - 1])
<1> DEFINE later == {i \in DOMAIN list : Before(e, list[i])}
           N == Len(list)
<1>1. list \in Seq(Entry) /\ N \in Nat /\ DOMAIN list = 1 .. N /\ \A i \in 1 .. N : list[i] \in Entry
  BY DEF Lists
<1>2. \A i \in 1 .. N : list[i].tx # e.tx
  BY <1>1 DEF InList
<1>3. \A i \in (1 .. N) \ later : Before(list[i], e)
  BY <1>1, <1>2, BeforeOrder
<1>4. CASE later = {}
  <2>1. SortedInsert(list, e) = Append(list, e)
    BY <1>4 DEF SortedInsert
  <2> DEFINE new == Append(list, e)
  <2>2. /\ new \in Seq(Entry) /\ Len(new) = N + 1
        /\ \A i \in 1 .. N : new[i] = list[i]
        /\ new[N + 1] = e
    BY <1>1, AppendProperties
  <2> HIDE DEF new
  <2>3. ASSUME NEW i \in 1 .. Len(new)
        PROVE  /\ i < N + 1 => i \in 1 .. N /\ new[i] = list[i] /\ Before(list[i], e)
               /\ i = N + 1 => new[i] = e
               /\ ~(i > N + 1)
    BY <1>1, <1>3, <1>4, <2>2
  <2>4. N + 1 \in 1 .. N + 1
    BY <1>1
  <2> QED
    BY <2>1, <2>2, <2>3, <2>4 DEF new
<1>5. CASE later # {}
  <2> DEFINE p == Min(later)
  <2>1. p \in later /\ \A j \in later : p <= j
    <3>1. later \in SUBSET Nat
      BY <1>1
    <3> HIDE DEF later
    <3> QED
      BY <1>5, <3>1, MinLeast
  <2>2. SortedInsert(list, e) = InsertAt(list, p, e)
    BY <1>5 DEF SortedInsert
  <2> HIDE DEF p
  <2>3. p \in 1 .. N /\ Before(e, list[p])
    BY <1>1, <2>1
  <2> DEFINE front == SubSeq(list, 1, p - 1)
             back == SubSeq(list, p, N)
             new == (front \o <<e>>) \o back
  <2>4. /\ front \in Seq(Entry) /\ Len(front) = p - 1
        /\ \A i \in 1 .. p - 1 : front[i] = list[i]
    <3>1. 1 \in Int /\ p - 1 \in Int /\ \A i \in 1 .. p - 1 : list[i] \in Entry
      BY <1>1, <2>3
    <3>2. /\ front \in Seq(Entry)
          /\ Len(front) = IF 1 <= p - 1 THEN (p - 1) - 1 + 1 ELSE 0
          /\ \A i \in 1 .. (p - 1) - 1 + 1 : front[i] = list[1 + i - 1]
      BY <3>1, SubSeqProperties
    <3> HIDE DEF front
    <3> QED
      BY <2>3, <3>2
  <2>5. /\ back \in Seq(Entry) /\ Len(back) = N - p + 1
        /\ \A i \in 1 .. N - p + 1 : back[i] = list[p + i - 1]
    <3>1. p \in Int /\ N \in Int /\ \A i \in p .. N : list[i] \in Entry
      BY <1>1, <2>3
    <3>2. /\ back \in Seq(Entry)
          /\ Len(back) = IF p <= N THEN N - p + 1 ELSE 0
          /\ \A i \in 1 .. N - p + 1 : back[i] = list[p + i - 1]
      BY <3>1, SubSeqProperties
    <3> HIDE DEF back
    <3> QED
      BY <1>1, <2>3, <3>2
  <2> HIDE DEF front, back, N, later
  <2>6. /\ front \o <<e>> \in Seq(Entry) /\ Len(front \o <<e>>) = p
        /\ \A i \in 1 .. p : (front \o <<e>>)[i] = IF i <= p - 1 THEN list[i] ELSE e
    <3> DEFINE one == <<e>>
    <3>1. one \in Seq(Entry) /\ Len(one) = 1 /\ one[1] = e
      OBVIOUS
    <3> HIDE DEF one
    <3>2. /\ front \o one \in Seq(Entry) /\ Len(front \o one) = Len(front) + Len(one)
          /\ \A i \in 1 .. Len(front) + Len(one) :
               (front \o one)[i] = IF i <= Len(front) THEN front[i] ELSE one[i - Len(front)]
      BY <2>4, <3>1, ConcatProperties
    <3>3. /\ front \o one \in Seq(Entry) /\ Len(front \o one) = p
          /\ \A i \in 1 .. p : (front \o one)[i] = IF i <= p - 1 THEN list[i] ELSE e
      BY <2>3, <2>4, <3>1, <3>2
    <3> QED
      BY <3>3 DEF one
  <2>7. /\ new \in Seq(Entry) /\ Len(new) = N + 1
        /\ \A i \in 1 .. N + 1 : new[i] = IF i < p THEN list[i] ELSE IF i = p THEN e ELSE list[i - 1]
    <3> DEFINE start == front \o <<e>>
    <3>1. start \in Seq(Entry) /\ Len(start) = p
          /\ \A i \in 1 .. p : start[i] = IF i <= p - 1 THEN list[i] ELSE e
      BY <2>6
    <3> HIDE DEF start
    <3>2. /\ start \o back \in Seq(Entry) /\ Len(start \o back) = Len(start) + Len(back)
          /\ \A i \in 1 .. Len(start) + Len(back) :
               (start \o back)[i] = IF i <= Len(start) THEN start[i] ELSE back[i - Len(start)]
      BY <2>5, <3>1, ConcatProperties
    <3>3. /\ start \o back \in Seq(Entry) /\ Len(start \o back) = N + 1
          /\ \A i \in 1 .. N + 1 :
               (start \o back)[i] = IF i < p THEN list[i] ELSE IF i = p THEN e ELSE list[i - 1]
      <4>1. N \in Nat
        BY <1>1
      <4>2. ASSUME NEW i \in 1 .. N + 1
            PROVE  (start \o back)[i] = IF i < p THEN list[i] ELSE IF i = p THEN e ELSE list[i - 1]
        <5>1. CASE i <= p
          BY SMTT(30), <2>3, <2>5, <3>1, <3>2, <4>1, <5>1
        <5>2. CASE i > p
          <6>1. i - p \in 1 .. N - p + 1 /\ p + (i - p) - 1 = i - 1
            BY <2>3, <4>1, <5>2
          <6>2. back[i - p] = list[i - 1]
            BY <2>5, <6>1
          <6>3. (start \o back)[i] = back[i - p]
            <7>1. Len(start) + Len(back) = N + 1 /\ Len(start) = p
              BY <2>3, <2>5, <3>1, <4>1
            <7>2. i \in 1 .. Len(start) + Len(back) /\ ~(i <= Len(start)) /\ i - Len(start) = i - p
              BY <2>3, <4>1, <5>2, <7>1
            <7> QED
              BY <3>2, <7>2
          <6>4. (start \o back)[i] = list[i - 1] /\ ~(i < p) /\ i # p
            BY <2>3, <5>2, <6>2, <6>3
          <6> QED
            BY <6>4, Zenon
        <5>3. i <= p \/ i > p
          BY <2>3, <4>1
        <5> QED
          BY <5>1, <5>2, <5>3, Zenon
      <4> QED
        BY <2>3, <2>5, <3>1, <3>2, <4>1, <4>2
    <3> QED
      BY <3>3 DEF start
  <2>8. SortedInsert(list, e) = new
    BY <2>2 DEF InsertAt, front, back, N
  <2> HIDE DEF new
  <2>9. ASSUME NEW i \in 1 .. Len(new)
        PROVE  /\ i < p => i \in 1 .. N /\ new[i] = list[i] /\ Before(list[i], e)
               /\ i = p => new[i] = e
               /\ i > p => i - 1 \in 1 .. N /\ new[i] = list[i - 1] /\ Before(e, list[i - 1])
    <3>1. CASE i < p
      <4>1. i \in (1 .. N) \ later
        BY <1>1, <2>1, <2>3, <2>7, <3>1
      <4> QED
        BY <1>1, <1>3, <2>3, <2>7, <3>1, <4>1
    <3>2. CASE i = p
      BY <2>3, <2>7, <3>2
    <3>3. CASE i > p
      <4>1. i - 1 \in 1 .. N /\ new[i] = list[i - 1] /\ p <= i - 1
        BY <1>1, <2>3, <2>7, <3>3
      <4>2. CASE i - 1 = p
        BY <2>3, <3>3, <4>1, <4>2
      <4>3. CASE p < i - 1
        <5>1. Before(list[p], list[i - 1])
          BY <1>1, <2>3, <4>1, <4>3 DEF Lists, Sorted
        <5>2. Before(e, list[i - 1])
          BY <1>1, <2>3, <4>1, <5>1, BeforeOrder
        <5> QED
          BY <2>3, <3>3, <4>1, <5>2
      <4> QED
        BY <2>3, <4>1, <4>2, <4>3
    <3> QED
      BY <2>3, <2>7, <3>1, <3>2, <3>3
  <2>10. p \in 1 .. N + 1
    BY <1>1, <2>3
  <2> QED
    BY <2>7, <2>8, <2>9, <2>10 DEF N
<1> QED
  BY <1>4, <1>5

(* parseRecord keeps the list sorted, adds the entry and loses none.       *)
LEMMA InsertNewKeeps ==
  ASSUME NEW list \in Lists, NEW e \in Entry
  PROVE  /\ InsertNew(list, e) \in Lists
         /\ \A t : InList(list, t) => InList(InsertNew(list, e), t)
<1>1. CASE InList(list, e.tx)
  BY <1>1 DEF InsertNew
<1>2. CASE ~InList(list, e.tx)
  <2> DEFINE new == SortedInsert(list, e)
  <2>1. PICK p \in 1 .. Len(list) + 1 :
          /\ new \in Seq(Entry) /\ Len(new) = Len(list) + 1
          /\ \A i \in 1 .. Len(new) :
               /\ i < p => i \in 1 .. Len(list) /\ new[i] = list[i] /\ Before(list[i], e)
               /\ i = p => new[i] = e
               /\ i > p => i - 1 \in 1 .. Len(list) /\ new[i] = list[i - 1] /\ Before(e, list[i - 1])
    BY <1>2, InsertShape
  <2>2. InsertNew(list, e) = new
    BY <1>2 DEF InsertNew
  <2> HIDE DEF new
  <2>3. /\ Len(list) \in Nat /\ DOMAIN list = 1 .. Len(list)
        /\ DOMAIN new = 1 .. Len(new) /\ Len(new) \in Nat
        /\ \A i, j \in 1 .. Len(list) :
             i < j => Before(list[i], list[j]) /\ list[i].tx # list[j].tx
    BY <2>1 DEF Lists, Sorted
  <2>4. \A i \in 1 .. Len(list) : list[i].tx # e.tx
    BY <1>2, <2>3 DEF InList
  <2>5. ASSUME NEW i \in 1 .. Len(new), NEW j \in 1 .. Len(new), i < j
        PROVE  Before(new[i], new[j]) /\ new[i].tx # new[j].tx
    <3>1. CASE j < p
      BY <2>1, <2>3, <2>5, <3>1
    <3>2. CASE j = p
      BY <2>1, <2>4, <2>5, <3>2
    <3>3. CASE j > p /\ i = p
      BY <2>1, <2>4, <2>5, <3>3
    <3>4. CASE j > p /\ i < p
      <4>1. i \in 1 .. Len(list) /\ j - 1 \in 1 .. Len(list) /\ i < j - 1
            /\ new[i] = list[i] /\ new[j] = list[j - 1]
        BY <2>1, <2>3, <3>4
      <4> QED
        BY <2>3, <4>1
    <3>5. CASE j > p /\ i > p
      <4>1. i - 1 \in 1 .. Len(list) /\ j - 1 \in 1 .. Len(list) /\ i - 1 < j - 1
            /\ new[i] = list[i - 1] /\ new[j] = list[j - 1]
        BY <2>1, <2>3, <2>5, <3>5
      <4> QED
        BY <2>3, <4>1
    <3> QED
      BY <2>1, <2>3, <3>1, <3>2, <3>3, <3>4, <3>5
  <2>6. new \in Lists
    BY <2>1, <2>3, <2>5 DEF Lists, Sorted
  <2>7. ASSUME NEW k \in 1 .. Len(list) PROVE \E i \in 1 .. Len(new) : new[i] = list[k]
    <3>1. CASE k < p
      BY <2>1, <2>3, <3>1
    <3>2. CASE k >= p
      <4>1. k + 1 \in 1 .. Len(new) /\ k + 1 > p /\ (k + 1) - 1 = k
        BY <2>1, <2>3, <3>2
      <4>2. new[k + 1] = list[k]
        BY <2>1, <4>1
      <4> QED
        BY <4>1, <4>2, Zenon
    <3>3. k < p \/ k >= p
      BY <2>3
    <3> QED
      BY <3>1, <3>2, <3>3, Zenon
  <2>8. \A t : InList(list, t) => InList(new, t)
    BY <2>3, <2>7 DEF InList
  <2> QED
    BY <2>2, <2>6, <2>8
<1> QED
  BY <1>1, <1>2

(* Removing a transaction keeps the list sorted and every other one in it. *)
LEMMA WithoutKeeps ==
  ASSUME NEW list \in Lists, NEW t
  PROVE  /\ Without(list, t) \in Lists
         /\ \A u : u # t /\ InList(list, u) => InList(Without(list, t), u)
<1> DEFINE N == Len(list)
           I == {i \in 1 .. N : list[i].tx = t}
<1>1. /\ list \in Seq(Entry) /\ N \in Nat /\ DOMAIN list = 1 .. N
      /\ \A i \in 1 .. N : list[i] \in Entry
      /\ \A i, j \in 1 .. N : i < j => Before(list[i], list[j]) /\ list[i].tx # list[j].tx
  BY DEF Lists, Sorted
<1>2. CASE I = {}
  <2>1. Without(list, t) = list
    BY <1>2 DEF Without, RemoveFirstMatch
  <2> QED
    BY <2>1
<1>3. CASE I # {}
  <2> DEFINE p == Min(I)
  <2>1. p \in I
    <3>1. I \in SUBSET Nat
      OBVIOUS
    <3> HIDE DEF I
    <3> QED
      BY <1>3, <3>1, MinLeast
  <2>2. Without(list, t) = RemoveAt(list, p)
    BY <1>3 DEF Without, RemoveFirstMatch, SelectInSeq
  <2> HIDE DEF p
  <2>3. p \in 1 .. N /\ list[p].tx = t
    BY <2>1
  <2> DEFINE front == SubSeq(list, 1, p - 1)
             back == SubSeq(list, p + 1, N)
             new == front \o back
  <2>4. /\ front \in Seq(Entry) /\ Len(front) = p - 1
        /\ \A i \in 1 .. p - 1 : front[i] = list[i]
    <3>1. 1 \in Int /\ p - 1 \in Int /\ \A i \in 1 .. p - 1 : list[i] \in Entry
      BY <1>1, <2>3
    <3>2. /\ front \in Seq(Entry)
          /\ Len(front) = IF 1 <= p - 1 THEN (p - 1) - 1 + 1 ELSE 0
          /\ \A i \in 1 .. (p - 1) - 1 + 1 : front[i] = list[1 + i - 1]
      BY <3>1, SubSeqProperties
    <3> HIDE DEF front
    <3> QED
      BY <2>3, <3>2
  <2>5. /\ back \in Seq(Entry) /\ Len(back) = N - p
        /\ \A i \in 1 .. N - p : back[i] = list[p + i]
    <3>1. p + 1 \in Int /\ N \in Int /\ \A i \in p + 1 .. N : list[i] \in Entry
      BY <1>1, <2>3
    <3>2. /\ back \in Seq(Entry)
          /\ Len(back) = IF p + 1 <= N THEN N - (p + 1) + 1 ELSE 0
          /\ \A i \in 1 .. N - (p + 1) + 1 : back[i] = list[(p + 1) + i - 1]
      BY <3>1, SubSeqProperties
    <3> HIDE DEF back
    <3>0. N \in Nat /\ p \in 1 .. N
      BY <1>1, <2>3
    <3> HIDE DEF N
    <3>3. N - (p + 1) + 1 = N - p /\ (p + 1 <= N \/ N - p = 0)
      BY <3>0
    <3>4. \A i \in 1 .. N - p : (p + 1) + i - 1 = p + i
      BY <1>1, <2>3
    <3> QED
      BY <1>1, <2>3, <3>2, <3>3, <3>4
  <2> HIDE DEF front, back, N, I
  <2>6. /\ new \in Seq(Entry) /\ Len(new) = N - 1
        /\ \A i \in 1 .. N - 1 : new[i] = IF i < p THEN list[i] ELSE list[i + 1]
    <3>1. /\ new \in Seq(Entry) /\ Len(new) = Len(front) + Len(back)
          /\ \A i \in 1 .. Len(front) + Len(back) :
               new[i] = IF i <= Len(front) THEN front[i] ELSE back[i - Len(front)]
      BY <2>4, <2>5, ConcatProperties
    <3>2. Len(front) + Len(back) = N - 1 /\ N \in Nat
      BY <1>1, <2>3, <2>4, <2>5
    <3> HIDE DEF new
    <3>3. ASSUME NEW i \in 1 .. N - 1 PROVE new[i] = IF i < p THEN list[i] ELSE list[i + 1]
      <4>1. CASE i < p
        <5>1. i \in 1 .. p - 1 /\ i \in 1 .. Len(front) + Len(back) /\ i <= Len(front)
          BY <2>3, <2>4, <3>2, <4>1
        <5>2. new[i] = list[i]
          BY <2>4, <3>1, <5>1
        <5> QED
          BY <4>1, <5>2, Zenon
      <4>2. CASE i >= p
        <5>1. i - (p - 1) \in 1 .. N - p /\ p + (i - (p - 1)) = i + 1
          BY <2>3, <3>2, <4>2
        <5>2. back[i - (p - 1)] = list[i + 1]
          BY <2>5, <5>1
        <5>3. new[i] = back[i - (p - 1)]
          <6>1. i \in 1 .. Len(front) + Len(back) /\ ~(i <= Len(front)) /\ i - Len(front) = i - (p - 1)
            BY <2>3, <2>4, <3>2, <4>2
          <6> QED
            BY <3>1, <6>1
        <5>4. new[i] = list[i + 1] /\ ~(i < p)
          BY <2>3, <4>2, <5>2, <5>3
        <5> QED
          BY <5>4, Zenon
      <4> QED
        BY <2>3, <4>1, <4>2
    <3> QED
      BY <3>1, <3>2, <3>3
  <2>7. Without(list, t) = new
    BY <2>2 DEF RemoveAt, front, back, N
  <2> HIDE DEF new
  <2>8. DOMAIN new = 1 .. N - 1
    BY <2>6
  <2>9. ASSUME NEW i \in 1 .. N - 1, NEW j \in 1 .. N - 1, i < j
        PROVE  Before(new[i], new[j]) /\ new[i].tx # new[j].tx
    <3> DEFINE at(k) == IF k < p THEN k ELSE k + 1
    <3>1. /\ new[i] = list[at(i)] /\ new[j] = list[at(j)]
          /\ at(i) \in 1 .. N /\ at(j) \in 1 .. N /\ at(i) < at(j)
      BY <1>1, <2>3, <2>6, <2>9
    <3> HIDE DEF at
    <3> QED
      BY <1>1, <3>1
  <2>10. new \in Lists
    BY <2>6, <2>8, <2>9 DEF Lists, Sorted
  <2>11. ASSUME NEW k \in 1 .. N, k # p PROVE \E i \in 1 .. N - 1 : new[i] = list[k]
    <3>1. CASE k < p
      <4>1. k \in 1 .. N - 1
        BY <1>1, <2>3, <3>1
      <4> QED
        BY <2>6, <3>1, <4>1
    <3>2. CASE k > p
      <4>1. k - 1 \in 1 .. N - 1 /\ ~(k - 1 < p) /\ (k - 1) + 1 = k
        BY <1>1, <2>3, <3>2
      <4> QED
        BY <2>6, <4>1
    <3> QED
      BY <1>1, <2>3, <2>11, <3>1, <3>2
  <2>12. \A u : u # t /\ InList(list, u) => InList(new, u)
    BY <1>1, <2>3, <2>8, <2>11 DEF InList
  <2> QED
    BY <2>7, <2>10, <2>12
<1> QED
  BY <1>2, <1>3

(* So does the whole of parseRecord.                                       *)
LEMMA ParseKeeps ==
  ASSUME NEW list \in Lists, NEW adds \in SUBSET Entry, IsFiniteSet(adds),
         NEW removes, IsFiniteSet(removes)
  PROVE  /\ ListAfterParse(list, adds, removes) \in Lists
         /\ \A t : t \notin removes /\ InList(list, t) =>
              InList(ListAfterParse(list, adds, removes), t)
<1> DEFINE added == FoldSet(LAMBDA e, l : InsertNew(l, e), list, adds)
<1>1. added \in Lists
  <2>1. \A e \in adds, l \in Lists : InsertNew(l, e) \in Lists
    BY InsertNewKeeps
  <2> QED
    BY <2>1, InsertedIn
<1>2. FoldSet(LAMBDA t, l : Without(l, t), added, removes) \in Lists
  <2>1. \A t \in removes, l \in Lists : Without(l, t) \in Lists
    BY WithoutKeeps
  <2> HIDE DEF added
  <2> QED
    BY <1>1, <2>1, RemovedIn
<1>3. ASSUME NEW u, u \notin removes, InList(list, u)
      PROVE  InList(FoldSet(LAMBDA t, l : Without(l, t), added, removes), u)
  <2> DEFINE V == {l \in Lists : InList(l, u)}
  <2>1. added \in V
    <3>1. \A e \in adds, l \in V : InsertNew(l, e) \in V
      BY InsertNewKeeps
    <3>2. list \in V
      BY <1>3
    <3> HIDE DEF V
    <3> QED
      BY <3>1, <3>2, InsertedIn
  <2>2. \A t \in removes, l \in V : Without(l, t) \in V
    BY <1>3, WithoutKeeps
  <2>3. FoldSet(LAMBDA t, l : Without(l, t), added, removes) \in V
    <3> HIDE DEF V, added
    <3> QED
      BY <2>1, <2>2, RemovedIn
  <2> QED
    BY <2>3
<1> QED
  BY <1>2, <1>3 DEF ListAfterParse
-----------------------------------------------------------------------------
(* The shape of the state.  What is collected in a cycle is finite, and an *)
(* addition is collected once.                                             *)
Adds == {A \in SUBSET Entry : IsFiniteSet(A) /\ \A e, f \in A : e.tx = f.tx => e = f}
Removes == {R \in SUBSET Tx : IsFiniteSet(R)}
GoodRecord(r) ==
  /\ r = [txadd |-> r.txadd, txremove |-> r.txremove, txlisthash |-> r.txlisthash]
  /\ r.txadd \in Adds
  /\ r.txremove \in Removes
Message == [type : {"add"}, tx : Tx, cycle : Int] \cup [type : {"remove"}, tx : Tx]
Pending == [entry : Entry, own : BOOLEAN]
SubQueue == {SubQueueKey[t] : t \in Tx}
Loop == {NotWalking}
        \cup [state : {"next"}, at : Nat \ {0}, length : Nat, keys : SUBSET SubQueue]
        \cup [state : {"verify", "remove"}, at : Nat \ {0}, length : Nat, keys : SUBSET SubQueue, tx : Tx]
IsSequence(s) == Len(s) \in Nat /\ s \in Seq({s[i] : i \in DOMAIN s})

Clocks ==
  /\ cycle \in [Node -> 1 .. MaxCycle + 1]
  /\ quarter \in [Node -> 1 .. 4]
Collected ==
  /\ txList \in [Node -> Lists]
  /\ txAdd \in [Node -> Adds]
  /\ txRemove \in [Node -> Removes]
  /\ addProposals \in [Node -> Seq(Entry)]
  /\ removeProposals \in [Node -> Removes]
  /\ verifying \in [Node -> SUBSET Pending]
  /\ removing \in [Node -> SUBSET Tx]
  /\ gossip \subseteq [to : Node, msg : Message]
Walks ==
  /\ loop \in [Node -> Loop]
  /\ tried \in [Node -> Removes]
  /\ applied \subseteq Tx
Made == DOMAIN made = Node /\ \A n \in Node : GoodRecord(made[n])
Decided ==
  /\ IsSequence(decided)
  /\ \A i \in 1 .. Len(decided) : GoodRecord(decided[i])
  /\ \A n \in Node : cycle[n] <= Len(decided) + 1

(* Only executed transactions are on their way out of the list.            *)
RemovesApplied ==
  /\ \A n \in Node : /\ txRemove[n] \subseteq applied
                      /\ removeProposals[n] \subseteq applied
                      /\ made[n].txremove \subseteq applied
  /\ \A i \in 1 .. Len(decided) : decided[i].txremove \subseteq applied

QueueInv == Clocks /\ Collected /\ Walks /\ Made /\ Decided /\ RemovesApplied

LEMMA AppendAny ==
  ASSUME NEW s, IsSequence(s), NEW r
  PROVE  /\ IsSequence(Append(s, r))
         /\ Len(Append(s, r)) = Len(s) + 1
         /\ \A i \in 1 .. Len(s) : Append(s, r)[i] = s[i]
         /\ Append(s, r)[Len(s) + 1] = r
<1> DEFINE S == {s[i] : i \in DOMAIN s} \cup {r}
           w == Append(s, r)
<1>1. s \in Seq(S) /\ Len(s) \in Nat
  <2>1. s \in Seq({s[i] : i \in DOMAIN s}) /\ {s[i] : i \in DOMAIN s} \subseteq S
    BY DEF IsSequence
  <2> HIDE DEF S
  <2> QED
    BY <2>1, SeqMonotonic DEF IsSequence
<1>2. /\ w \in Seq(S) /\ Len(w) = Len(s) + 1
      /\ \A i \in 1 .. Len(s) : w[i] = s[i]
      /\ w[Len(s) + 1] = r
  <2>1. r \in S
    OBVIOUS
  <2> HIDE DEF S
  <2> QED
    BY <1>1, <2>1, AppendProperties
<1> HIDE DEF w, S
<1>3. w \in Seq({w[i] : i \in DOMAIN w})
  <2>1. w \in [1 .. Len(w) -> S] /\ DOMAIN w = 1 .. Len(w) /\ Len(w) \in Nat
    BY <1>1, <1>2
  <2>2. w \in [1 .. Len(w) -> {w[i] : i \in DOMAIN w}]
    BY <2>1
  <2> QED
    BY <2>1, <2>2, SeqDef
<1> QED
  BY <1>1, <1>2, <1>3 DEF IsSequence, w

(* The sets that grow by one stay finite.                                  *)
LEMMA AddOneKeeps ==
  ASSUME NEW A \in Adds, NEW e \in Entry
  PROVE  AddOne(A, e) \in Adds
<1>1. CASE \E f \in A : f.tx = e.tx
  BY <1>1 DEF AddOne
<1>2. CASE ~\E f \in A : f.tx = e.tx
  <2>1. AddOne(A, e) = A \cup {e}
    BY <1>2 DEF AddOne
  <2>2. A \in SUBSET Entry /\ IsFiniteSet(A) /\ \A f, g \in A : f.tx = g.tx => f = g
    BY DEF Adds
  <2>3. IsFiniteSet(A \cup {e})
    BY <2>2, FS_AddElement
  <2>4. \A f, g \in A \cup {e} : f.tx = g.tx => f = g
    BY <1>2, <2>2
  <2> QED
    BY <2>1, <2>2, <2>3, <2>4 DEF Adds
<1> QED
  BY <1>1, <1>2

LEMMA RemovesKeep ==
  ASSUME NEW R \in Removes
  PROVE  /\ \A t \in Tx : R \cup {t} \in Removes
         /\ \A Q \in SUBSET R : Q \in Removes
         /\ \A Q \in Removes : R \cup Q \in Removes
         /\ {} \in Removes
<1>1. R \in SUBSET Tx /\ IsFiniteSet(R)
  BY DEF Removes
<1>2. \A t \in Tx : IsFiniteSet(R \cup {t})
  BY <1>1, FS_AddElement
<1>3. \A Q \in SUBSET R : IsFiniteSet(Q)
  BY <1>1, FS_Subset
<1>4. \A Q \in Removes : IsFiniteSet(R \cup Q)
  BY <1>1, FS_Union DEF Removes
<1>5. IsFiniteSet({})
  BY FS_EmptySet
<1> QED
  BY <1>1, <1>2, <1>3, <1>4, <1>5 DEF Removes

LEMMA InitQueue == Init => QueueInv
<1> SUFFICES ASSUME Init PROVE QueueInv
  OBVIOUS
<1>1. {} \in Adds /\ {} \in Removes /\ IsFiniteSet({})
  BY FS_EmptySet DEF Adds, Removes
<1>2. Clocks
  BY QueueAssumption DEF Clocks, Init
<1>3. <<>> \in Lists
  BY DEF Lists, Sorted
<1>4. Collected
  BY <1>1, <1>3 DEF Collected, Init
<1>5. Walks
  BY <1>1 DEF Walks, Loop, Init
<1>6. Made
  BY <1>1 DEF Made, GoodRecord, NoRecord, Init
<1>7. decided = <<>> /\ Len(<<>>) = 0
  BY DEF Init
<1>8. IsSequence(decided)
  BY <1>7 DEF IsSequence
<1>9. Decided
  BY <1>7, <1>8 DEF Decided, Init
<1>10. RemovesApplied
  BY <1>7 DEF RemovesApplied, NoRecord, Init
<1> QED
  BY <1>2, <1>4, <1>5, <1>6, <1>9, <1>10 DEF QueueInv
-----------------------------------------------------------------------------
(* Every step keeps the shape.  Parts whose variables a step leaves alone: *)
LEMMA PartsFramed ==
  /\ UNCHANGED <<cycle, quarter>> /\ Clocks => Clocks'
  /\ UNCHANGED <<txList, txAdd, txRemove, addProposals, removeProposals, verifying, removing,
                 gossip>>
       /\ Collected => Collected'
  /\ UNCHANGED <<loop, tried, applied>> /\ Walks => Walks'
  /\ UNCHANGED made /\ Made => Made'
  /\ UNCHANGED <<decided, cycle>> /\ Decided => Decided'
  /\ UNCHANGED <<txRemove, removeProposals, made, decided>> /\ applied \subseteq applied'
       /\ RemovesApplied => RemovesApplied'
<1>1. UNCHANGED <<cycle, quarter>> /\ Clocks => Clocks'
  BY DEF Clocks
<1>2. UNCHANGED <<txList, txAdd, txRemove, addProposals, removeProposals, verifying, removing,
                 gossip>>
        /\ Collected => Collected'
  BY DEF Collected
<1>3. UNCHANGED <<loop, tried, applied>> /\ Walks => Walks'
  BY DEF Walks
<1>4. UNCHANGED made /\ Made => Made'
  BY DEF Made, GoodRecord
<1>5. UNCHANGED <<decided, cycle>> /\ Decided => Decided'
  BY DEF Decided, IsSequence, GoodRecord
<1>6. UNCHANGED <<txRemove, removeProposals, made, decided>> /\ applied \subseteq applied'
        /\ RemovesApplied => RemovesApplied'
  BY DEF RemovesApplied
<1> QED
  BY <1>1, <1>2, <1>3, <1>4, <1>5, <1>6

LEMMA AddNetworkTxKeeps ==
  ASSUME QueueInv, NEW n \in Node, NEW t \in Tx, AddNetworkTx(n, t)
  PROVE  QueueInv'
<1> DEFINE e == [tx |-> t, cycle |-> cycle[n]]
           v == [entry |-> e, own |-> TRUE]
<1>1. v \in Pending
  BY DEF QueueInv, Clocks, Pending, Entry
<1>2. verifying' = [verifying EXCEPT ![n] = @ \cup {v}]
  BY DEF AddNetworkTx
<1> HIDE DEF v
<1>3. Collected'
  <2>1. verifying' \in [Node -> SUBSET Pending]
    BY <1>1, <1>2 DEF QueueInv, Collected
  <2> QED
    BY <2>1 DEF QueueInv, Collected, AddNetworkTx
<1> QED
  BY <1>3, PartsFramed DEF QueueInv, AddNetworkTx

LEMMA AddVerifiedKeeps ==
  ASSUME QueueInv, NEW n \in Node, NEW v \in verifying[n], AddVerified(n, v)
  PROVE  QueueInv'
<1>1. v.entry \in Entry /\ v.entry.tx \in Tx /\ v.entry.cycle \in Int
  BY DEF QueueInv, Collected, Pending, Entry
<1>2. verifying' \in [Node -> SUBSET Pending]
  BY DEF QueueInv, Collected, AddVerified
<1>3. addProposals' \in [Node -> Seq(Entry)]
  <2>1. addProposals \in [Node -> Seq(Entry)] /\ Append(addProposals[n], v.entry) \in Seq(Entry)
    BY <1>1 DEF QueueInv, Collected
  <2>2. \/ addProposals' = addProposals
        \/ addProposals' = [addProposals EXCEPT ![n] = Append(addProposals[n], v.entry)]
    BY DEF AddVerified
  <2> QED
    BY <2>1, <2>2
<1>4. txAdd' \in [Node -> Adds]
  <2>1. CASE txAdd' = txAdd
    BY <2>1 DEF QueueInv, Collected
  <2>2. CASE Push(n, v.entry) /\ ~Added(n, v.entry.tx)
    <3>1. AddOne(txAdd[n], v.entry) = txAdd[n] \cup {v.entry}
      BY <2>2 DEF AddOne, Added
    <3>2. txAdd[n] \in Adds
      BY DEF QueueInv, Collected
    <3>3. txAdd[n] \cup {v.entry} \in Adds
      BY <1>1, <3>1, <3>2, AddOneKeeps
    <3> QED
      BY <2>2, <3>3 DEF QueueInv, Collected, Push
  <2> QED
    BY <2>1, <2>2 DEF AddVerified
<1>5. gossip' \subseteq [to : Node, msg : Message]
  <2>1. AddMessage(v.entry) \in Message
    BY <1>1 DEF AddMessage, Message
  <2>2. ToOthers(n, AddMessage(v.entry)) \subseteq [to : Node, msg : Message]
    BY <2>1 DEF ToOthers
  <2>3. gossip' = gossip \/ gossip' = gossip \cup ToOthers(n, AddMessage(v.entry))
    BY DEF AddVerified
  <2> QED
    BY <2>2, <2>3 DEF QueueInv, Collected
<1>6. Collected'
  BY <1>2, <1>3, <1>4, <1>5 DEF QueueInv, Collected, AddVerified
<1> QED
  BY <1>6, PartsFramed DEF QueueInv, AddVerified

LEMMA ReceiveAddKeeps ==
  ASSUME QueueInv, NEW n \in Node, NEW g \in gossip, ReceiveAdd(n, g.msg)
  PROVE  QueueInv'
<1> DEFINE e == [tx |-> g.msg.tx, cycle |-> g.msg.cycle]
           v == [entry |-> e, own |-> FALSE]
<1>1. v \in Pending
  <2>1. g.msg \in Message /\ g.msg.type = "add"
    BY DEF QueueInv, Collected, ReceiveAdd
  <2> QED
    BY <2>1 DEF Message, Pending, Entry
<1>2. verifying' = [verifying EXCEPT ![n] = @ \cup {v}] \/ verifying' = verifying
  BY DEF ReceiveAdd
<1>3. gossip' \subseteq gossip
  BY DEF ReceiveAdd
<1> HIDE DEF v
<1>4. Collected'
  <2>1. verifying \in [Node -> SUBSET Pending] /\ verifying[n] \cup {v} \in SUBSET Pending
    BY <1>1 DEF QueueInv, Collected
  <2>2. verifying' \in [Node -> SUBSET Pending]
    BY <1>2, <2>1
  <2> QED
    BY <1>3, <2>2 DEF QueueInv, Collected, ReceiveAdd
<1> QED
  BY <1>4, PartsFramed DEF QueueInv, ReceiveAdd

LEMMA ReceiveRemoveKeeps ==
  ASSUME QueueInv, NEW n \in Node, NEW g \in gossip, ReceiveRemove(n, g.msg)
  PROVE  QueueInv'
<1>1. g.msg \in Message /\ g.msg.tx \in Tx
  BY DEF QueueInv, Collected, ReceiveRemove, Message
<1>2. removing' = [removing EXCEPT ![n] = @ \cup {g.msg.tx}] \/ removing' = removing
  BY DEF ReceiveRemove
<1>3. gossip' \subseteq gossip
  BY DEF ReceiveRemove
<1>4. Collected'
  <2>1. removing \in [Node -> SUBSET Tx] /\ removing[n] \cup {g.msg.tx} \in SUBSET Tx
    BY <1>1 DEF QueueInv, Collected
  <2>2. removing' \in [Node -> SUBSET Tx]
    BY <1>2, <2>1
  <2> QED
    BY <1>3, <2>2 DEF QueueInv, Collected, ReceiveRemove
<1> QED
  BY <1>4, PartsFramed DEF QueueInv, ReceiveRemove

LEMMA RemoveVerifiedKeeps ==
  ASSUME QueueInv, NEW n \in Node, NEW t \in removing[n], RemoveVerified(n, t)
  PROVE  QueueInv'
<1>1. t \in Tx /\ RemoveMessage(t) \in Message
  BY DEF QueueInv, Collected, RemoveMessage, Message
<1>2. \/ txRemove' = txRemove /\ gossip' = gossip
      \/ /\ t \in applied
         /\ txRemove' = [txRemove EXCEPT ![n] = @ \cup {t}]
         /\ gossip' = gossip \cup ToOthers(n, RemoveMessage(t))
  BY DEF RemoveVerified
<1>3. txRemove' \in [Node -> Removes]
  <2>1. txRemove \in [Node -> Removes]
    BY DEF QueueInv, Collected
  <2>2. txRemove[n] \cup {t} \in Removes
    BY <1>1, <2>1, RemovesKeep
  <2> QED
    BY <1>2, <2>1, <2>2
<1>4. gossip' \subseteq [to : Node, msg : Message]
  <2>1. ToOthers(n, RemoveMessage(t)) \subseteq [to : Node, msg : Message]
    BY <1>1 DEF ToOthers
  <2> QED
    BY <1>2, <2>1 DEF QueueInv, Collected
<1>5. removing' \in [Node -> SUBSET Tx]
  BY DEF QueueInv, Collected, RemoveVerified
<1>6. Collected'
  BY <1>3, <1>4, <1>5 DEF QueueInv, Collected, RemoveVerified
<1>7. RemovesApplied'
  <2>0. DOMAIN txRemove = Node /\ \A m \in Node : txRemove[m] \subseteq applied
    BY DEF QueueInv, RemovesApplied, Collected
  <2>1. \A m \in Node : txRemove'[m] \subseteq applied
    <3>1. CASE txRemove' = txRemove
      BY <2>0, <3>1
    <3>2. CASE t \in applied /\ txRemove' = [txRemove EXCEPT ![n] = @ \cup {t}]
      BY <2>0, <3>2
    <3> QED
      BY <1>2, <3>1, <3>2
  <2> QED
    BY <2>1 DEF QueueInv, RemovesApplied, RemoveVerified
<1> QED
  BY <1>6, <1>7, PartsFramed DEF QueueInv, RemoveVerified

LEMMA SendRequestsKeeps ==
  ASSUME QueueInv, NEW n \in Node, SendRequests(n)
  PROVE  QueueInv'
<1> DEFINE removes == {t \in removeProposals[n] : InList(txList[n], t)}
<1>1. /\ txAdd[n] \in Adds /\ txRemove[n] \in Removes /\ removeProposals[n] \in Removes
      /\ addProposals[n] \in Seq(Entry)
  BY DEF QueueInv, Collected
<1>2. WithProposals(n) \in Adds
  <2>1. /\ DOMAIN addProposals[n] = 1 .. Len(addProposals[n]) /\ Len(addProposals[n]) \in Nat
        /\ \A i \in DOMAIN addProposals[n] : addProposals[n][i] \in Entry
    BY <1>1
  <2>2. \A i \in DOMAIN addProposals[n], a \in Adds : AddOne(a, addProposals[n][i]) \in Adds
    BY <2>1, AddOneKeeps
  <2> QED
    BY <1>1, <2>1, <2>2, ProposedIn DEF WithProposals
<1>3. removes \in Removes /\ txRemove[n] \cup removes \in Removes /\ {} \in Removes
  <2>1. removes \in Removes
    <3>1. removes \in SUBSET removeProposals[n]
      OBVIOUS
    <3> HIDE DEF removes
    <3> QED
      BY <1>1, <3>1, RemovesKeep
  <2> QED
    BY <1>1, <2>1, RemovesKeep
<1> DEFINE sent == UNION ({ToOthers(n, AddMessage(e)) : e \in ToSet(addProposals[n])}
                          \cup {ToOthers(n, RemoveMessage(t)) : t \in removes})
<1>4. sent \subseteq [to : Node, msg : Message]
  <2>1. \A e \in ToSet(addProposals[n]) : AddMessage(e) \in Message
    <3>1. \A e \in ToSet(addProposals[n]) : e \in Entry
      BY <1>1 DEF ToSet
    <3>2. \A e \in Entry : AddMessage(e) \in Message
      BY DEF AddMessage, Message, Entry
    <3> QED
      BY <3>1, <3>2
  <2>2. \A t \in removes : RemoveMessage(t) \in Message
    BY <1>3 DEF RemoveMessage, Message, Removes
  <2> HIDE DEF removes
  <2> QED
    BY <2>1, <2>2 DEF ToOthers
<1>5. /\ quarter' = [quarter EXCEPT ![n] = 2]
      /\ txAdd' = [txAdd EXCEPT ![n] = WithProposals(n)]
      /\ txRemove' = [txRemove EXCEPT ![n] = @ \cup removes]
      /\ addProposals' = [addProposals EXCEPT ![n] = <<>>]
      /\ removeProposals' = [removeProposals EXCEPT ![n] = {}]
      /\ gossip' = gossip \cup sent
      /\ UNCHANGED <<cycle, txList, verifying, removing, loop, tried, applied, made, decided>>
  BY DEF SendRequests
<1>6. removes \subseteq applied
  BY DEF QueueInv, RemovesApplied
<1> HIDE DEF sent, removes
<1>7. Clocks'
  BY <1>5 DEF QueueInv, Clocks
<1>8. Collected'
  <2>1. txRemove' \in [Node -> Removes]
    BY <1>3, <1>5 DEF QueueInv, Collected
  <2>2. txAdd' \in [Node -> Adds]
    BY <1>2, <1>5 DEF QueueInv, Collected
  <2>3. removeProposals' \in [Node -> Removes]
    BY <1>3, <1>5 DEF QueueInv, Collected
  <2>4. addProposals' \in [Node -> Seq(Entry)]
    BY <1>5 DEF QueueInv, Collected
  <2> QED
    BY <1>4, <1>5, <2>1, <2>2, <2>3, <2>4 DEF QueueInv, Collected
<1>9. RemovesApplied'
  <2>1. \A m \in Node : txRemove'[m] \subseteq applied /\ removeProposals'[m] \subseteq applied
    BY <1>5, <1>6 DEF QueueInv, RemovesApplied, Collected
  <2> QED
    BY <1>5, <2>1 DEF QueueInv, RemovesApplied
<1> QED
  BY <1>5, <1>7, <1>8, <1>9, PartsFramed DEF QueueInv

LEMMA RunQ3Keeps ==
  ASSUME QueueInv, NEW n \in Node, RunQ3(n)
  PROVE  QueueInv'
<1>1. /\ quarter' = [quarter EXCEPT ![n] = 3]
      /\ made' = [made EXCEPT ![n] = Record(n)]
      /\ loop' = [loop EXCEPT ![n] = StartWalk(n)]
      /\ tried' = [tried EXCEPT ![n] = {}]
      /\ gossip' \subseteq gossip
      /\ UNCHANGED <<cycle, txList, txAdd, txRemove, addProposals, removeProposals, verifying,
                     removing, applied, decided>>
  BY DEF RunQ3
<1>2. Clocks'
  BY <1>1 DEF QueueInv, Clocks
<1>3. Collected'
  BY <1>1 DEF QueueInv, Collected
<1>4. Walks'
  <2>1. StartWalk(n) \in Loop
    <3>1. {Len(txList[n]), PerCycle} \in SUBSET Nat
      BY QueueAssumption DEF QueueInv, Collected, Lists
    <3>2. Min({Len(txList[n]), PerCycle}) \in Nat
      BY <3>1, MinLeast
    <3> QED
      BY <3>2 DEF StartWalk, Loop
  <2>2. {} \in Removes
    BY FS_EmptySet DEF Removes
  <2> QED
    BY <1>1, <2>1, <2>2 DEF QueueInv, Walks
<1>5. GoodRecord(Record(n)) /\ Record(n).txremove = txRemove[n]
  BY DEF GoodRecord, Record, QueueInv, Collected
<1>6. Made'
  <2>1. DOMAIN made' = Node /\ made'[n] = Record(n) /\ \A m \in Node \ {n} : made'[m] = made[m]
    BY <1>1 DEF QueueInv, Made
  <2>2. \A m \in Node : GoodRecord(made'[m])
    BY <1>5, <2>1 DEF QueueInv, Made
  <2> QED
    BY <2>1, <2>2 DEF Made, GoodRecord
<1>7. RemovesApplied'
  <2>1. \A m \in Node : made'[m].txremove \subseteq applied
    BY <1>1, <1>5 DEF QueueInv, Made, RemovesApplied
  <2> QED
    BY <1>1, <2>1 DEF QueueInv, RemovesApplied
<1> QED
  BY <1>1, <1>2, <1>3, <1>4, <1>6, <1>7, PartsFramed DEF QueueInv

LEMMA RunQ4Keeps ==
  ASSUME QueueInv, NEW n \in Node, RunQ4(n)
  PROVE  QueueInv'
<1>1. Clocks'
  BY DEF QueueInv, Clocks, RunQ4
<1> QED
  BY <1>1, PartsFramed DEF QueueInv, RunQ4

LEMMA WalkNextKeeps ==
  ASSUME QueueInv, NEW n \in Node, WalkNext(n)
  PROVE  QueueInv'
<1> DEFINE i == loop[n].at
<1>1. /\ loop[n] \in [state : {"next"}, at : Nat \ {0}, length : Nat, keys : SUBSET SubQueue]
      /\ txList[n] \in Seq(Entry)
  <2>1. loop[n] \in Loop /\ loop[n].state = "next" /\ txList[n] \in Seq(Entry)
    BY DEF QueueInv, Walks, Collected, Lists, WalkNext, WalkOn
  <2> QED
    BY <2>1 DEF Loop, NotWalking
<1>2. LongerWalk(n) \in Nat
  BY <1>1 DEF LongerWalk
<1>3. ~(i > Len(txList[n])) => txList[n][i].tx \in Tx
  <2> SUFFICES ASSUME ~(i > Len(txList[n])) PROVE txList[n][i].tx \in Tx
    OBVIOUS
  <2>1. i \in 1 .. Len(txList[n])
    BY <1>1
  <2>2. txList[n][i] \in Entry
    BY <1>1, <2>1
  <2> QED
    BY <2>2 DEF Entry
<1>4. \E w \in Loop : loop' = [loop EXCEPT ![n] = w]
  <2>1. [loop[n] EXCEPT !.at = i + 1] \in Loop
    BY <1>1 DEF Loop
  <2>2. [loop[n] EXCEPT !.at = i + 1, !.length = LongerWalk(n)] \in Loop
    <3>1. PICK l \in Nat : l = LongerWalk(n)
      BY <1>2
    <3>2. [loop[n] EXCEPT !.at = i + 1, !.length = l]
            \in [state : {"next"}, at : Nat \ {0}, length : Nat, keys : SUBSET SubQueue]
      <4> DEFINE w == loop[n]
      <4>1. w \in [state : {"next"}, at : Nat \ {0}, length : Nat, keys : SUBSET SubQueue]
        BY <1>1
      <4>2. i + 1 \in Nat \ {0}
        BY <1>1
      <4> HIDE DEF w, i
      <4> QED
        BY <4>1, <4>2 DEF w
    <3>3. [loop[n] EXCEPT !.at = i + 1, !.length = l] \in Loop
      BY <3>2 DEF Loop
    <3> QED
      BY <3>1, <3>3
  <2>3. ~(i > Len(txList[n])) =>
          [state |-> "verify", at |-> i, length |-> loop[n].length, keys |-> loop[n].keys,
           tx |-> txList[n][i].tx] \in Loop
    BY <1>1, <1>3 DEF Loop
  <2>4. CASE i > Len(txList[n])
    <3>1. loop' = [loop EXCEPT ![n] = [loop[n] EXCEPT !.at = i + 1]]
      BY <2>4 DEF WalkNext
    <3> QED
      BY <2>1, <3>1
  <2>5. CASE ~(i > Len(txList[n])) /\ Blocked(n, txList[n][i].tx)
    <3>1. loop' = [loop EXCEPT ![n] = [loop[n] EXCEPT !.at = i + 1, !.length = LongerWalk(n)]]
      BY <2>5 DEF WalkNext
    <3> QED
      BY <2>2, <3>1
  <2>6. CASE ~(i > Len(txList[n])) /\ ~Blocked(n, txList[n][i].tx)
    <3>1. loop' = [loop EXCEPT ![n] =
                     [state |-> "verify", at |-> i, length |-> loop[n].length,
                      keys |-> loop[n].keys, tx |-> txList[n][i].tx]]
      BY <2>6 DEF WalkNext
    <3> QED
      BY <2>3, <2>6, <3>1
  <2> QED
    BY <2>4, <2>5, <2>6
<1>5. Walks'
  BY <1>4 DEF QueueInv, Walks, WalkNext
<1> QED
  BY <1>5, PartsFramed DEF QueueInv, WalkNext

LEMMA WalkVerifiedKeeps ==
  ASSUME QueueInv, NEW n \in Node, WalkVerified(n)
  PROVE  QueueInv'
<1> DEFINE i == loop[n].at
           t == loop[n].tx
<1>1. /\ loop[n] \in [state : {"verify", "remove"}, at : Nat \ {0}, length : Nat, keys : SUBSET SubQueue, tx : Tx]
      /\ txList[n] \in Seq(Entry)
  BY DEF QueueInv, Walks, Collected, Lists, Loop, WalkVerified, NotWalking
<1>2. \A keys \in SUBSET SubQueue : Walk(n, keys) \in Loop
  BY <1>1 DEF Walk, Loop
<1>3. loop[n].keys \cup Blocks(t) \in SUBSET SubQueue
  BY <1>1 DEF Blocks, SubQueue
<1>4. \E w \in Loop : loop' = [loop EXCEPT ![n] = w]
  <2>1. NotWalking \in Loop
    BY DEF Loop
  <2>2. RemoveStarts(n, txList[n][i].tx) /\ ~(i > Len(txList[n])) =>
          [loop[n] EXCEPT !.state = "remove", !.tx = txList[n][i].tx] \in Loop
    <3> SUFFICES ASSUME RemoveStarts(n, txList[n][i].tx)
                 PROVE  [loop[n] EXCEPT !.state = "remove", !.tx = txList[n][i].tx] \in Loop
      OBVIOUS
    <3>1. txList[n][i].tx \in Tx
      <4>1. PICK k \in DOMAIN txList[n] : txList[n][k].tx = txList[n][i].tx
        BY DEF RemoveStarts, InList
      <4>2. txList[n][k] \in Entry
        BY <1>1, <4>1
      <4> QED
        BY <4>1, <4>2 DEF Entry
    <3> QED
      BY <1>1, <3>1 DEF Loop
  <2>3. loop \in [Node -> Loop]
    BY DEF QueueInv, Walks
  <2>4. CASE t \notin applied
    BY <1>2, <1>3, <2>1, <2>3, <2>4 DEF WalkVerified
  <2>5. CASE t \in applied
    <3>1. Walk(n, loop[n].keys) \in Loop
      BY <1>1, <1>2
    <3> QED
      BY <2>1, <2>2, <2>3, <2>5, <3>1 DEF WalkVerified
  <2> QED
    BY <2>4, <2>5
<1>5. tried' \in [Node -> Removes]
  <2>1. tried \in [Node -> Removes] /\ tried[n] \cup {t} \in Removes
    BY <1>1, RemovesKeep DEF QueueInv, Walks
  <2> QED
    BY <2>1 DEF WalkVerified
<1>6. Walks'
  BY <1>4, <1>5 DEF QueueInv, Walks, WalkVerified
<1> QED
  BY <1>6, PartsFramed DEF QueueInv, WalkVerified

LEMMA WalkRemoveKeeps ==
  ASSUME QueueInv, NEW n \in Node, WalkRemove(n)
  PROVE  QueueInv'
<1> DEFINE t == loop[n].tx
<1>1. loop[n] \in [state : {"verify", "remove"}, at : Nat \ {0}, length : Nat, keys : SUBSET SubQueue, tx : Tx]
  BY DEF QueueInv, Walks, Loop, WalkRemove, NotWalking
<1>2. Walk(n, loop[n].keys) \in Loop
  BY <1>1 DEF Walk, Loop
<1>3. Walks'
  BY <1>2 DEF QueueInv, Walks, WalkRemove
<1>4. \/ removeProposals' = removeProposals
      \/ t \in applied /\ removeProposals' = [removeProposals EXCEPT ![n] = @ \cup {t}]
  BY DEF WalkRemove, VerifiedAgain, QueueInv, Collected
<1>5. removeProposals' \in [Node -> Removes]
  <2>1. removeProposals \in [Node -> Removes] /\ removeProposals[n] \cup {t} \in Removes
    BY <1>1, RemovesKeep DEF QueueInv, Collected
  <2> QED
    BY <1>4, <2>1
<1>6. Collected'
  BY <1>5 DEF QueueInv, Collected, WalkRemove
<1>7. RemovesApplied'
  <2>0. DOMAIN removeProposals = Node /\ \A m \in Node : removeProposals[m] \subseteq applied
    BY DEF QueueInv, RemovesApplied, Collected
  <2>1. \A m \in Node : removeProposals'[m] \subseteq applied
    <3> HIDE DEF t
    <3> QED
      BY <1>4, <2>0
  <2> QED
    BY <2>1 DEF QueueInv, RemovesApplied, WalkRemove
<1> QED
  BY <1>3, <1>6, <1>7, PartsFramed DEF QueueInv, WalkRemove

LEMMA ExecuteKeeps ==
  ASSUME QueueInv, NEW t \in Tx, Execute(t)
  PROVE  QueueInv'
<1>1. Walks' /\ applied \subseteq applied'
  BY DEF QueueInv, Walks, Execute
<1> QED
  BY <1>1, PartsFramed DEF QueueInv, Execute

(* The record that is digested: the winner of its cycle, made by a node.   *)
LEMMA DigestDecides ==
  ASSUME QueueInv, NEW n \in Node, Digest(n), cycle[n] <= MaxCycle
  PROVE  /\ IsSequence(decided')
         /\ \A i \in 1 .. Len(decided) : decided'[i] = decided[i]
         /\ cycle[n] \in 1 .. Len(decided') /\ Len(decided') \in {Len(decided), Len(decided) + 1}
         /\ \A i \in 1 .. Len(decided') :
              GoodRecord(decided'[i]) /\ decided'[i].txremove \subseteq applied
<1>1. /\ IsSequence(decided) /\ Len(decided) \in Nat
      /\ cycle[n] \in Nat \ {0} /\ cycle[n] <= Len(decided) + 1
      /\ \A i \in 1 .. Len(decided) : GoodRecord(decided[i]) /\ decided[i].txremove \subseteq applied
  BY QueueAssumption DEF QueueInv, Clocks, Decided, RemovesApplied, IsSequence
<1>2. CASE Len(decided) < cycle[n]
  <2> PICK m \in Node : decided' = Append(decided, made[m])
    BY <1>2 DEF Digest
  <2>1. GoodRecord(made[m]) /\ made[m].txremove \subseteq applied
    BY DEF QueueInv, Made, RemovesApplied
  <2>2. /\ IsSequence(decided')
        /\ Len(decided') = Len(decided) + 1
        /\ \A i \in 1 .. Len(decided) : decided'[i] = decided[i]
        /\ decided'[Len(decided) + 1] = made[m]
    BY <1>1, AppendAny
  <2>3. \A i \in 1 .. Len(decided') : i \in 1 .. Len(decided) \/ i = Len(decided) + 1
    BY <1>1, <2>2
  <2>4. \A i \in 1 .. Len(decided') : GoodRecord(decided'[i]) /\ decided'[i].txremove \subseteq applied
    BY <1>1, <2>1, <2>2, <2>3
  <2>5. cycle[n] \in 1 .. Len(decided')
    BY <1>1, <1>2, <2>2
  <2> QED
    BY <2>2, <2>4, <2>5
<1>3. CASE ~(Len(decided) < cycle[n])
  <2>1. decided' = decided
    BY <1>3 DEF Digest
  <2>2. cycle[n] \in 1 .. Len(decided)
    BY <1>1, <1>3
  <2> QED
    BY <1>1, <2>1, <2>2
<1> QED
  BY <1>2, <1>3

LEMMA DigestKeeps ==
  ASSUME QueueInv, NEW n \in Node, Digest(n), cycle[n] <= MaxCycle
  PROVE  /\ QueueInv'
         /\ \A m \in Node : \A t : InList(txList[m], t) /\ t \notin applied => InList(txList'[m], t)
<1> DEFINE winner == decided'[cycle[n]]
<1>1. /\ IsSequence(decided')
      /\ \A i \in 1 .. Len(decided) : decided'[i] = decided[i]
      /\ cycle[n] \in 1 .. Len(decided') /\ Len(decided') \in {Len(decided), Len(decided) + 1}
      /\ \A i \in 1 .. Len(decided') :
           GoodRecord(decided'[i]) /\ decided'[i].txremove \subseteq applied
  BY DigestDecides
<1>2. PICK record : record \in {winner} \cup {OwnObject(n)} /\ DigestRecord(n, record)
  BY DEF Digest
<1>3. /\ record.txadd \in Adds /\ record.txremove \in Removes
      /\ record.txremove \subseteq applied
  <2>1. CASE record = winner
    BY <1>1, <2>1 DEF GoodRecord
  <2>2. CASE record = OwnObject(n)
    <3>1. GoodRecord(made[n])
      BY DEF QueueInv, Made
    <3>2. record.txadd = txAdd[n] /\ record.txremove = txRemove[n]
      BY <2>2, <3>1 DEF OwnObject, GoodRecord
    <3> QED
      BY <3>2 DEF QueueInv, Collected, RemovesApplied
  <2> QED
    BY <1>2, <2>1, <2>2
<1> DEFINE new == ListAfterParse(txList[n], record.txadd, record.txremove)
<1>4. new \in Lists /\ \A t : InList(txList[n], t) /\ t \notin applied => InList(new, t)
  <2>1. /\ txList[n] \in Lists /\ record.txadd \in SUBSET Entry /\ IsFiniteSet(record.txadd)
        /\ IsFiniteSet(record.txremove)
    BY <1>3 DEF QueueInv, Collected, Adds, Removes
  <2> HIDE DEF new
  <2>2. new \in Lists /\ \A t : t \notin record.txremove /\ InList(txList[n], t) => InList(new, t)
    BY <2>1, ParseKeeps DEF new
  <2> QED
    BY <1>3, <2>2
<1>5. /\ txList' = [txList EXCEPT ![n] = new]
      /\ txAdd' = [txAdd EXCEPT ![n] = {}]
      /\ txRemove' = [txRemove EXCEPT ![n] = {}]
      /\ cycle' = [cycle EXCEPT ![n] = @ + 1]
      /\ quarter' = [quarter EXCEPT ![n] = 1]
      /\ UNCHANGED <<addProposals, removeProposals, verifying, removing, loop, tried, applied,
                     made, gossip>>
  BY <1>2 DEF DigestRecord
<1> HIDE DEF new, winner
<1>6. Clocks'
  <2>1. cycle[n] + 1 \in 1 .. MaxCycle + 1
    BY QueueAssumption DEF QueueInv, Clocks
  <2>2. cycle' \in [Node -> 1 .. MaxCycle + 1]
    BY <1>5, <2>1 DEF QueueInv, Clocks
  <2>3. quarter' \in [Node -> 1 .. 4]
    BY <1>5 DEF QueueInv, Clocks
  <2> QED
    BY <2>2, <2>3 DEF Clocks
<1>7. Collected'
  <2>1. {} \in Adds /\ {} \in Removes
    BY FS_EmptySet DEF Adds, Removes
  <2>2. txList' \in [Node -> Lists]
    BY <1>4, <1>5 DEF QueueInv, Collected
  <2>3. txAdd' \in [Node -> Adds] /\ txRemove' \in [Node -> Removes]
    BY <1>5, <2>1 DEF QueueInv, Collected
  <2> QED
    BY <1>5, <2>2, <2>3 DEF QueueInv, Collected
<1>8. Decided'
  <2>1. \A m \in Node : cycle'[m] <= Len(decided') + 1
    <3>1. Len(decided) \in Nat /\ \A m \in Node : cycle[m] \in Nat /\ cycle[m] <= Len(decided) + 1
      BY QueueAssumption DEF QueueInv, Clocks, Decided, IsSequence
    <3>2. cycle'[n] = cycle[n] + 1 /\ \A m \in Node \ {n} : cycle'[m] = cycle[m]
      BY <1>5 DEF QueueInv, Clocks
    <3>3. cycle[n] + 1 <= Len(decided') + 1
      BY <1>1, <3>1
    <3>4. \A m \in Node : cycle[m] <= Len(decided') + 1
      BY <1>1, <3>1
    <3> QED
      BY <3>2, <3>3, <3>4
  <2>2. \A i \in 1 .. Len(decided') : GoodRecord(decided'[i])
    BY <1>1
  <2> QED
    BY <1>1, <2>1, <2>2 DEF Decided, GoodRecord, IsSequence
<1>9. RemovesApplied'
  <2>1. \A m \in Node : txRemove'[m] \subseteq applied
    BY <1>5 DEF QueueInv, Collected, RemovesApplied
  <2> QED
    BY <1>1, <1>5, <2>1 DEF QueueInv, RemovesApplied
<1>10. QueueInv'
  BY <1>5, <1>6, <1>7, <1>8, <1>9, PartsFramed DEF QueueInv
<1>11. \A m \in Node : \A t : InList(txList[m], t) /\ t \notin applied => InList(txList'[m], t)
  <2>1. txList'[n] = new /\ \A m \in Node \ {n} : txList'[m] = txList[m]
    BY <1>5 DEF QueueInv, Collected
  <2> QED
    BY <1>4, <2>1
<1> QED
  BY <1>10, <1>11
(* A step of the queue, and what it keeps in the lists.                    *)
KeepsUnapplied ==
  \A n \in Node : \A t \in Tx \ applied : InList(txList[n], t) => InList(txList'[n], t)

LEMMA NextQueue == QueueInv /\ [Next]_vars => QueueInv' /\ KeepsUnapplied
<1> SUFFICES ASSUME QueueInv, [Next]_vars PROVE QueueInv' /\ KeepsUnapplied
  OBVIOUS
<1>1. CASE txList' = txList
  <2>1. KeepsUnapplied
    BY <1>1 DEF KeepsUnapplied
  <2>2. ASSUME NEW n \in Node, NodeStep(n), cycle[n] <= MaxCycle PROVE QueueInv'
    BY <2>2, AddNetworkTxKeeps, AddVerifiedKeeps, ReceiveAddKeeps, ReceiveRemoveKeeps, RemoveVerifiedKeeps,
       SendRequestsKeeps, RunQ3Keeps, RunQ4Keeps, WalkNextKeeps, WalkVerifiedKeeps,
       WalkRemoveKeeps, DigestKeeps DEF NodeStep
  <2>3. CASE UNCHANGED vars
    BY <2>1, <2>3, PartsFramed DEF QueueInv, vars
  <2>4. CASE EndOfRun
    BY <2>3, <2>4 DEF EndOfRun
  <2>5. CASE \E t \in Tx : Execute(t)
    BY <2>1, <2>5, ExecuteKeeps
  <2> QED
    BY <2>1, <2>2, <2>3, <2>4, <2>5 DEF Next
<1>2. CASE txList' # txList
  <2>1. PICK n \in Node : cycle[n] <= MaxCycle /\ NodeStep(n)
    BY <1>2 DEF Next, Execute, EndOfRun, vars
  <2>2. Digest(n)
    BY <1>2, <2>1 DEF NodeStep, AddNetworkTx, AddVerified, ReceiveAdd, ReceiveRemove, RemoveVerified, SendRequests,
       RunQ3, RunQ4, WalkNext, WalkVerified, WalkRemove
  <2> QED
    BY <2>1, <2>2, DigestKeeps DEF KeepsUnapplied
<1> QED
  BY <1>1, <1>2

(* Every list stays strictly sorted and without repetitions, and a         *)
(* transaction is collected once in a cycle, whatever gossip repeats.      *)
THEOREM QueueWellFormed == Spec => []TypeOK
<1>1. QueueInv => TypeOK
  <2> SUFFICES ASSUME QueueInv PROVE TypeOK
    OBVIOUS
  <2>1. \A n \in Node : /\ cycle[n] \in 1 .. MaxCycle + 1
                         /\ quarter[n] \in 1 .. 4
    BY DEF QueueInv, Clocks
  <2>2. \A n \in Node : /\ tried[n] \in Removes /\ removeProposals[n] \in Removes
                         /\ txRemove[n] \in Removes /\ removing[n] \subseteq Tx
    BY DEF QueueInv, Collected, Walks
  <2>3. \A n \in Node : txAdd[n] \in Adds /\ txList[n] \in Lists
    BY DEF QueueInv, Collected
  <2>4. applied \subseteq Tx
    BY DEF QueueInv, Walks
  <2>5. \A n \in Node : Sorted(txList[n])
    BY <2>3 DEF Lists
  <2> QED
    BY <2>1, <2>2, <2>3, <2>4, <2>5 DEF TypeOK, Removes, Adds
<1> QED
  BY InitQueue, NextQueue, <1>1, PTL DEF Spec

(* Nothing leaves a list before the application has executed it: every     *)
(* way into a record's txremove passes an applyVerifier that said so.      *)
THEOREM RemovedApplied == Spec => RemovedOnlyApplied
<1>1. KeepsUnapplied => [\A n \in Node : \A t \in Tx \ applied :
                           InList(txList[n], t) => InList(txList'[n], t)]_vars
  BY DEF KeepsUnapplied
<1> QED
  BY InitQueue, NextQueue, <1>1, PTL DEF Spec, RemovedOnlyApplied
-----------------------------------------------------------------------------
(* The walk of processNetworkTransactions in Q3.  Of the entries it has    *)
(* passed, those at H were asked for or are to be removed; the others were *)
(* skipped, because one of H waits in the same subqueue.                   *)
KeyAt(list, i) == SubQueueKey[list[i].tx]
Passed(list, w, asked, done, H) ==
  /\ H \in SUBSET (1 .. w.at - 1)
  /\ \A i \in H : list[i].tx \in asked
  /\ \A i \in H : list[i].tx \in done \/ KeyAt(list, i) = NoKey \/ KeyAt(list, i) \in w.keys
  /\ \A i \in (1 .. w.at - 1) \ H : KeyAt(list, i) # NoKey /\ KeyAt(list, i) \in w.keys
  /\ \A key \in w.keys : key # NoKey /\ \E i \in H : KeyAt(list, i) = key
  /\ w.length >= PerCycle + (w.at - 1) - Cardinality(H) \/ w.length >= Len(list)
OnEntry(list, w, done) ==
  /\ w.state \in {"next", "verify", "remove"}
  /\ w.at <= w.length + 1 /\ w.length <= Len(list)
  /\ w.state # "next" => w.at <= w.length /\ w.tx = list[w.at].tx
  /\ w.state = "verify" => SubQueueKey[w.tx] = NoKey \/ SubQueueKey[w.tx] \notin w.keys
  /\ w.state = "remove" => w.tx \in done
Walking(list, w, asked, done) ==
  OnEntry(list, w, done) /\ \E H : Passed(list, w, asked, done, H)

Asked(n) == tried[n] \cup removeProposals[n]
WalkInv == \A n \in Node : quarter[n] = 3 => Walking(txList[n], loop[n], Asked(n), applied)

(* Executing and asking more is no harm.                                   *)
LEMMA WalkingGrows ==
  ASSUME NEW list, NEW w, NEW asked, NEW done, Walking(list, w, asked, done),
         NEW asked2, NEW done2, asked \subseteq asked2, done \subseteq done2
  PROVE  Walking(list, w, asked2, done2)
<1>1. OnEntry(list, w, done2)
  BY DEF Walking, OnEntry
<1>2. PICK H : Passed(list, w, asked, done, H)
  BY DEF Walking
<1>3. Passed(list, w, asked2, done2, H)
  BY <1>2 DEF Passed
<1> QED
  BY <1>1, <1>3 DEF Walking

(* The other steps: those of other nodes, and those that leave the walk.   *)
LEMMA WalkFramed ==
  ASSUME WalkInv, NEW m \in Node,
         quarter'[m] = 3 => /\ quarter[m] = 3
                            /\ txList'[m] = txList[m] /\ loop'[m] = loop[m]
                            /\ Asked(m) \subseteq Asked(m)' /\ applied \subseteq applied'
  PROVE  quarter'[m] = 3 => Walking(txList'[m], loop'[m], Asked(m)', applied')
<1> SUFFICES ASSUME quarter'[m] = 3
             PROVE  Walking(txList'[m], loop'[m], Asked(m)', applied')
  OBVIOUS
<1>1. Walking(txList[m], loop[m], Asked(m), applied)
  BY DEF WalkInv
<1>2. Walking(txList[m], loop[m], Asked(m)', applied')
  BY <1>1, WalkingGrows
<1> QED
  BY <1>2

LEMMA WalkStarts ==
  ASSUME QueueInv, NEW n \in Node, RunQ3(n)
  PROVE  Walking(txList'[n], loop'[n], Asked(n)', applied')
<1> DEFINE w == StartWalk(n)
           list == txList[n]
<1>1. txList'[n] = list /\ loop'[n] = w
  BY DEF RunQ3, QueueInv, Walks
<1>2. Len(list) \in Nat /\ PerCycle \in Nat
  BY QueueAssumption DEF QueueInv, Collected, Lists
<1>3. /\ w.length \in Nat /\ w.length <= Len(list) /\ w.length \in {Len(list), PerCycle}
      /\ w.state = "next" /\ w.at = 1 /\ w.keys = {}
  <2>1. {Len(list), PerCycle} \in SUBSET Nat /\ {Len(list), PerCycle} # {}
    BY <1>2
  <2>2. /\ Min({Len(list), PerCycle}) \in {Len(list), PerCycle}
        /\ \A j \in {Len(list), PerCycle} : Min({Len(list), PerCycle}) <= j
    BY <2>1, MinLeast
  <2> QED
    BY <1>2, <2>2 DEF StartWalk
<1> HIDE DEF w, list
<1>4. OnEntry(list, w, applied')
  BY <1>2, <1>3 DEF OnEntry
<1>5. Cardinality({}) = 0
  BY FS_EmptySet
<1>6. Passed(list, w, Asked(n)', applied', {})
  <2>1. 1 .. w.at - 1 = {}
    BY <1>3
  <2>2. w.length >= PerCycle + (w.at - 1) - Cardinality({}) \/ w.length >= Len(list)
    BY <1>2, <1>3, <1>5
  <2> QED
    BY <1>3, <2>1, <2>2 DEF Passed
<1> QED
  BY <1>1, <1>4, <1>6 DEF Walking

(* One more entry taken care of: asked for, with its subqueue waiting      *)
(* behind it, or executed.                                                 *)
LEMMA WalkTakes ==
  ASSUME NEW list, Len(list) \in Nat,
         NEW w, w.at \in Nat \ {0}, w.length \in Nat, w.at <= w.length, w.length <= Len(list),
         NEW asked, NEW done, \E H : Passed(list, w, asked, done, H),
         NEW asked2, asked \subseteq asked2, list[w.at].tx \in asked2,
         NEW v, v.state = "next", v.at = w.at + 1, v.length = w.length,
         \/ list[w.at].tx \in done /\ v.keys = w.keys
         \/ v.keys = w.keys \cup Blocks(list[w.at].tx)
  PROVE  Walking(list, v, asked2, done)
<1> PICK H : Passed(list, w, asked, done, H)
  OBVIOUS
<1> DEFINE G == H \cup {w.at}
<1>1. OnEntry(list, v, done)
  BY DEF OnEntry
<1>2. PerCycle \in Nat
  BY QueueAssumption
<1>3. IsFiniteSet(H) /\ Cardinality(H) \in Nat /\ Cardinality(G) = Cardinality(H) + 1
  <2>1. IsFiniteSet(1 .. w.at - 1)
    <3>1. 1 \in Int /\ w.at - 1 \in Int
      OBVIOUS
    <3> QED
      BY <3>1, FS_Interval
  <2>2. H \in SUBSET (1 .. w.at - 1) /\ w.at \notin H
    BY DEF Passed
  <2> QED
    BY <2>1, <2>2, FS_Subset, FS_AddElement, FS_CardinalityType
<1>4. /\ (w.at + 1) - 1 = w.at
      /\ 1 .. w.at = (1 .. w.at - 1) \cup {w.at}
      /\ w.at \notin 1 .. w.at - 1
  OBVIOUS
<1>5. G \in SUBSET (1 .. v.at - 1) /\ (1 .. v.at - 1) \ G = (1 .. w.at - 1) \ H
  BY ZenonT(60), <1>4 DEF Passed
<1>6. w.keys \subseteq v.keys
  OBVIOUS
<1> DEFINE Taken(i) == /\ list[i].tx \in asked2
                       /\ list[i].tx \in done \/ KeyAt(list, i) = NoKey \/ KeyAt(list, i) \in v.keys
<1>7. \A i \in G : Taken(i)
  <2>1. \A i \in H : Taken(i)
    BY <1>6 DEF Passed
  <2>2. Taken(w.at)
    BY DEF KeyAt, Blocks
  <2> HIDE DEF Taken
  <2> QED
    BY <2>1, <2>2
<1>8. \A i \in (1 .. v.at - 1) \ G : KeyAt(list, i) # NoKey /\ KeyAt(list, i) \in v.keys
  BY <1>5, <1>6 DEF Passed
<1>9. ASSUME NEW key \in v.keys PROVE key # NoKey /\ \E i \in G : KeyAt(list, i) = key
  <2>1. CASE key \in w.keys
    BY <2>1 DEF Passed
  <2>2. CASE key \notin w.keys
    <3>1. key \in Blocks(list[w.at].tx)
      BY <2>2
    <3>2. key # NoKey /\ KeyAt(list, w.at) = key
      BY <3>1 DEF Blocks, KeyAt
    <3> QED
      BY <3>2
  <2> QED
    BY <2>1, <2>2
<1>10. v.length >= PerCycle + (v.at - 1) - Cardinality(G) \/ v.length >= Len(list)
  BY SMTT(30), <1>2, <1>3 DEF Passed
<1>11. Passed(list, v, asked2, done, G)
  BY <1>5, <1>7, <1>8, <1>9, <1>10 DEF Passed
<1> QED
  BY <1>1, <1>11 DEF Walking

(* One more entry skipped: the walk becomes longer by one.                 *)
LEMMA WalkSkips ==
  ASSUME NEW list, Len(list) \in Nat,
         NEW w, w.at \in Nat \ {0}, w.length \in Nat, w.at <= w.length, w.length <= Len(list),
         NEW asked, NEW done, \E H : Passed(list, w, asked, done, H),
         KeyAt(list, w.at) # NoKey, KeyAt(list, w.at) \in w.keys,
         NEW v, v.state = "next", v.at = w.at + 1, v.keys = w.keys,
         v.length = IF w.length < Len(list) THEN w.length + 1 ELSE w.length
  PROVE  Walking(list, v, asked, done)
<1> PICK H : Passed(list, w, asked, done, H)
  OBVIOUS
<1>1. v.length \in Nat /\ v.at <= v.length + 1 /\ v.length <= Len(list)
  OBVIOUS
<1>2. OnEntry(list, v, done)
  BY <1>1 DEF OnEntry
<1>3. PerCycle \in Nat
  BY QueueAssumption
<1>4. Cardinality(H) \in Nat
  <2>1. IsFiniteSet(1 .. w.at - 1)
    <3>1. 1 \in Int /\ w.at - 1 \in Int
      OBVIOUS
    <3> QED
      BY <3>1, FS_Interval
  <2>2. H \in SUBSET (1 .. w.at - 1)
    BY DEF Passed
  <2> QED
    BY <2>1, <2>2, FS_Subset, FS_CardinalityType
<1>5. (w.at + 1) - 1 = w.at /\ 1 .. w.at = (1 .. w.at - 1) \cup {w.at}
  OBVIOUS
<1>6. \A i \in (1 .. v.at - 1) \ H : KeyAt(list, i) # NoKey /\ KeyAt(list, i) \in v.keys
  BY <1>5 DEF Passed
<1>7. v.length >= PerCycle + (v.at - 1) - Cardinality(H) \/ v.length >= Len(list)
  BY <1>3, <1>4 DEF Passed
<1>8. H \in SUBSET (1 .. v.at - 1)
  BY <1>5 DEF Passed
<1>9. Passed(list, v, asked, done, H)
  BY <1>6, <1>7, <1>8 DEF Passed
<1> QED
  BY <1>2, <1>9 DEF Walking
LEMMA WalkNextWalks ==
  ASSUME QueueInv, WalkInv, NEW n \in Node, WalkNext(n)
  PROVE  Walking(txList'[n], loop'[n], Asked(n)', applied')
<1> DEFINE list == txList[n]
           w == loop[n]
           v == loop'[n]
<1>1. /\ w \in [state : {"next"}, at : Nat \ {0}, length : Nat, keys : SUBSET SubQueue]
      /\ list \in Seq(Entry) /\ Len(list) \in Nat
  <2>1. loop[n] \in Loop /\ loop[n].state = "next" /\ txList[n] \in Seq(Entry)
    BY DEF QueueInv, Walks, Collected, Lists, WalkNext, WalkOn
  <2> QED
    BY <2>1 DEF Loop, NotWalking
<1>2. Walking(list, w, Asked(n), applied)
  BY DEF WalkInv, WalkNext, WalkOn
<1>3. w.at <= w.length /\ w.length <= Len(list) /\ w.at <= Len(list)
  BY <1>1, <1>2 DEF WalkNext, WalkOn, Walking, OnEntry
<1>4. loop \in [Node -> Loop]
  BY DEF QueueInv, Walks
<1>5. txList'[n] = list /\ Asked(n)' = Asked(n) /\ applied' = applied
  BY DEF WalkNext, Asked
<1>6. Walking(list, v, Asked(n), applied)
  <2>1. CASE Blocked(n, list[w.at].tx)
    <3>1. v = [w EXCEPT !.at = w.at + 1, !.length = LongerWalk(n)]
      BY <1>1, <1>3, <1>4, <2>1 DEF WalkNext
    <3>2. v.state = "next" /\ v.at = w.at + 1 /\ v.keys = w.keys /\ v.length = LongerWalk(n)
      <4> HIDE DEF w, v
      <4> QED
        BY <1>1, <3>1
    <3>3. LongerWalk(n) = IF w.length < Len(list) THEN w.length + 1 ELSE w.length
      BY DEF LongerWalk
    <3>4. KeyAt(list, w.at) # NoKey /\ KeyAt(list, w.at) \in w.keys
      BY <2>1 DEF Blocked, KeyAt
    <3>5. \E H : Passed(list, w, Asked(n), applied, H)
      BY <1>2 DEF Walking
    <3> HIDE DEF w, v, list
    <3> QED
      BY <1>1, <1>3, <3>2, <3>3, <3>4, <3>5, WalkSkips
  <2>2. CASE ~Blocked(n, list[w.at].tx)
    <3>1. v = [state |-> "verify", at |-> w.at, length |-> w.length, keys |-> w.keys,
               tx |-> list[w.at].tx]
      BY <1>1, <1>3, <1>4, <2>2 DEF WalkNext
    <3>2. v.state = "verify" /\ v.at = w.at /\ v.length = w.length /\ v.keys = w.keys
          /\ v.tx = list[w.at].tx
      <4> HIDE DEF w, v, list
      <4> QED
        BY <3>1
    <3>3. SubQueueKey[v.tx] = NoKey \/ SubQueueKey[v.tx] \notin v.keys
      BY <2>2, <3>2 DEF Blocked
    <3> HIDE DEF w, v, list
    <3>4. OnEntry(list, v, applied)
      BY <1>1, <1>3, <3>2, <3>3 DEF OnEntry
    <3>5. \A H : Passed(list, w, Asked(n), applied, H) => Passed(list, v, Asked(n), applied, H)
      BY <3>2 DEF Passed
    <3> QED
      BY <1>2, <3>4, <3>5 DEF Walking
  <2> QED
    BY <2>1, <2>2
<1> QED
  BY <1>5, <1>6

(* In Q3 an entry stays where it is, so the transaction that was verified  *)
(* is the one at the index.                                                *)
LEMMA WalkVerifiedWalks ==
  ASSUME QueueInv, WalkInv, NEW n \in Node, WalkVerified(n), quarter[n] = 3
  PROVE  Walking(txList'[n], loop'[n], Asked(n)', applied')
<1> DEFINE list == txList[n]
           w == loop[n]
           v == loop'[n]
<1>1. /\ w \in [state : {"verify", "remove"}, at : Nat \ {0}, length : Nat, keys : SUBSET SubQueue, tx : Tx]
      /\ list \in Seq(Entry) /\ Len(list) \in Nat
  BY DEF QueueInv, Walks, Collected, Lists, Loop, WalkVerified, NotWalking
<1>2. Walking(list, w, Asked(n), applied)
  BY DEF WalkInv
<1>3. /\ w.at <= w.length /\ w.length <= Len(list) /\ w.at <= Len(list) /\ w.tx = list[w.at].tx
      /\ w.state = "verify"
  BY <1>1, <1>2 DEF WalkVerified, Walking, OnEntry
<1>4. loop \in [Node -> Loop] /\ tried \in [Node -> Removes] /\ w.at \in DOMAIN list
  BY <1>1, <1>3 DEF QueueInv, Walks
<1>5. txList'[n] = list /\ applied' = applied
  BY DEF WalkVerified
<1>6. \E H : Passed(list, w, Asked(n), applied, H)
  BY <1>2 DEF Walking
<1>7. CASE w.tx \notin applied
  <2>1. v = Walk(n, w.keys \cup Blocks(w.tx)) /\ Asked(n)' = Asked(n) \cup {w.tx}
    BY <1>1, <1>3, <1>4, <1>7 DEF WalkVerified, Asked
  <2>2. v.state = "next" /\ v.at = w.at + 1 /\ v.length = w.length
        /\ v.keys = w.keys \cup Blocks(list[w.at].tx)
    BY <1>3, <2>1 DEF Walk
  <2>3. Asked(n) \subseteq Asked(n)' /\ list[w.at].tx \in Asked(n)'
    BY <1>3, <2>1
  <2> HIDE DEF w, v, list
  <2>4. Walking(list, v, Asked(n)', applied)
    BY <1>1, <1>3, <1>6, <2>2, <2>3, WalkTakes
  <2> QED
    BY <1>5, <2>4 DEF w, v, list
<1>8. CASE w.tx \in applied /\ RemoveStarts(n, w.tx)
  <2>1. v = [w EXCEPT !.state = "remove", !.tx = list[w.at].tx] /\ Asked(n)' = Asked(n)
    BY <1>1, <1>3, <1>4, <1>8 DEF WalkVerified, Asked
  <2> HIDE DEF w, v, list
  <2>2. v.state = "remove" /\ v.at = w.at /\ v.length = w.length /\ v.keys = w.keys
        /\ v.tx = list[w.at].tx
    BY <1>1, <2>1
  <2>3. OnEntry(list, v, applied)
    BY <1>1, <1>3, <1>8, <2>2 DEF OnEntry
  <2>4. \A H : Passed(list, w, Asked(n), applied, H) => Passed(list, v, Asked(n), applied, H)
    BY <2>2 DEF Passed
  <2>5. Walking(list, v, Asked(n)', applied)
    BY <1>6, <2>1, <2>3, <2>4 DEF Walking
  <2> QED
    BY <1>5, <2>5 DEF w, v, list
<1>9. CASE w.tx \in applied /\ ~RemoveStarts(n, w.tx)
  <2>1. w.tx \in removeProposals[n]
    BY <1>3, <1>4, <1>9 DEF RemoveStarts, InList
  <2>2. v = Walk(n, w.keys) /\ Asked(n)' = Asked(n)
    BY <1>1, <1>3, <1>4, <1>9 DEF WalkVerified, Asked
  <2>3. v.state = "next" /\ v.at = w.at + 1 /\ v.length = w.length /\ v.keys = w.keys
    BY <2>2 DEF Walk
  <2>4. Asked(n) \subseteq Asked(n)' /\ list[w.at].tx \in Asked(n)' /\ list[w.at].tx \in applied
    BY <1>3, <1>9, <2>1, <2>2 DEF Asked
  <2> HIDE DEF w, v, list
  <2>5. Walking(list, v, Asked(n)', applied)
    BY <1>1, <1>3, <1>6, <2>3, <2>4, WalkTakes
  <2> QED
    BY <1>5, <2>5 DEF w, v, list
<1> QED
  BY <1>7, <1>8, <1>9

LEMMA WalkRemoveWalks ==
  ASSUME QueueInv, WalkInv, NEW n \in Node, WalkRemove(n), quarter[n] = 3
  PROVE  Walking(txList'[n], loop'[n], Asked(n)', applied')
<1> DEFINE list == txList[n]
           w == loop[n]
           v == loop'[n]
<1>1. /\ w \in [state : {"verify", "remove"}, at : Nat \ {0}, length : Nat, keys : SUBSET SubQueue, tx : Tx]
      /\ list \in Seq(Entry) /\ Len(list) \in Nat
  BY DEF QueueInv, Walks, Collected, Lists, Loop, WalkRemove, NotWalking
<1>2. Walking(list, w, Asked(n), applied)
  BY DEF WalkInv
<1>3. /\ w.at <= w.length /\ w.length <= Len(list) /\ w.tx = list[w.at].tx /\ w.tx \in applied
  BY <1>1, <1>2 DEF WalkRemove, Walking, OnEntry
<1>4. loop \in [Node -> Loop] /\ removeProposals \in [Node -> Removes]
  BY DEF QueueInv, Walks, Collected
<1>5. txList'[n] = list /\ applied' = applied
  BY DEF WalkRemove
<1>6. \E H : Passed(list, w, Asked(n), applied, H)
  BY <1>2 DEF Walking
<1>7. v = Walk(n, w.keys) /\ Asked(n)' = Asked(n) \cup {w.tx}
  BY <1>3, <1>4 DEF WalkRemove, VerifiedAgain, Asked
<1>8. v.state = "next" /\ v.at = w.at + 1 /\ v.length = w.length /\ v.keys = w.keys
  BY <1>7 DEF Walk
<1>9. Asked(n) \subseteq Asked(n)' /\ list[w.at].tx \in Asked(n)' /\ list[w.at].tx \in applied
  BY <1>3, <1>7
<1> HIDE DEF w, v, list
<1>10. Walking(list, v, Asked(n)', applied)
  BY <1>1, <1>3, <1>6, <1>8, <1>9, WalkTakes
<1> QED
  BY <1>5, <1>10 DEF w, v, list

(* A step that has nothing to do with m's walk.                            *)
LEMMA NextWalks == QueueInv /\ WalkInv /\ [Next]_vars => WalkInv'
<1> SUFFICES ASSUME QueueInv, WalkInv, [Next]_vars, NEW m \in Node, quarter'[m] = 3
             PROVE  Walking(txList'[m], loop'[m], Asked(m)', applied')
  BY DEF WalkInv
<1> DEFINE Same == /\ quarter[m] = 3
                   /\ txList'[m] = txList[m] /\ loop'[m] = loop[m]
                   /\ Asked(m) \subseteq Asked(m)' /\ applied \subseteq applied'
<1>1. Same => Walking(txList'[m], loop'[m], Asked(m)', applied')
  BY WalkFramed
<1>2. CASE UNCHANGED vars
  BY <1>1, <1>2 DEF vars, Asked
<1>3. ASSUME NEW t \in Tx, Execute(t) PROVE Same
  BY <1>3 DEF Execute, Asked
<1>4. ASSUME NEW n \in Node, NodeStep(n), n # m PROVE Same
  <2>0. /\ DOMAIN quarter = Node /\ DOMAIN txList = Node /\ DOMAIN loop = Node
        /\ DOMAIN tried = Node /\ DOMAIN removeProposals = Node
    BY DEF QueueInv, Clocks, Collected, Walks
  <2>1. ASSUME NEW t \in Tx, AddNetworkTx(n, t) PROVE Same
    BY <2>1 DEF AddNetworkTx, Asked
  <2>2. ASSUME NEW v \in verifying[n], AddVerified(n, v) PROVE Same
    BY <2>2 DEF AddVerified, Asked
  <2>3. ASSUME NEW g \in gossip, ReceiveAdd(n, g.msg) \/ ReceiveRemove(n, g.msg) PROVE Same
    BY <2>3 DEF ReceiveAdd, ReceiveRemove, Asked
  <2>4. CASE SendRequests(n)
    BY <1>4, <2>0, <2>4 DEF SendRequests, Asked
  <2>5. CASE RunQ3(n)
    BY <1>4, <2>0, <2>5 DEF RunQ3, Asked
  <2>6. CASE RunQ4(n)
    BY <1>4, <2>0, <2>6 DEF RunQ4, Asked
  <2>7. CASE WalkNext(n)
    BY <1>4, <2>0, <2>7 DEF WalkNext, Asked
  <2>8. CASE WalkVerified(n)
    BY <1>4, <2>0, <2>8 DEF WalkVerified, Asked
  <2>9. CASE WalkRemove(n)
    BY <1>4, <2>0, <2>9 DEF WalkRemove, Asked
  <2>10. CASE Digest(n)
    BY <1>4, <2>0, <2>10 DEF Digest, DigestRecord, Asked
  <2>11. ASSUME NEW t \in removing[n], RemoveVerified(n, t) PROVE Same
    BY <2>11 DEF RemoveVerified, Asked
  <2> HIDE DEF Same
  <2> QED
    BY <1>4, <2>1, <2>2, <2>3, <2>4, <2>5, <2>6, <2>7, <2>8, <2>9, <2>10, <2>11 DEF NodeStep
<1>5. CASE NodeStep(m)
  <2>0. DOMAIN quarter = Node
    BY DEF QueueInv, Clocks
  <2>1. ASSUME NEW t \in Tx, AddNetworkTx(m, t) PROVE Same
    BY <2>1 DEF AddNetworkTx, Asked
  <2>2. ASSUME NEW v \in verifying[m], AddVerified(m, v) PROVE Same
    BY <2>2 DEF AddVerified, Asked
  <2>3. ASSUME NEW g \in gossip, ReceiveAdd(m, g.msg) \/ ReceiveRemove(m, g.msg) PROVE Same
    BY <2>3 DEF ReceiveAdd, ReceiveRemove, Asked
  <2>4. ~SendRequests(m) /\ ~RunQ4(m) /\ ~Digest(m)
    BY <2>0 DEF SendRequests, RunQ4, Digest, DigestRecord
  <2>5. CASE RunQ3(m)
    BY <2>5, WalkStarts
  <2>6. CASE WalkNext(m)
    BY <2>6, WalkNextWalks
  <2>7. CASE WalkVerified(m)
    <3>1. quarter[m] = 3
      BY <2>7 DEF WalkVerified
    <3> QED
      BY <2>7, <3>1, WalkVerifiedWalks
  <2>8. CASE WalkRemove(m)
    <3>1. quarter[m] = 3
      BY <2>8 DEF WalkRemove
    <3> QED
      BY <2>8, <3>1, WalkRemoveWalks
  <2>9. ASSUME NEW t \in removing[m], RemoveVerified(m, t) PROVE Same
    BY <2>9 DEF RemoveVerified, Asked
  <2> HIDE DEF Same
  <2> QED
    BY <1>1, <1>5, <2>1, <2>2, <2>3, <2>4, <2>5, <2>6, <2>7, <2>8, <2>9 DEF NodeStep
<1> HIDE DEF Same
<1>6. CASE EndOfRun
  BY <1>2, <1>6 DEF EndOfRun
<1> QED
  BY <1>1, <1>2, <1>3, <1>4, <1>5, <1>6 DEF Next
(* A transaction is only asked for when those before it in its subqueue    *)
(* were executed, if the verifier answers within Q3.                       *)
LEMMA AskedInOrder ==
  ASSUME QueueInv, WalkInv, [Next]_vars, NEW n \in Node, NEW j \in DOMAIN txList[n],
         NEW t, t = txList[n][j].tx, t \in tried'[n] \ tried[n], quarter[n] = 3,
         SubQueueKey[t] # NoKey,
         NEW i \in 1 .. j - 1, SubQueueKey[txList[n][i].tx] = SubQueueKey[t]
  PROVE  txList[n][i].tx \in applied
<1>0. DOMAIN tried = Node
  BY DEF QueueInv, Walks
<1>1. WalkVerified(n) /\ t = loop[n].tx
  <2>1. ~(tried' = tried)
    OBVIOUS
  <2>2. PICK m \in Node : NodeStep(m)
    BY <2>1 DEF Next, Execute, EndOfRun, vars
  <2>3. RunQ3(m) \/ WalkVerified(m)
    BY <2>1, <2>2 DEF NodeStep, AddNetworkTx, AddVerified, ReceiveAdd, ReceiveRemove, RemoveVerified, SendRequests,
       RunQ4, WalkNext, WalkRemove, Digest, DigestRecord
  <2>4. t \in tried'[n] /\ t \notin tried[n]
    OBVIOUS
  <2>5. ~RunQ3(m)
    BY <1>0, <2>4 DEF RunQ3
  <2>6. WalkVerified(m) /\ tried' = [tried EXCEPT ![m] = @ \cup {loop[m].tx}]
    BY <2>1, <2>3, <2>5 DEF WalkVerified
  <2>7. m = n /\ t = loop[n].tx
    BY <1>0, <2>4, <2>6
  <2> QED
    BY <2>6, <2>7
<1> DEFINE list == txList[n]
           w == loop[n]
<1>2. /\ w \in [state : {"verify", "remove"}, at : Nat \ {0}, length : Nat, keys : SUBSET SubQueue, tx : Tx]
      /\ list \in Lists
  BY <1>1 DEF QueueInv, Walks, Collected, Loop, WalkVerified, NotWalking
<1>3. Walking(list, w, Asked(n), applied) /\ w.state = "verify"
  BY <1>1 DEF WalkInv, WalkVerified
<1>4. /\ w.at <= Len(list) /\ w.tx = list[w.at].tx /\ SubQueueKey[w.tx] \notin w.keys
      /\ list \in Seq(Entry) /\ Len(list) \in Nat /\ DOMAIN list = 1 .. Len(list)
      /\ Sorted(list)
  BY <1>1, <1>2, <1>3 DEF Walking, OnEntry, Lists
<1>5. j = w.at
  <2>1. j \in 1 .. Len(list) /\ w.at \in 1 .. Len(list) /\ list[j].tx = list[w.at].tx
    BY <1>1, <1>2, <1>4
  <2> HIDE DEF list, w
  <2>2. ~(j < w.at) /\ ~(w.at < j)
    BY <1>4, <2>1 DEF Sorted
  <2> QED
    BY <1>2, <2>1, <2>2
<1>6. PICK H : Passed(list, w, Asked(n), applied, H)
  BY <1>3 DEF Walking
<1>7. i \in 1 .. w.at - 1
  BY <1>5
<1>8. KeyAt(list, i) = SubQueueKey[w.tx] /\ KeyAt(list, i) # NoKey
  BY <1>1 DEF KeyAt
<1> QED
  BY <1>4, <1>6, <1>7, <1>8 DEF Passed

(* The application is asked for the transactions of a subqueue one after   *)
(* the other, for any number of transactions, subqueues and nodes.         *)
THEOREM SubQueuesOrdered == Spec => SubQueueInOrder
<1>1. Init => QueueInv /\ WalkInv
  BY InitQueue DEF Init, WalkInv
<1>2. QueueInv /\ WalkInv /\ [Next]_vars => QueueInv' /\ WalkInv'
  BY NextQueue, NextWalks
<1>3. QueueInv /\ WalkInv /\ [Next]_vars =>
        [\A n \in Node : \A j \in DOMAIN txList[n] :
           LET t == txList[n][j].tx
           IN  t \in tried'[n] \ tried[n] /\ quarter[n] = 3 /\ SubQueueKey[t] # NoKey =>
                 \A i \in 1 .. j - 1 :
                   SubQueueKey[txList[n][i].tx] = SubQueueKey[t] => txList[n][i].tx \in applied]_vars
  BY AskedInOrder
<1> QED
  BY <1>1, <1>2, <1>3, PTL DEF Spec, SubQueueInOrder

(* A walk that came to its end asked for, or proposed to remove, as many   *)
(* transactions as a cycle may handle, or one of every subqueue: a skipped *)
(* entry makes the walk longer, and only lanes already served are skipped. *)
THEOREM BudgetSpent == Spec => []BudgetUsed
<1>1. Init => QueueInv /\ WalkInv
  BY InitQueue DEF Init, WalkInv
<1>2. QueueInv /\ WalkInv /\ [Next]_vars => QueueInv' /\ WalkInv'
  BY NextQueue, NextWalks
<1>3. QueueInv /\ WalkInv => BudgetUsed
  <2> SUFFICES ASSUME QueueInv, WalkInv, NEW n \in Node, loop[n].state = "next", quarter[n] = 3,
                      loop[n].at > loop[n].length
               PROVE  Cardinality(tried[n] \cup removeProposals[n])
                        >= Min({PerCycle, Cardinality(Lanes(n))})
    BY DEF BudgetUsed
  <2> DEFINE list == txList[n]
             w == loop[n]
             lane(i) == IF SubQueueKey[list[i].tx] = NoKey THEN <<list[i].tx>>
                        ELSE <<NoKey, SubQueueKey[list[i].tx]>>
  <2>1. /\ w \in [state : {"next"}, at : Nat \ {0}, length : Nat, keys : SUBSET SubQueue]
        /\ list \in Lists
    <3>1. w \in Loop /\ w.state = "next" /\ list \in Lists
      BY DEF QueueInv, Walks, Collected
    <3> QED
      BY <3>1 DEF Loop, NotWalking
  <2>2. /\ list \in Seq(Entry) /\ Len(list) \in Nat /\ DOMAIN list = 1 .. Len(list)
        /\ \A i, k \in 1 .. Len(list) : i < k => list[i].tx # list[k].tx
    BY <2>1 DEF Lists, Sorted
  <2>3. Walking(list, w, Asked(n), applied)
    BY DEF WalkInv
  <2>4. w.length <= Len(list) /\ w.at = w.length + 1
    BY <2>1, <2>3 DEF Walking, OnEntry
  <2>5. PICK H : Passed(list, w, Asked(n), applied, H)
    BY <2>3 DEF Walking
  <2>6. H \in SUBSET (1 .. w.length) /\ H \in SUBSET (1 .. Len(list))
    BY <2>1, <2>2, <2>4, <2>5 DEF Passed
  <2>7. IsFiniteSet(H) /\ Cardinality(H) \in Nat
    <3>1. IsFiniteSet(1 .. w.length)
      BY <2>1, FS_Interval
    <3> QED
      BY <2>6, <3>1, FS_Subset, FS_CardinalityType
  <2>8. IsFiniteSet(Asked(n)) /\ Cardinality(Asked(n)) \in Nat
    <3>1. tried[n] \in Removes /\ removeProposals[n] \in Removes
      BY DEF QueueInv, Walks, Collected
    <3> QED
      BY <3>1, FS_Union, FS_CardinalityType DEF Asked, Removes
  <2>9. Cardinality(Asked(n)) >= Cardinality(H)
    <3> DEFINE f == [i \in H |-> list[i].tx]
    <3>1. f \in [H -> Asked(n)]
      BY <2>5 DEF Passed
    <3>2. \A i, k \in H : f[i] = f[k] => i = k
      <4> SUFFICES ASSUME NEW i \in H, NEW k \in H, list[i].tx = list[k].tx PROVE i = k
        OBVIOUS
      <4>1. i \in 1 .. Len(list) /\ k \in 1 .. Len(list)
        BY <2>6
      <4>2. ~(i < k) /\ ~(k < i)
        BY <2>2, <4>1
      <4> QED
        BY <4>1, <4>2
    <3>3. f \in Injection(H, Asked(n))
      BY <3>1, <3>2 DEF Injection, IsInjective
    <3> HIDE DEF f
    <3> QED
      BY <2>7, <2>8, <3>3, FS_Injection
  <2>10. \A i \in 1 .. Len(list) : lane(i) \in Lanes(n)
    BY <2>2 DEF Lanes, ToSet
  <2>11. \A l \in Lanes(n) : \E i \in 1 .. Len(list) : l = lane(i)
    BY <2>2 DEF Lanes, ToSet
  <2> HIDE DEF lane
  <2>12. Cardinality(Lanes(n)) \in Nat
    <3> DEFINE g == [i \in 1 .. Len(list) |-> lane(i)]
    <3>1. g \in Surjection(1 .. Len(list), Lanes(n))
      BY <2>10, <2>11 DEF Surjection
    <3>2. IsFiniteSet(1 .. Len(list))
      BY <2>2, FS_Interval
    <3> HIDE DEF g
    <3> QED
      BY <3>1, <3>2, FS_Surjection, FS_CardinalityType
  <2>13. /\ Min({PerCycle, Cardinality(Lanes(n))}) <= PerCycle
         /\ Min({PerCycle, Cardinality(Lanes(n))}) <= Cardinality(Lanes(n))
         /\ Min({PerCycle, Cardinality(Lanes(n))}) \in Nat
    <3> DEFINE both == {PerCycle, Cardinality(Lanes(n))}
    <3>1. both \in SUBSET Nat /\ both # {} /\ PerCycle \in both /\ Cardinality(Lanes(n)) \in both
      BY <2>12, QueueAssumption
    <3>2. Min(both) \in both /\ \A x \in both : Min(both) <= x
      <4> HIDE DEF both
      <4> QED
        BY <3>1, MinLeast
    <3> QED
      BY <3>1, <3>2
  <2>14. Cardinality(H) >= PerCycle \/ Cardinality(H) >= Cardinality(Lanes(n))
    <3>1. CASE w.length >= PerCycle + (w.at - 1) - Cardinality(H)
      BY <2>1, <2>4, <2>7, <3>1, QueueAssumption
    <3>2. CASE w.length >= Len(list)
      <4>1. 1 .. w.at - 1 = 1 .. Len(list)
        BY <2>1, <2>2, <2>4, <3>2
      <4>2. \A i \in 1 .. Len(list) : \E k \in H : lane(k) = lane(i)
        <5> SUFFICES ASSUME NEW i \in 1 .. Len(list), i \notin H PROVE \E k \in H : lane(k) = lane(i)
          OBVIOUS
        <5>1. KeyAt(list, i) # NoKey /\ KeyAt(list, i) \in w.keys
          BY <2>5, <4>1 DEF Passed
        <5>2. PICK k \in H : KeyAt(list, k) = KeyAt(list, i)
          BY <2>5, <5>1 DEF Passed
        <5>3. lane(k) = lane(i)
          BY <5>1, <5>2 DEF lane, KeyAt
        <5> QED
          BY <5>3
      <4> DEFINE g == [i \in H |-> lane(i)]
      <4>3. g \in [H -> Lanes(n)]
        BY <2>6, <2>10
      <4>4. \A l \in Lanes(n) : \E k \in H : g[k] = l
        BY <2>11, <4>2
      <4>5. g \in Surjection(H, Lanes(n))
        <5> HIDE DEF g
        <5> QED
          BY <4>3, <4>4 DEF Surjection
      <4> HIDE DEF g
      <4> QED
        BY <2>7, <4>5, FS_Surjection
    <3> QED
      BY <2>5, <3>1, <3>2 DEF Passed
  <2> HIDE DEF w, list
  <2> QED
    BY <2>7, <2>8, <2>9, <2>12, <2>13, <2>14, QueueAssumption DEF Asked
<1> QED
  BY <1>1, <1>2, <1>3, PTL DEF Spec
-----------------------------------------------------------------------------
(* Agreement, where every verifier answers within its quarter.  From       *)
(* Q3 on a node collects nothing more, so its own record and the copy that *)
(* its peers gossip stay equal; and no node is two records ahead.          *)
Settled(n) ==
  /\ removing[n] = {} /\ \A v \in verifying[n] : v.own
  /\ made[n].txadd = txAdd[n] /\ made[n].txremove = txRemove[n]
  /\ \A m \in Node : cycle[n] <= cycle[m]
Parsed(list, r) == ListAfterParse(list, r.txadd, r.txremove)
SameList(n, m) == cycle[m] = cycle[n] => txList[m] = txList[n]
NextList(n, m) == cycle[m] = cycle[n] + 1 => txList[m] = Parsed(txList[n], decided[cycle[n]])
AgreeInv ==
  /\ \A n \in Node : quarter[n] \in {3, 4} => Settled(n)
  /\ \A n, m \in Node : cycle[m] <= cycle[n] + 1 /\ SameList(n, m) /\ NextList(n, m)

(* Steps other than a digest: only what is collected can change.           *)
LEMMA CollectAgrees ==
  ASSUME AgreeInv, UNCHANGED <<cycle, txList, decided>>,
         \A m \in Node : quarter'[m] \in {3, 4} =>
           /\ removing'[m] = {} /\ \A v \in verifying'[m] : v.own
           /\ made'[m].txadd = txAdd'[m] /\ made'[m].txremove = txRemove'[m]
           /\ \A p \in Node : cycle[m] <= cycle[p]
  PROVE  AgreeInv'
<1>1. \A n \in Node : quarter'[n] \in {3, 4} => Settled(n)'
  BY DEF Settled
<1>2. \A n, m \in Node : cycle'[m] <= cycle'[n] + 1 /\ SameList(n, m)' /\ NextList(n, m)'
  BY DEF AgreeInv, SameList, NextList, Parsed
<1> QED
  BY <1>1, <1>2 DEF AgreeInv

LEMMA StepAgrees ==
  ASSUME SlowAdd = {}, SlowApply = {}, QueueInv, AgreeInv, NEW n \in Node, NodeStep(n), ~Digest(n)
  PROVE  AgreeInv'
<1> DEFINE Fine(m) == /\ removing'[m] = {} /\ \A v \in verifying'[m] : v.own
                      /\ made'[m].txadd = txAdd'[m] /\ made'[m].txremove = txRemove'[m]
                      /\ \A p \in Node : cycle[m] <= cycle[p]
<1>0. /\ DOMAIN quarter = Node /\ DOMAIN txAdd = Node /\ DOMAIN txRemove = Node
      /\ DOMAIN verifying = Node /\ DOMAIN removing = Node /\ DOMAIN made = Node /\ \A m \in Node : cycle[m] \in Nat
  BY QueueAssumption DEF QueueInv, Clocks, Collected, Made
<1>1. \A m \in Node : quarter[m] \in {3, 4} =>
        /\ removing[m] = {} /\ \A v \in verifying[m] : v.own
        /\ made[m].txadd = txAdd[m] /\ made[m].txremove = txRemove[m]
        /\ \A p \in Node : cycle[m] <= cycle[p]
  BY DEF AgreeInv, Settled
<1> SUFFICES UNCHANGED <<cycle, txList, decided>> /\ \A m \in Node : quarter'[m] \in {3, 4} => Fine(m)
  BY CollectAgrees
<1> DEFINE Goal == UNCHANGED <<cycle, txList, decided>>
                   /\ \A m \in Node : quarter'[m] \in {3, 4} => Fine(m)
<1>2. ASSUME NEW t \in Tx, AddNetworkTx(n, t) PROVE Goal
  <2> DEFINE v == [entry |-> [tx |-> t, cycle |-> cycle[n]], own |-> TRUE]
  <2>1. verifying' = [verifying EXCEPT ![n] = @ \cup {v}] /\ v.own
        /\ UNCHANGED <<cycle, quarter, txList, txAdd, txRemove, removing, made, decided>>
    BY <1>2 DEF AddNetworkTx
  <2> HIDE DEF v
  <2> QED
    BY <1>0, <1>1, <2>1
<1>3. ASSUME NEW v \in verifying[n], AddVerified(n, v) PROVE Goal
  <2>1. /\ verifying' = [verifying EXCEPT ![n] = @ \ {v}]
        /\ UNCHANGED <<cycle, quarter, txList, txRemove, removing, made, decided>>
        /\ v.own => txAdd' = txAdd
        /\ \A m \in Node \ {n} : txAdd'[m] = txAdd[m]
    BY <1>0, <1>3 DEF AddVerified, Push
  <2>2. \A m \in Node : verifying'[m] \subseteq verifying[m]
    BY <1>0, <2>1
  <2>3. \A m \in Node : quarter[m] \in {3, 4} => txAdd'[m] = txAdd[m]
    BY <1>1, <2>1
  <2> QED
    BY <1>1, <2>1, <2>2, <2>3
<1>4. ASSUME NEW g \in gossip, ReceiveAdd(n, g.msg) PROVE Goal
  <2>1. UNCHANGED <<cycle, quarter, txList, txAdd, txRemove, removing, made, decided>>
    BY <1>4 DEF ReceiveAdd
  <2>2. \A m \in Node : quarter[m] \in {3, 4} => verifying'[m] = verifying[m]
    BY <1>0, <1>4 DEF ReceiveAdd, GossipOpen
  <2> QED
    BY <1>1, <2>1, <2>2
<1>5. ASSUME NEW g \in gossip, ReceiveRemove(n, g.msg) PROVE Goal
  <2>1. UNCHANGED <<cycle, quarter, txList, txAdd, txRemove, verifying, made, decided>>
    BY <1>5 DEF ReceiveRemove
  <2>2. \A m \in Node : quarter[m] \in {3, 4} => removing'[m] = removing[m]
    BY <1>0, <1>5 DEF ReceiveRemove, GossipOpen
  <2> QED
    BY <1>1, <2>1, <2>2
<1>10. ASSUME NEW t \in removing[n], RemoveVerified(n, t) PROVE Goal
  <2>1. UNCHANGED <<cycle, quarter, txList, txAdd, verifying, made, decided>>
    BY <1>10 DEF RemoveVerified
  <2>2. quarter[n] \notin {3, 4}
    BY <1>1
  <2>3. \A m \in Node \ {n} : txRemove'[m] = txRemove[m] /\ removing'[m] = removing[m]
    BY <1>0, <1>10 DEF RemoveVerified
  <2> QED
    BY <1>1, <2>1, <2>2, <2>3
<1>6. CASE SendRequests(n)
  <2>1. UNCHANGED <<cycle, txList, verifying, removing, made, decided>> /\ quarter'[n] = 2
        /\ \A m \in Node \ {n} : quarter'[m] = quarter[m] /\ txAdd'[m] = txAdd[m]
                                 /\ txRemove'[m] = txRemove[m]
    BY <1>0, <1>6 DEF SendRequests
  <2> QED
    BY <1>1, <2>1
<1>7. CASE RunQ3(n)
  <2>1. /\ UNCHANGED <<cycle, txList, txAdd, txRemove, verifying, removing, decided>>
        /\ made'[n] = Record(n)
        /\ \A m \in Node \ {n} : quarter'[m] = quarter[m] /\ made'[m] = made[m]
        /\ verifying[n] = {} /\ removing[n] = {} /\ \A p \in Node : cycle[p] >= cycle[n]
    BY <1>0, <1>7 DEF RunQ3, AddsAnswered, RemovesAnswered
  <2>2. Record(n).txadd = txAdd[n] /\ Record(n).txremove = txRemove[n]
    BY DEF Record
  <2>3. Fine(n)
    BY <1>0, <2>1, <2>2
  <2>4. \A m \in Node \ {n} : quarter[m] \in {3, 4} => Fine(m)
    BY <1>1, <2>1
  <2> HIDE DEF Fine
  <2> QED
    BY <2>1, <2>3, <2>4
<1>8. CASE RunQ4(n)
  <2>1. UNCHANGED <<cycle, txList, txAdd, txRemove, verifying, removing, made, decided>>
        /\ \A m \in Node : quarter'[m] \in {3, 4} => quarter[m] \in {3, 4}
    BY <1>0, <1>8 DEF RunQ4
  <2> QED
    BY <1>1, <2>1
<1>9. CASE WalkNext(n) \/ WalkVerified(n) \/ WalkRemove(n)
  <2>1. UNCHANGED <<cycle, quarter, txList, txAdd, txRemove, verifying, removing, made, decided>>
    BY <1>9 DEF WalkNext, WalkVerified, WalkRemove
  <2> QED
    BY <1>1, <2>1
<1> HIDE DEF Fine
<1> QED
  BY <1>2, <1>3, <1>4, <1>5, <1>6, <1>7, <1>8, <1>9, <1>10 DEF NodeStep

(* The winner of a cycle is one record, whichever copy of it is digested.  *)
LEMMA DigestAgrees ==
  ASSUME SlowAdd = {}, SlowApply = {}, QueueInv, AgreeInv, NEW n \in Node, Digest(n), cycle[n] <= MaxCycle
  PROVE  AgreeInv'
<1> DEFINE winner == decided'[cycle[n]]
<1>0. /\ DOMAIN quarter = Node /\ DOMAIN txAdd = Node /\ DOMAIN txRemove = Node
      /\ DOMAIN txList = Node /\ DOMAIN cycle = Node /\ DOMAIN made = Node
      /\ \A m \in Node : cycle[m] \in Nat \ {0} /\ cycle[m] <= Len(decided) + 1
      /\ Len(decided) \in Nat
  BY QueueAssumption DEF QueueInv, Clocks, Collected, Made, Decided, IsSequence
<1>1. \A i \in 1 .. Len(decided) : decided'[i] = decided[i]
  BY DigestDecides
<1>2. Settled(n)
  BY DEF AgreeInv, Digest
<1>3. OwnObject(n) = made[n]
  <2>1. GoodRecord(made[n])
    BY DEF QueueInv, Made
  <2> QED
    BY <1>2, <2>1 DEF OwnObject, Settled, GoodRecord
<1>4. PICK record : record = winner /\ DigestRecord(n, record)
  BY <1>3 DEF Digest
<1>5. /\ txList' = [txList EXCEPT ![n] = Parsed(txList[n], winner)]
      /\ txAdd' = [txAdd EXCEPT ![n] = {}] /\ txRemove' = [txRemove EXCEPT ![n] = {}]
      /\ cycle' = [cycle EXCEPT ![n] = @ + 1] /\ quarter' = [quarter EXCEPT ![n] = 1]
      /\ UNCHANGED <<verifying, removing, made>>
  BY <1>4 DEF DigestRecord, Parsed
<1> HIDE DEF winner
<1>6. /\ txList'[n] = Parsed(txList[n], winner) /\ cycle'[n] = cycle[n] + 1 /\ quarter'[n] = 1
      /\ \A m \in Node \ {n} : /\ txList'[m] = txList[m] /\ cycle'[m] = cycle[m]
                                /\ quarter'[m] = quarter[m]
                                /\ txAdd'[m] = txAdd[m] /\ txRemove'[m] = txRemove[m]
  BY <1>0, <1>5
<1>7. \A m \in Node : cycle[n] <= cycle[m] /\ cycle[m] <= cycle[n] + 1
  BY <1>2 DEF Settled, AgreeInv
<1>8. \A m \in Node : quarter'[m] \in {3, 4} => Settled(m)'
  <2> SUFFICES ASSUME NEW m \in Node, quarter'[m] \in {3, 4} PROVE Settled(m)'
    OBVIOUS
  <2>1. m # n /\ quarter[m] \in {3, 4}
    BY <1>6
  <2>2. Settled(m)
    BY <2>1 DEF AgreeInv
  <2>3. \A p \in Node : cycle'[m] <= cycle'[p]
    BY <1>0, <1>6, <2>1, <2>2 DEF Settled
  <2> QED
    BY <1>5, <1>6, <2>1, <2>2, <2>3 DEF Settled
<1>9. ASSUME NEW m \in Node \ {n}, NEW p \in Node \ {n}
      PROVE  cycle'[p] <= cycle'[m] + 1 /\ SameList(m, p)' /\ NextList(m, p)'
  <2>1. cycle[p] <= cycle[m] + 1 /\ SameList(m, p) /\ NextList(m, p)
    BY DEF AgreeInv
  <2>2. ASSUME cycle[p] = cycle[m] + 1 PROVE decided'[cycle[m]] = decided[cycle[m]]
    <3>1. cycle[m] \in 1 .. Len(decided)
      BY <1>0, <2>2
    <3> QED
      BY <1>1, <3>1
  <2>3. cycle'[p] = cycle[p] /\ cycle'[m] = cycle[m] /\ txList'[p] = txList[p] /\ txList'[m] = txList[m]
    BY <1>6
  <2> QED
    BY <2>1, <2>2, <2>3 DEF SameList, NextList
<1>10. ASSUME NEW m \in Node \ {n}
       PROVE  /\ cycle'[m] <= cycle'[n] + 1 /\ SameList(n, m)' /\ NextList(n, m)'
              /\ cycle'[n] <= cycle'[m] + 1 /\ SameList(m, n)' /\ NextList(m, n)'
  <2>0. cycle'[m] = cycle[m] /\ txList'[m] = txList[m] /\ cycle[m] \in Nat /\ cycle[n] \in Nat
    BY <1>0, <1>6
  <2>1. SameList(n, m) /\ NextList(n, m)
    BY DEF AgreeInv
  <2>2. CASE cycle[m] = cycle[n]
    <3>1. cycle'[n] = cycle'[m] + 1 /\ cycle'[n] # cycle'[m] /\ cycle'[m] # cycle'[n] + 1
          /\ cycle'[m] <= cycle'[n] + 1 /\ cycle'[n] <= cycle'[m] + 1
      BY <1>6, <2>0, <2>2
    <3>2. txList'[n] = Parsed(txList'[m], decided'[cycle'[m]])
      BY <1>6, <2>0, <2>1, <2>2 DEF SameList, winner
    <3> QED
      BY <3>1, <3>2 DEF SameList, NextList
  <2>3. CASE cycle[m] = cycle[n] + 1
    <3>1. cycle'[n] = cycle'[m] /\ cycle'[n] # cycle'[m] + 1 /\ cycle'[m] # cycle'[n] + 1
          /\ cycle'[m] <= cycle'[n] + 1 /\ cycle'[n] <= cycle'[m] + 1
      BY <1>6, <2>0, <2>3
    <3>2. cycle[n] \in 1 .. Len(decided)
      BY <1>0, <2>3
    <3>3. txList'[n] = txList'[m]
      BY <1>1, <1>6, <2>0, <2>1, <2>3, <3>2 DEF NextList, winner
    <3> QED
      BY <3>1, <3>3 DEF SameList, NextList
  <2> QED
    BY <1>7, <2>0, <2>2, <2>3
<1>11. cycle'[n] <= cycle'[n] + 1 /\ SameList(n, n)' /\ NextList(n, n)'
  <2>1. cycle'[n] \in Nat
    BY <1>0, <1>6
  <2> QED
    BY <2>1 DEF SameList, NextList
<1> QED
  BY <1>8, <1>9, <1>10, <1>11 DEF AgreeInv

(* Two nodes in the same cycle have the same queue, for any number of      *)
(* nodes and transactions and whatever order gossip, verifiers and digests *)
(* come in, if every verifier, of additions and of removals, answers within *)
(* its quarter.                                                            *)
THEOREM QueuesAgree == SlowAdd = {} /\ SlowApply = {} => (Spec => []ListsAgree)
<1> SUFFICES ASSUME SlowAdd = {}, SlowApply = {} PROVE Spec => []ListsAgree
  OBVIOUS
<1>1. Init => QueueInv /\ AgreeInv
  <2> SUFFICES ASSUME Init PROVE AgreeInv
    BY InitQueue
  <2>1. \A n \in Node : quarter[n] = 1 /\ cycle[n] = 1 /\ txList[n] = <<>>
    BY DEF Init
  <2> QED
    BY <2>1 DEF AgreeInv, SameList, NextList
<1>2. QueueInv /\ AgreeInv /\ [Next]_vars => QueueInv' /\ AgreeInv'
  <2> SUFFICES ASSUME QueueInv, AgreeInv, [Next]_vars PROVE AgreeInv'
    BY NextQueue
  <2>1. ASSUME UNCHANGED <<cycle, quarter, txList, txAdd, txRemove, verifying, removing, made, decided>>
        PROVE  AgreeInv'
    BY <2>1, CollectAgrees DEF AgreeInv, Settled
  <2>2. CASE EndOfRun \/ UNCHANGED vars \/ \E t \in Tx : Execute(t)
    BY <2>1, <2>2 DEF EndOfRun, vars, Execute
  <2>3. ASSUME NEW n \in Node, cycle[n] <= MaxCycle, NodeStep(n) PROVE AgreeInv'
    BY <2>3, StepAgrees, DigestAgrees
  <2> QED
    BY <2>2, <2>3 DEF Next
<1>3. QueueInv /\ AgreeInv => ListsAgree
  BY DEF QueueInv, Clocks, AgreeInv, SameList, ListsAgree
<1> QED
  BY <1>1, <1>2, <1>3, PTL DEF Spec
=============================================================================
