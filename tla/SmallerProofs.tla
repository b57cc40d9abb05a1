------------------------- MODULE SmallerProofs -------------------------
(***************************************************************************)
(* The theorems of five smaller modules, whose names do not clash.         *)
(*                                                                         *)
(* FifoLocks: nobody shares a lock it kept (Exclusive), for any number of  *)
(* requests, transactions and locks and any number of forced unlocks. What *)
(* makes it inductive: the numbers of those that wait for a lock or hold   *)
(* it differ and are none that it will give out, and who kept a lock is    *)
(* its owner.                                                              *)
(*                                                                         *)
(* AccountSync: a node that joins misses no old account (OldDataSynced),   *)
(* for any number of accounts, ranges, pages, changes, failures and        *)
(* restarts. What makes it inductive: of the range that it fetches it has  *)
(* every account that comes before the page to ask for, and that page      *)
(* begins so far in the past that no account which changes now comes       *)
(* before it.                                                              *)
(*                                                                         *)
(* NetworkMode: only lost nodes take a network below the number it         *)
(* processes with (RotationSafe), for networks of any size.                *)
(*                                                                         *)
(* ShardStorage: all parts of a node that compute who stores what agree    *)
(* (StorageAgrees), and what a node newly stores is listed among the       *)
(* changes it fetches (GrowthFetched), for any number of nodes and size of *)
(* groups, as long as there are many more addresses than nodes.            *)
(*                                                                         *)
(* FactTell: who executes a transaction is told the data of all its        *)
(* accounts, and everybody else the result (TellsArrive), for any number   *)
(* of nodes, size of groups and place of the accounts on the circle.       *)
(***************************************************************************)
EXTENDS FifoLocks, AccountSync, NetworkMode, ShardStorage, FactTell, SequenceTheorems,
        FiniteSetTheorems, WellFoundedInduction, TLAPS

Fifo == [queueCounter : Nat, waitingList : Seq(Nat), queueLocked : BOOLEAN, lockOwner : Nat]

LockTypeOK ==
  /\ fifo \in [Lock -> Fifo]
  /\ ids \in [Process -> [Lock -> Nat]]
  /\ pc \in [Process -> {"idle", "next", "waiting", "working", "done"}]
  /\ at \in [Process -> Nat \ {0}]
  /\ held \in [Process -> SUBSET Lock]
  /\ kept \in [Process -> SUBSET Lock]

(* Where a process is in its plan, and that it holds only earlier locks.   *)
InPlan ==
  \A p \in Process :
    /\ pc[p] \in {"idle", "next", "waiting"} => at[p] <= Len(Plan[p])
    /\ \A l \in held[p] : \E i \in 1 .. Len(Plan[p]) : i < at[p] /\ Plan[p][i] = l

Owns(f, n, h, k) ==
  /\ \A p \in Process, l \in Lock : n[p][l] <= f[l].queueCounter
  /\ \A p, q \in Process, l \in Lock : p # q /\ n[p][l] # 0 => n[p][l] # n[q][l]
  /\ \A p \in Process : k[p] \subseteq h[p]
  /\ \A p \in Process, l \in Lock : l \in h[p] => n[p][l] # 0
  /\ \A p \in Process, l \in Lock : l \in k[p] => f[l].queueLocked /\ f[l].lockOwner = n[p][l]

WaitersNumbered == \A p \in Process : pc[p] = "waiting" => ids[p][Wanted(p)] # 0

LockInv == LockTypeOK /\ InPlan /\ Owns(fifo, ids, held, kept) /\ WaitersNumbered
-----------------------------------------------------------------------------
(* A process wants a lock of its plan that it does not hold.               *)
LEMMA WantedFresh ==
  ASSUME LockTypeOK, InPlan, NEW p \in Process, pc[p] \in {"idle", "next", "waiting"}
  PROVE  Wanted(p) \in Lock /\ Wanted(p) \notin held[p]
<1>1. Plan[p] \in Seq(Lock) /\ at[p] \in 1 .. Len(Plan[p])
  BY PlanAssumption DEF LockTypeOK, InPlan
<1>2. Wanted(p) \in Lock
  BY <1>1 DEF Wanted
<1>3. Wanted(p) \notin held[p]
  BY <1>1, PlanAssumption DEF Wanted, InPlan
<1> QED BY <1>2, <1>3

(* fifoUnlock: only the owner frees the lock, and nothing else changes.    *)
LEMMA UnlockedFields ==
  ASSUME NEW f \in Fifo, NEW id
  PROVE  /\ Unlocked(f, id) \in Fifo
         /\ Unlocked(f, id).queueCounter = f.queueCounter
         /\ Unlocked(f, id).lockOwner = f.lockOwner
         /\ f.queueLocked /\ f.lockOwner # id => Unlocked(f, id).queueLocked
<1> DEFINE b == f.queueLocked /\ f.lockOwner # id
<1>1. b \in BOOLEAN
  OBVIOUS
<1>2. Unlocked(f, id) = [f EXCEPT !.queueLocked = b]
  BY DEF Unlocked
<1> HIDE DEF b
<1>3. /\ Unlocked(f, id) \in Fifo
      /\ Unlocked(f, id).queueCounter = f.queueCounter
      /\ Unlocked(f, id).lockOwner = f.lockOwner
      /\ Unlocked(f, id).queueLocked = b
  BY <1>1, <1>2 DEF Fifo
<1> QED BY <1>3 DEF b

(* The state between the two calls of a process: the wrapper is given up.  *)
BulkIds(p) == [ids EXCEPT ![p] = IdsAfterBulk(p)]
BulkHeld(p) == [held EXCEPT ![p] = HeldAfterBulk(p)]
BulkKept(p) == [kept EXCEPT ![p] = KeptAfterBulk(p)]

LEMMA BulkKeeps ==
  ASSUME LockTypeOK, Owns(fifo, ids, held, kept), NEW p \in Process
  PROVE  /\ AfterBulk(p) \in [Lock -> Fifo]
         /\ BulkIds(p) \in [Process -> [Lock -> Nat]]
         /\ BulkHeld(p) \in [Process -> SUBSET Lock]
         /\ BulkKept(p) \in [Process -> SUBSET Lock]
         /\ BulkHeld(p)[p] \subseteq held[p]
         /\ Owns(AfterBulk(p), BulkIds(p), BulkHeld(p), BulkKept(p))
<1>1. CASE ~EndsBulk(p)
  <2>1. /\ AfterBulk(p) = fifo /\ BulkIds(p) = ids /\ BulkHeld(p) = held /\ BulkKept(p) = kept
    BY <1>1
       DEF LockTypeOK, AfterBulk, BulkIds, BulkHeld, BulkKept, IdsAfterBulk, HeldAfterBulk,
           KeptAfterBulk
  <2> QED BY <2>1 DEF LockTypeOK
<1>2. CASE EndsBulk(p)
  <2>1. Wrapper \in Lock /\ Wrapper \in held[p]
    BY <1>2 DEF EndsBulk, LockTypeOK
  <2>2. /\ AfterBulk(p) = [fifo EXCEPT ![Wrapper] = Unlocked(fifo[Wrapper], ids[p][Wrapper])]
        /\ BulkIds(p) = [ids EXCEPT ![p] = [ids[p] EXCEPT ![Wrapper] = 0]]
        /\ BulkHeld(p) = [held EXCEPT ![p] = held[p] \ {Wrapper}]
        /\ BulkKept(p) = [kept EXCEPT ![p] = kept[p] \ {Wrapper}]
    BY <1>2 DEF AfterBulk, BulkIds, BulkHeld, BulkKept, IdsAfterBulk, HeldAfterBulk, KeptAfterBulk
  <2>3. /\ AfterBulk(p) \in [Lock -> Fifo]
        /\ \A l \in Lock : AfterBulk(p)[l].queueCounter = fifo[l].queueCounter
        /\ \A l \in Lock : AfterBulk(p)[l].lockOwner = fifo[l].lockOwner
        /\ \A l \in Lock : l # Wrapper => AfterBulk(p)[l] = fifo[l]
        /\ fifo[Wrapper].queueLocked /\ fifo[Wrapper].lockOwner # ids[p][Wrapper]
             => AfterBulk(p)[Wrapper].queueLocked
    <3>1. fifo[Wrapper] \in Fifo
      BY <2>1 DEF LockTypeOK
    <3>2. /\ Unlocked(fifo[Wrapper], ids[p][Wrapper]) \in Fifo
          /\ Unlocked(fifo[Wrapper], ids[p][Wrapper]).queueCounter = fifo[Wrapper].queueCounter
          /\ Unlocked(fifo[Wrapper], ids[p][Wrapper]).lockOwner = fifo[Wrapper].lockOwner
          /\ fifo[Wrapper].queueLocked /\ fifo[Wrapper].lockOwner # ids[p][Wrapper]
               => Unlocked(fifo[Wrapper], ids[p][Wrapper]).queueLocked
      BY <3>1, UnlockedFields
    <3> QED BY <2>1, <2>2, <3>2 DEF LockTypeOK
  <2>4. /\ BulkIds(p) \in [Process -> [Lock -> Nat]]
        /\ BulkHeld(p) \in [Process -> SUBSET Lock]
        /\ BulkKept(p) \in [Process -> SUBSET Lock]
        /\ BulkHeld(p)[p] \subseteq held[p]
    BY <2>1, <2>2 DEF LockTypeOK
  <2>5. \A q \in Process, l \in Lock :
          BulkIds(p)[q][l] = IF q = p /\ l = Wrapper THEN 0 ELSE ids[q][l]
    BY <2>1, <2>2 DEF LockTypeOK
  <2>6. \A q \in Process, l \in Lock :
          /\ l \in BulkHeld(p)[q] <=> l \in held[q] /\ ~(q = p /\ l = Wrapper)
          /\ l \in BulkKept(p)[q] <=> l \in kept[q] /\ ~(q = p /\ l = Wrapper)
    BY <2>1, <2>2 DEF LockTypeOK
  <2>7. ASSUME NEW q \in Process, NEW l \in Lock, l \in BulkKept(p)[q]
        PROVE  AfterBulk(p)[l].queueLocked /\ AfterBulk(p)[l].lockOwner = BulkIds(p)[q][l]
    <3>1. /\ fifo[l].queueLocked /\ fifo[l].lockOwner = ids[q][l] /\ l \in held[q] /\ ids[q][l] # 0
      BY <2>6, <2>7 DEF Owns
    <3>2. CASE l = Wrapper
      <4>1. q # p /\ ids[q][l] # ids[p][l]
        BY <2>6, <2>7, <3>1, <3>2 DEF Owns
      <4> QED BY <2>3, <2>5, <3>1, <3>2, <4>1
    <3>3. CASE l # Wrapper
      BY <2>3, <2>5, <3>1, <3>3
    <3> QED BY <3>2, <3>3
  <2>8. \A q \in Process, l \in Lock : BulkIds(p)[q][l] <= AfterBulk(p)[l].queueCounter
    <3>1. TAKE q \in Process, l \in Lock
    <3>2. ids[q][l] <= fifo[l].queueCounter
      BY DEF Owns
    <3>3. fifo[l].queueCounter \in Nat
      BY DEF LockTypeOK, Fifo
    <3>4. AfterBulk(p)[l].queueCounter = fifo[l].queueCounter
      BY <2>3
    <3>5. BulkIds(p)[q][l] = IF q = p /\ l = Wrapper THEN 0 ELSE ids[q][l]
      BY <2>5
    <3> QED BY <3>2, <3>3, <3>4, <3>5
  <2>9. /\ \A q, r \in Process, l \in Lock :
             q # r /\ BulkIds(p)[q][l] # 0 => BulkIds(p)[q][l] # BulkIds(p)[r][l]
        /\ \A q \in Process, l \in Lock : l \in BulkHeld(p)[q] => BulkIds(p)[q][l] # 0
    BY <2>5, <2>6 DEF Owns
  <2>10. \A q \in Process : BulkKept(p)[q] \subseteq BulkHeld(p)[q]
    BY <2>4, <2>6 DEF Owns
  <2> QED BY <2>3, <2>4, <2>7, <2>8, <2>9, <2>10 DEF Owns
<1> QED BY <1>1, <1>2
-----------------------------------------------------------------------------
(* What a request for a lock does to the numbers: p gets a number nobody   *)
(* else has, and either owns the free lock by it or owns nothing more.     *)
LEMMA NumberKeeps ==
  ASSUME NEW F \in [Lock -> Fifo], NEW I \in [Process -> [Lock -> Nat]],
         NEW H \in [Process -> SUBSET Lock], NEW K \in [Process -> SUBSET Lock],
         Owns(F, I, H, K),
         NEW p \in Process, NEW l \in Lock, l \notin H[p],
         NEW f \in Fifo, NEW i \in Nat \ {0},
         F[l].queueCounter <= f.queueCounter, i <= f.queueCounter,
         \A q \in Process \ {p} : I[q][l] # i
  PROVE  /\ f.queueLocked = F[l].queueLocked /\ f.lockOwner = F[l].lockOwner
            => Owns([F EXCEPT ![l] = f], [I EXCEPT ![p] = [I[p] EXCEPT ![l] = i]], H, K)
         /\ ~F[l].queueLocked /\ f.queueLocked /\ f.lockOwner = i
            => Owns([F EXCEPT ![l] = f], [I EXCEPT ![p] = [I[p] EXCEPT ![l] = i]],
                    [H EXCEPT ![p] = H[p] \cup {l}], [K EXCEPT ![p] = K[p] \cup {l}])
<1> DEFINE F2 == [F EXCEPT ![l] = f]
           I2 == [I EXCEPT ![p] = [I[p] EXCEPT ![l] = i]]
           H2 == [H EXCEPT ![p] = H[p] \cup {l}]
           K2 == [K EXCEPT ![p] = K[p] \cup {l}]
<1>1. \A m \in Lock : F2[m] = IF m = l THEN f ELSE F[m]
  OBVIOUS
<1>2. \A q \in Process, m \in Lock : I2[q][m] = IF q = p /\ m = l THEN i ELSE I[q][m]
  OBVIOUS
<1>3. \A q \in Process, m \in Lock :
        /\ m \in H2[q] <=> m \in H[q] \/ (q = p /\ m = l)
        /\ m \in K2[q] <=> m \in K[q] \/ (q = p /\ m = l)
  OBVIOUS
<1>4. H2 \in [Process -> SUBSET Lock] /\ K2 \in [Process -> SUBSET Lock]
  OBVIOUS
<1> HIDE DEF F2, I2, H2, K2
<1>5. \A q \in Process, m \in Lock : I2[q][m] <= F2[m].queueCounter
  <2>1. TAKE q \in Process, m \in Lock
  <2>2. I[q][m] \in Nat /\ F[m].queueCounter \in Nat /\ f.queueCounter \in Nat
    BY DEF Fifo
  <2>3. I[q][m] <= F[m].queueCounter
    BY DEF Owns
  <2> QED BY <1>1, <1>2, <2>2, <2>3
<1>6. \A q, r \in Process, m \in Lock : q # r /\ I2[q][m] # 0 => I2[q][m] # I2[r][m]
  BY <1>2 DEF Owns
<1>7. K \in [Process -> SUBSET Lock] /\ \A q \in Process, m \in Lock : m \in K[q] => m \in H[q]
  BY DEF Owns
<1>8. \A q \in Process, m \in Lock : m \in H2[q] => I2[q][m] # 0
  BY <1>2, <1>3 DEF Owns
<1>9. ASSUME f.queueLocked = F[l].queueLocked, f.lockOwner = F[l].lockOwner
      PROVE  Owns(F2, I2, H, K)
  <2>1. ASSUME NEW q \in Process, NEW m \in Lock, m \in K[q]
        PROVE  F2[m].queueLocked /\ F2[m].lockOwner = I2[q][m]
    <3>1. F[m].queueLocked /\ F[m].lockOwner = I[q][m] /\ m \in H[q]
      BY <1>7, <2>1 DEF Owns
    <3>2. ~(q = p /\ m = l)
      BY <3>1
    <3>3. CASE m = l
      BY <1>1, <1>2, <1>9, <3>1, <3>2, <3>3
    <3>4. CASE m # l
      BY <1>1, <1>2, <3>1, <3>4
    <3> QED BY <3>3, <3>4
  <2>2. \A q \in Process, m \in Lock : m \in H[q] => I2[q][m] # 0
    BY <1>3, <1>8
  <2>3. \A q \in Process : K[q] \subseteq H[q]
    BY DEF Owns
  <2> QED BY <1>5, <1>6, <2>1, <2>2, <2>3 DEF Owns
<1>10. ASSUME ~F[l].queueLocked, f.queueLocked, f.lockOwner = i
       PROVE  Owns(F2, I2, H2, K2)
  <2>1. ASSUME NEW q \in Process, NEW m \in Lock, m \in K2[q]
        PROVE  F2[m].queueLocked /\ F2[m].lockOwner = I2[q][m]
    <3>1. CASE q = p /\ m = l
      BY <1>1, <1>2, <1>10, <3>1
    <3>2. CASE ~(q = p /\ m = l)
      <4>1. m \in K[q]
        BY <1>3, <2>1, <3>2
      <4>2. F[m].queueLocked /\ F[m].lockOwner = I[q][m]
        BY <4>1 DEF Owns
      <4>3. m # l
        BY <1>10, <4>2
      <4> QED BY <1>1, <1>2, <4>2, <4>3
    <3> QED BY <3>1, <3>2
  <2>2. \A q \in Process : K2[q] \subseteq H2[q]
    BY <1>3, <1>4, <1>7
  <2> QED BY <1>5, <1>6, <1>8, <2>1, <2>2 DEF Owns
<1> QED BY <1>9, <1>10 DEF F2, I2, H2, K2
-----------------------------------------------------------------------------
(* A process that moves on in its plan, or waits where it is, stays in it. *)
LEMMA AdvanceInPlan ==
  ASSUME LockTypeOK, InPlan, NEW p \in Process, pc[p] \in {"idle", "next", "waiting"}, Advance(p),
         held' \in [Process -> SUBSET Lock],
         \A q \in Process \ {p} : held'[q] = held[q],
         held'[p] \subseteq held[p] \cup {Wanted(p)}
  PROVE  /\ InPlan'
         /\ pc' \in [Process -> {"idle", "next", "waiting", "working", "done"}]
         /\ at' \in [Process -> Nat \ {0}]
         /\ \A q \in Process : pc'[q] = "waiting" => q # p /\ pc[q] = "waiting" /\ at'[q] = at[q]
<1>1. /\ at' = [at EXCEPT ![p] = at[p] + 1]
      /\ pc' = [pc EXCEPT ![p] = IF at[p] = Len(Plan[p]) THEN "working" ELSE "next"]
  BY DEF Advance
<1>2. at[p] \in Nat \ {0} /\ Len(Plan[p]) \in Nat /\ at[p] <= Len(Plan[p])
  BY PlanAssumption DEF LockTypeOK, InPlan
<1>3. /\ pc' \in [Process -> {"idle", "next", "waiting", "working", "done"}]
      /\ at' \in [Process -> Nat \ {0}]
      /\ pc'[p] = (IF at[p] = Len(Plan[p]) THEN "working" ELSE "next")
      /\ at'[p] = at[p] + 1
      /\ \A q \in Process \ {p} : pc'[q] = pc[q] /\ at'[q] = at[q]
  BY <1>1, <1>2 DEF LockTypeOK
<1>4. ASSUME NEW q \in Process
      PROVE  /\ pc'[q] \in {"idle", "next", "waiting"} => at'[q] <= Len(Plan[q])
             /\ \A l \in held'[q] : \E i \in 1 .. Len(Plan[q]) : i < at'[q] /\ Plan[q][i] = l
  <2>1. CASE q # p
    BY <1>3, <1>4, <2>1 DEF InPlan
  <2>2. CASE q = p
    <3>1. pc'[p] \in {"idle", "next", "waiting"} => at'[p] <= Len(Plan[p])
      BY <1>2, <1>3
    <3>2. ASSUME NEW l \in held'[p]
          PROVE  \E i \in 1 .. Len(Plan[p]) : i < at'[p] /\ Plan[p][i] = l
      <4>1. CASE l = Wanted(p)
        BY <1>2, <1>3, <4>1 DEF Wanted
      <4>2. CASE l \in held[p]
        <5>1. PICK i \in 1 .. Len(Plan[p]) : i < at[p] /\ Plan[p][i] = l
          BY <4>2 DEF InPlan
        <5>2. i < at'[p]
          BY <1>2, <1>3, <5>1
        <5> QED BY <5>1, <5>2
      <4> QED BY <3>2, <4>1, <4>2
    <3> QED BY <2>2, <3>1, <3>2
  <2> QED BY <2>1, <2>2
<1>5. InPlan'
  BY <1>4 DEF InPlan
<1>6. \A q \in Process : pc'[q] = "waiting" => q # p /\ pc[q] = "waiting" /\ at'[q] = at[q]
  BY <1>3
<1> QED BY <1>3, <1>5, <1>6

(* fifoLock: a lock that is free is taken, another is waited for.          *)
LEMMA LockOrWaitKeeps ==
  ASSUME LockInv, NEW p \in Process, LockOrWait(p)
  PROVE  LockInv'
<1> DEFINE l == Wanted(p)
           F == AfterBulk(p)
           I == BulkIds(p)
           H == BulkHeld(p)
           K == BulkKept(p)
           id == F[l].queueCounter + 1
           f == [F[l] EXCEPT !.queueCounter = F[l].queueCounter + 1]
<1>1. LockTypeOK /\ InPlan /\ Owns(fifo, ids, held, kept) /\ WaitersNumbered
  BY DEF LockInv
<1>2. pc[p] \in {"idle", "next", "waiting"}
  BY DEF LockOrWait
<1>3. l \in Lock /\ l \notin held[p]
  BY <1>1, <1>2, WantedFresh
<1>4. /\ F \in [Lock -> Fifo] /\ I \in [Process -> [Lock -> Nat]]
      /\ H \in [Process -> SUBSET Lock] /\ K \in [Process -> SUBSET Lock]
      /\ H[p] \subseteq held[p] /\ Owns(F, I, H, K)
  BY <1>1, BulkKeeps
<1>5. /\ I = [ids EXCEPT ![p] = IdsAfterBulk(p)] /\ I[p] = IdsAfterBulk(p)
      /\ H = [held EXCEPT ![p] = HeldAfterBulk(p)] /\ H[p] = HeldAfterBulk(p)
      /\ K = [kept EXCEPT ![p] = KeptAfterBulk(p)] /\ K[p] = KeptAfterBulk(p)
  BY <1>1 DEF BulkIds, BulkHeld, BulkKept, LockTypeOK
<1>6. /\ f \in Fifo /\ id \in Nat \ {0} /\ F[l].queueCounter <= id
      /\ f.queueCounter = id /\ f.queueLocked = F[l].queueLocked /\ f.lockOwner = F[l].lockOwner
      /\ f.waitingList = F[l].waitingList /\ f.waitingList \in Seq(Nat)
  <2>1. F[l] \in Fifo
    BY <1>3, <1>4
  <2>2. /\ F[l].queueCounter \in Nat /\ F[l].lockOwner \in Nat
        /\ F[l].waitingList \in Seq(Nat)
    BY <2>1 DEF Fifo
  <2> HIDE DEF F, l
  <2>3. f \in Fifo
    BY <2>1, <2>2 DEF Fifo
  <2>4. /\ f.queueCounter = id /\ f.lockOwner = F[l].lockOwner
        /\ f.queueLocked = F[l].queueLocked /\ f.waitingList = F[l].waitingList
    BY <2>1 DEF Fifo
  <2> QED BY <2>2, <2>3, <2>4
<1>7. \A q \in Process \ {p} : I[q][l] # id
  <2>1. TAKE q \in Process \ {p}
  <2>2. I[q][l] <= F[l].queueCounter /\ I[q][l] \in Nat /\ F[l].queueCounter \in Nat
    BY <1>3, <1>4 DEF Owns, Fifo
  <2> QED BY <2>2
<1>8. ids' = [I EXCEPT ![p] = [I[p] EXCEPT ![l] = id]]
  <2>1. ids' = [ids EXCEPT ![p] = [IdsAfterBulk(p) EXCEPT ![l] = f.queueCounter]]
    BY DEF LockOrWait
  <2> HIDE DEF F, I, H, K, l, id, f
  <2> QED BY <1>1, <1>5, <1>6, <2>1 DEF LockTypeOK
<1>9. ids' \in [Process -> [Lock -> Nat]] /\ ids'[p][l] = id
      /\ \A q \in Process \ {p} : ids'[q] = ids[q]
  <2> HIDE DEF F, I, H, K, l, id, f
  <2>1. \A q \in Process \ {p} : I[q] = ids[q]
    BY <1>1, <1>5 DEF LockTypeOK
  <2> QED BY <1>3, <1>4, <1>6, <1>8, <2>1
<1>10. CASE F[l].waitingList # <<>> \/ F[l].queueLocked
  <2> DEFINE g == [f EXCEPT !.waitingList = Append(f.waitingList, id)]
  <2>1. /\ fifo' = [F EXCEPT ![l] = g]
        /\ held' = [held EXCEPT ![p] = HeldAfterBulk(p)]
        /\ kept' = [kept EXCEPT ![p] = KeptAfterBulk(p)]
        /\ pc' = [pc EXCEPT ![p] = "waiting"]
        /\ at' = at
    BY <1>6, <1>10 DEF LockOrWait
  <2>2. /\ g \in Fifo /\ g.queueCounter = id
        /\ g.queueLocked = F[l].queueLocked /\ g.lockOwner = F[l].lockOwner
    <3>1. Append(f.waitingList, id) \in Seq(Nat)
      BY <1>6
    <3> HIDE DEF F, l, id, f
    <3> QED BY <1>6, <3>1 DEF Fifo
  <2> HIDE DEF F, I, H, K, l, id, f, g
  <2>3. held' = H /\ kept' = K
    BY <1>5, <2>1
  <2>4. Owns(fifo', ids', held', kept')
    <3>1. l \notin H[p]
      BY <1>3, <1>4
    <3>2. F[l].queueCounter <= g.queueCounter /\ id <= g.queueCounter
      BY <1>6, <2>2
    <3>3. Owns([F EXCEPT ![l] = g], [I EXCEPT ![p] = [I[p] EXCEPT ![l] = id]], H, K)
      BY <1>3, <1>4, <1>6, <1>7, <2>2, <3>1, <3>2, NumberKeeps
    <3> QED BY <1>8, <2>1, <2>3, <3>3
  <2>5. LockTypeOK'
    BY <1>1, <1>3, <1>4, <1>9, <2>1, <2>2, <2>3 DEF LockTypeOK
  <2>6. pc'[p] = "waiting" /\ \A q \in Process \ {p} : pc'[q] = pc[q] /\ held'[q] = held[q]
    BY <1>1, <2>1 DEF LockTypeOK
  <2>7. InPlan'
    <3>1. ASSUME NEW q \in Process
          PROVE  /\ pc'[q] \in {"idle", "next", "waiting"} => at[q] <= Len(Plan[q])
                 /\ \A m \in held'[q] : \E i \in 1 .. Len(Plan[q]) : i < at[q] /\ Plan[q][i] = m
      BY <1>1, <1>2, <1>4, <2>3, <2>6 DEF InPlan
    <3> QED BY <2>1, <3>1 DEF InPlan
  <2>8. WaitersNumbered'
    <3>1. ASSUME NEW q \in Process, pc'[q] = "waiting"
          PROVE  ids'[q][Wanted(q)'] # 0
      <4>1. Wanted(q)' = Wanted(q)
        BY <2>1 DEF Wanted
      <4> QED BY <1>1, <1>6, <1>9, <2>6, <3>1, <4>1 DEF WaitersNumbered, l
    <3> QED BY <3>1 DEF WaitersNumbered
  <2> QED BY <2>4, <2>5, <2>7, <2>8 DEF LockInv
<1>11. CASE ~(F[l].waitingList # <<>> \/ F[l].queueLocked)
  <2> DEFINE g == Taken(f, id)
  <2>1. /\ fifo' = [F EXCEPT ![l] = g]
        /\ held' = [held EXCEPT ![p] = HeldAfterBulk(p) \cup {l}]
        /\ kept' = [kept EXCEPT ![p] = KeptAfterBulk(p) \cup {l}]
        /\ Advance(p)
    BY <1>6, <1>11 DEF LockOrWait
  <2>2. g \in Fifo /\ g.queueCounter = id /\ g.queueLocked /\ g.lockOwner = id
    <3> HIDE DEF F, l, id, f
    <3> QED BY <1>6 DEF Taken, Fifo
  <2> HIDE DEF F, I, H, K, l, id, f, g
  <2>3. /\ held' = [H EXCEPT ![p] = H[p] \cup {l}]
        /\ kept' = [K EXCEPT ![p] = K[p] \cup {l}]
    BY <1>1, <1>5, <2>1 DEF LockTypeOK
  <2>4. ~F[l].queueLocked
    BY <1>11
  <2>5. Owns(fifo', ids', held', kept')
    <3>1. l \notin H[p]
      BY <1>3, <1>4
    <3>2. F[l].queueCounter <= g.queueCounter /\ id <= g.queueCounter
      BY <1>6, <2>2
    <3>3. Owns([F EXCEPT ![l] = g], [I EXCEPT ![p] = [I[p] EXCEPT ![l] = id]],
               [H EXCEPT ![p] = H[p] \cup {l}], [K EXCEPT ![p] = K[p] \cup {l}])
      BY <1>3, <1>4, <1>6, <1>7, <2>2, <2>4, <3>1, <3>2, NumberKeeps
    <3> QED BY <1>8, <2>1, <2>3, <3>3
  <2>6. /\ held' \in [Process -> SUBSET Lock] /\ kept' \in [Process -> SUBSET Lock]
        /\ \A q \in Process \ {p} : held'[q] = held[q]
        /\ held'[p] \subseteq held[p] \cup {l}
    BY <1>1, <1>3, <1>4, <1>5, <2>3 DEF LockTypeOK
  <2>7. /\ InPlan'
        /\ pc' \in [Process -> {"idle", "next", "waiting", "working", "done"}]
        /\ at' \in [Process -> Nat \ {0}]
        /\ \A q \in Process : pc'[q] = "waiting" => q # p /\ pc[q] = "waiting" /\ at'[q] = at[q]
    BY <1>1, <1>2, <2>1, <2>6, AdvanceInPlan DEF l
  <2>8. LockTypeOK'
    BY <1>1, <1>3, <1>4, <1>9, <2>1, <2>2, <2>6, <2>7 DEF LockTypeOK
  <2>9. WaitersNumbered'
    <3>1. ASSUME NEW q \in Process, pc'[q] = "waiting"
          PROVE  ids'[q][Wanted(q)'] # 0
      <4>1. q # p /\ pc[q] = "waiting" /\ Wanted(q)' = Wanted(q)
        BY <2>7, <3>1 DEF Wanted
      <4> QED BY <1>1, <1>9, <4>1 DEF WaitersNumbered
    <3> QED BY <3>1 DEF WaitersNumbered
  <2> QED BY <2>5, <2>7, <2>8, <2>9 DEF LockInv
<1> QED BY <1>10, <1>11

(* fifoLock: who is first in line takes the lock by the number it has.     *)
LEMMA ServedKeeps ==
  ASSUME LockInv, NEW p \in Process, Served(p)
  PROVE  LockInv'
<1> DEFINE l == Wanted(p)
           id == ids[p][l]
           g == Taken([fifo[l] EXCEPT !.waitingList = Shifted(fifo[l].waitingList)], id)
<1>1. LockTypeOK /\ InPlan /\ Owns(fifo, ids, held, kept) /\ WaitersNumbered
  BY DEF LockInv
<1>2. pc[p] = "waiting"
  BY DEF Served
<1>3. l \in Lock /\ l \notin held[p]
  BY <1>1, <1>2, WantedFresh
<1>4. /\ fifo' = [fifo EXCEPT ![l] = g]
      /\ held' = [held EXCEPT ![p] = held[p] \cup {l}]
      /\ kept' = [kept EXCEPT ![p] = kept[p] \cup {l}]
      /\ Advance(p) /\ ids' = ids
      /\ ~fifo[l].queueLocked
  BY DEF Served, MayTake
<1>5. fifo[l] \in Fifo /\ fifo[l].waitingList \in Seq(Nat)
  BY <1>1, <1>3 DEF LockTypeOK, Fifo
<1>6. Shifted(fifo[l].waitingList) \in Seq(Nat)
  BY <1>5 DEF Shifted
<1>7. id \in Nat \ {0} /\ id <= fifo[l].queueCounter
      /\ \A q \in Process \ {p} : ids[q][l] # id
  BY <1>1, <1>2, <1>3 DEF LockTypeOK, Owns, WaitersNumbered
<1>8. g \in Fifo /\ g.queueCounter = fifo[l].queueCounter /\ g.queueLocked /\ g.lockOwner = id
  <2> HIDE DEF l, id
  <2> QED BY <1>5, <1>6, <1>7 DEF Taken, Fifo
<1>9. fifo[l].queueCounter \in Nat
  BY <1>5 DEF Fifo
<1>10. ids = [ids EXCEPT ![p] = [ids[p] EXCEPT ![l] = id]]
  BY <1>1, <1>3 DEF LockTypeOK
<1> HIDE DEF l, id, g
<1>11. Owns(fifo', ids', held', kept')
  <2>1. /\ fifo \in [Lock -> Fifo] /\ ids \in [Process -> [Lock -> Nat]]
        /\ held \in [Process -> SUBSET Lock] /\ kept \in [Process -> SUBSET Lock]
    BY <1>1 DEF LockTypeOK
  <2>2. fifo[l].queueCounter <= g.queueCounter /\ id <= g.queueCounter
    BY <1>7, <1>8, <1>9
  <2>3. Owns([fifo EXCEPT ![l] = g], [ids EXCEPT ![p] = [ids[p] EXCEPT ![l] = id]],
             [held EXCEPT ![p] = held[p] \cup {l}], [kept EXCEPT ![p] = kept[p] \cup {l}])
    BY <1>1, <1>3, <1>4, <1>7, <1>8, <2>1, <2>2, NumberKeeps
  <2> QED BY <1>4, <1>10, <2>3
<1>12. /\ held' \in [Process -> SUBSET Lock] /\ kept' \in [Process -> SUBSET Lock]
       /\ \A q \in Process \ {p} : held'[q] = held[q]
       /\ held'[p] \subseteq held[p] \cup {l}
  BY <1>1, <1>3, <1>4 DEF LockTypeOK
<1>13. /\ InPlan'
       /\ pc' \in [Process -> {"idle", "next", "waiting", "working", "done"}]
       /\ at' \in [Process -> Nat \ {0}]
       /\ \A q \in Process : pc'[q] = "waiting" => q # p /\ pc[q] = "waiting" /\ at'[q] = at[q]
  BY <1>1, <1>2, <1>4, <1>12, AdvanceInPlan DEF l
<1>14. LockTypeOK'
  BY <1>1, <1>3, <1>4, <1>8, <1>12, <1>13 DEF LockTypeOK
<1>15. WaitersNumbered'
  BY <1>1, <1>4, <1>13 DEF WaitersNumbered, Wanted
<1> QED BY <1>11, <1>13, <1>14, <1>15 DEF LockInv

(* bulkFifoUnlockAccounts: a lock that now belongs to another stays its.   *)
LEMMA UnlockAllKeeps ==
  ASSUME LockInv, NEW p \in Process, UnlockAll(p)
  PROVE  LockInv'
<1>1. LockTypeOK /\ InPlan /\ Owns(fifo, ids, held, kept) /\ WaitersNumbered
  BY DEF LockInv
<1>2. /\ fifo' = [l \in Lock |-> IF l \in held[p] THEN Unlocked(fifo[l], ids[p][l]) ELSE fifo[l]]
      /\ ids' = [ids EXCEPT ![p] = [l \in Lock |-> 0]]
      /\ held' = [held EXCEPT ![p] = {}]
      /\ kept' = [kept EXCEPT ![p] = {}]
      /\ pc' = [pc EXCEPT ![p] = "done"]
      /\ at' = at
  BY DEF UnlockAll
<1>3. \A l \in Lock :
        /\ fifo'[l] \in Fifo
        /\ fifo'[l].queueCounter = fifo[l].queueCounter
        /\ fifo'[l].lockOwner = fifo[l].lockOwner
        /\ fifo[l].queueLocked /\ (l \in held[p] => fifo[l].lockOwner # ids[p][l])
             => fifo'[l].queueLocked
  <2>1. TAKE l \in Lock
  <2>2. fifo[l] \in Fifo
    BY <1>1 DEF LockTypeOK
  <2>3. fifo'[l] = IF l \in held[p] THEN Unlocked(fifo[l], ids[p][l]) ELSE fifo[l]
    BY <1>2
  <2>4. CASE l \in held[p]
    BY <2>2, <2>3, <2>4, UnlockedFields
  <2>5. CASE l \notin held[p]
    BY <2>2, <2>3, <2>5
  <2> QED BY <2>4, <2>5
<1>4. LockTypeOK'
  <2>1. fifo' \in [Lock -> Fifo]
    BY <1>2, <1>3
  <2>2. /\ ids' \in [Process -> [Lock -> Nat]]
        /\ pc' \in [Process -> {"idle", "next", "waiting", "working", "done"}]
        /\ at' \in [Process -> Nat \ {0}]
        /\ held' \in [Process -> SUBSET Lock] /\ kept' \in [Process -> SUBSET Lock]
    BY <1>1, <1>2 DEF LockTypeOK
  <2> QED BY <2>1, <2>2 DEF LockTypeOK
<1>5. /\ pc'[p] = "done" /\ held'[p] = {} /\ kept'[p] = {}
      /\ \A l \in Lock : ids'[p][l] = 0
      /\ \A q \in Process \ {p} :
           pc'[q] = pc[q] /\ held'[q] = held[q] /\ kept'[q] = kept[q] /\ ids'[q] = ids[q]
  BY <1>1, <1>2 DEF LockTypeOK
<1>6. InPlan'
  <2>1. ASSUME NEW q \in Process
        PROVE  /\ pc'[q] \in {"idle", "next", "waiting"} => at[q] <= Len(Plan[q])
               /\ \A l \in held'[q] : \E i \in 1 .. Len(Plan[q]) : i < at[q] /\ Plan[q][i] = l
    BY <1>1, <1>5 DEF InPlan
  <2> QED BY <1>2, <2>1 DEF InPlan
<1>7. Owns(fifo', ids', held', kept')
  <2>1. ASSUME NEW q \in Process, NEW l \in Lock
        PROVE  ids'[q][l] <= fifo'[l].queueCounter
    <3>1. fifo[l].queueCounter \in Nat /\ ids[q][l] <= fifo[l].queueCounter
      BY <1>1 DEF LockTypeOK, Fifo, Owns
    <3> QED BY <1>3, <1>5, <3>1
  <2>2. \A q, r \in Process, l \in Lock : q # r /\ ids'[q][l] # 0 => ids'[q][l] # ids'[r][l]
    BY <1>1, <1>5 DEF Owns
  <2>3. \A q \in Process : kept'[q] \subseteq held'[q]
    BY <1>1, <1>5 DEF Owns
  <2>4. \A q \in Process, l \in Lock : l \in held'[q] => ids'[q][l] # 0
    BY <1>1, <1>5 DEF Owns
  <2>5. ASSUME NEW q \in Process, NEW l \in Lock, l \in kept'[q]
        PROVE  fifo'[l].queueLocked /\ fifo'[l].lockOwner = ids'[q][l]
    <3>1. q # p /\ l \in kept[q] /\ l \in held[q]
      BY <1>1, <1>5, <2>5 DEF Owns
    <3>2. fifo[l].queueLocked /\ fifo[l].lockOwner = ids[q][l] /\ ids[q][l] # ids[p][l]
      BY <1>1, <3>1 DEF Owns
    <3> QED BY <1>3, <1>5, <3>1, <3>2
  <2> QED BY <2>1, <2>2, <2>3, <2>4, <2>5 DEF Owns
<1>8. WaitersNumbered'
  <2>1. ASSUME NEW q \in Process, pc'[q] = "waiting"
        PROVE  ids'[q][Wanted(q)'] # 0
    <3>1. q # p /\ Wanted(q)' = Wanted(q)
      BY <1>2, <1>5, <2>1 DEF Wanted
    <3> QED BY <1>1, <1>5, <2>1, <3>1 DEF WaitersNumbered
  <2> QED BY <2>1 DEF WaitersNumbered
<1> QED BY <1>4, <1>6, <1>7, <1>8 DEF LockInv

(* forceUnlockAllFifoLocks: nobody is left who kept a lock.                *)
LEMMA ForceUnlockAllKeeps ==
  ASSUME LockInv, ForceUnlockAll
  PROVE  LockInv'
<1>1. LockTypeOK /\ InPlan /\ Owns(fifo, ids, held, kept) /\ WaitersNumbered
  BY DEF LockInv
<1>2. /\ fifo' = [l \in Lock |->
           IF fifo[l].queueLocked THEN [fifo[l] EXCEPT !.queueLocked = FALSE, !.waitingList = <<>>]
           ELSE fifo[l]]
      /\ kept' = [p \in Process |-> {}]
      /\ ids' = ids /\ pc' = pc /\ at' = at /\ held' = held
  BY DEF ForceUnlockAll
<1>3. \A l \in Lock : fifo'[l] \in Fifo /\ fifo'[l].queueCounter = fifo[l].queueCounter
  <2>1. TAKE l \in Lock
  <2>2. fifo[l] \in Fifo
    BY <1>1 DEF LockTypeOK
  <2>3. <<>> \in Seq(Nat)
    OBVIOUS
  <2> QED BY <1>2, <2>2, <2>3 DEF Fifo
<1>4. LockTypeOK'
  BY <1>1, <1>2, <1>3 DEF LockTypeOK
<1>5. Owns(fifo', ids', held', kept')
  <2>1. \A p \in Process, l \in Lock : ids'[p][l] <= fifo'[l].queueCounter
    <3>1. TAKE p \in Process, l \in Lock
    <3>2. ids[p][l] <= fifo[l].queueCounter
      BY <1>1 DEF Owns
    <3>3. ids'[p][l] = ids[p][l] /\ fifo'[l].queueCounter = fifo[l].queueCounter
      BY <1>2, <1>3
    <3> QED BY <3>2, <3>3
  <2>2. \A p \in Process : kept'[p] = {}
    BY <1>2
  <2>3. /\ \A p, q \in Process, l \in Lock : p # q /\ ids'[p][l] # 0 => ids'[p][l] # ids'[q][l]
        /\ \A p \in Process, l \in Lock : l \in held'[p] => ids'[p][l] # 0
    <3>1. ids' = ids /\ held' = held
      BY <1>2
    <3>2. /\ \A p, q \in Process, l \in Lock : p # q /\ ids[p][l] # 0 => ids[p][l] # ids[q][l]
          /\ \A p \in Process, l \in Lock : l \in held[p] => ids[p][l] # 0
      BY <1>1 DEF Owns
    <3> QED BY <3>1, <3>2
  <2> QED BY <2>1, <2>2, <2>3 DEF Owns
<1>6. InPlan' /\ WaitersNumbered'
  BY <1>1, <1>2 DEF InPlan, WaitersNumbered, Wanted
<1> QED BY <1>4, <1>5, <1>6 DEF LockInv

(* clearStaleFifoLocks: a lock that nobody has a number of.                *)
LEMMA ClearStaleKeeps ==
  ASSUME LockInv, NEW l \in Lock, ClearStale(l)
  PROVE  LockInv'
<1>1. LockTypeOK /\ InPlan /\ Owns(fifo, ids, held, kept) /\ WaitersNumbered
  BY DEF LockInv
<1>2. /\ fifo' = [fifo EXCEPT ![l] = NewFifo]
      /\ \A p \in Process : ids[p][l] = 0
      /\ ids' = ids /\ pc' = pc /\ at' = at /\ held' = held /\ kept' = kept
  BY DEF ClearStale
<1>3. NewFifo \in Fifo /\ NewFifo.queueCounter = 0
  <2>1. <<>> \in Seq(Nat)
    OBVIOUS
  <2> QED BY <2>1 DEF NewFifo, Fifo
<1> HIDE DEF NewFifo
<1>4. LockTypeOK'
  BY <1>1, <1>2, <1>3 DEF LockTypeOK
<1>5. \A m \in Lock : fifo'[m] = IF m = l THEN NewFifo ELSE fifo[m]
  BY <1>1, <1>2 DEF LockTypeOK
<1>6. Owns(fifo', ids', held', kept')
  <2>1. \A p \in Process, m \in Lock : ids[p][m] <= fifo'[m].queueCounter
    BY <1>1, <1>2, <1>3, <1>5 DEF Owns
  <2>2. ASSUME NEW p \in Process, NEW m \in Lock, m \in kept[p]
        PROVE  fifo'[m].queueLocked /\ fifo'[m].lockOwner = ids[p][m]
    <3>1. m # l
      BY <1>1, <1>2, <2>2 DEF Owns
    <3> QED BY <1>1, <1>5, <2>2, <3>1 DEF Owns
  <2> QED BY <1>1, <1>2, <2>1, <2>2 DEF Owns
<1>7. InPlan' /\ WaitersNumbered'
  BY <1>1, <1>2 DEF InPlan, WaitersNumbered, Wanted
<1> QED BY <1>4, <1>6, <1>7 DEF LockInv
-----------------------------------------------------------------------------
(* The invariant holds at the start, and every step keeps it.              *)
LEMMA LockInvInit == LockInit => LockInv
<1> SUFFICES ASSUME LockInit PROVE LockInv
  OBVIOUS
<1>1. NewFifo \in Fifo /\ NewFifo.queueCounter = 0
  <2>1. <<>> \in Seq(Nat)
    OBVIOUS
  <2> QED BY <2>1 DEF NewFifo, Fifo
<1> HIDE DEF NewFifo
<1>2. LockTypeOK
  BY <1>1 DEF LockInit, LockTypeOK
<1>3. InPlan
  <2>1. \A p \in Process : Len(Plan[p]) \in Nat /\ Len(Plan[p]) > 0
    BY PlanAssumption
  <2> QED BY <2>1 DEF LockInit, InPlan
<1>4. Owns(fifo, ids, held, kept)
  BY <1>1 DEF LockInit, Owns
<1>5. WaitersNumbered
  BY DEF LockInit, WaitersNumbered
<1> QED BY <1>2, <1>3, <1>4, <1>5 DEF LockInv

LEMMA LockInvStep == LockInv /\ [LockNext]_lockVars => LockInv'
<1> SUFFICES ASSUME LockInv, [LockNext]_lockVars PROVE LockInv'
  OBVIOUS
<1>1. ASSUME NEW p \in Process, LockOrWait(p) PROVE LockInv'
  BY <1>1, LockOrWaitKeeps
<1>2. ASSUME NEW p \in Process, Served(p) PROVE LockInv'
  BY <1>2, ServedKeeps
<1>3. ASSUME NEW p \in Process, UnlockAll(p) PROVE LockInv'
  BY <1>3, UnlockAllKeeps
<1>4. ASSUME NEW p \in Process, ApplyTimeout(p) PROVE LockInv'
  BY <1>4, ForceUnlockAllKeeps DEF ApplyTimeout
<1>5. ASSUME NEW l \in Lock, ClearStale(l) PROVE LockInv'
  BY <1>5, ClearStaleKeeps
<1>6. CASE ClearSyncData
  BY <1>6, ForceUnlockAllKeeps DEF ClearSyncData
<1>7. CASE UNCHANGED lockVars
  <2>1. fifo' = fifo /\ ids' = ids /\ pc' = pc /\ at' = at /\ held' = held /\ kept' = kept
    BY <1>7 DEF lockVars
  <2>2. LockTypeOK' /\ InPlan'
    BY <2>1 DEF LockInv, LockTypeOK, InPlan
  <2>3. Owns(fifo, ids, held, kept)' /\ WaitersNumbered'
    BY <2>1 DEF LockInv, Owns, WaitersNumbered, Wanted
  <2> QED
    BY <2>2, <2>3 DEF LockInv
<1> QED BY <1>1, <1>2, <1>3, <1>4, <1>5, <1>6, <1>7 DEF LockNext

(* Two that kept the same lock would both own it by their own number.      *)
LEMMA OwnersExclusive == LockInv => Exclusive
<1> SUFFICES ASSUME LockInv, NEW p \in Process, NEW q \in Process, p # q,
                    NEW l \in kept[p] \cap kept[q]
             PROVE  FALSE
  BY DEF Exclusive
<1>1. l \in Lock /\ l \in held[p]
  BY DEF LockInv, LockTypeOK, Owns
<1>2. ids[p][l] # 0 /\ ids[p][l] = fifo[l].lockOwner /\ ids[q][l] = fifo[l].lockOwner
  BY <1>1 DEF LockInv, Owns
<1> QED BY <1>1, <1>2 DEF LockInv, Owns

(* For any number of page requests, transactions and locks, however often  *)
(* all locks are freed: two never work under the same lock, except for     *)
(* those that lost it to a forced unlock (fifoLock, fifoUnlock,            *)
(* forceUnlockAllFifoLocks).                                               *)
THEOREM LockSafety == LockSpec => []Exclusive
<1>1. LockSpec => []LockInv
  BY LockInvInit, LockInvStep, PTL DEF LockSpec
<1> QED BY <1>1, OwnersExclusive, PTL
-----------------------------------------------------------------------------
(* R is a strict order of all that S has.                                  *)
Orders(R, S) ==
  /\ \A x \in S : <<x, x>> \notin R
  /\ \A x, y, z \in S : <<x, y>> \in R /\ <<y, z>> \in R => <<x, z>> \in R
  /\ \A x, y \in S : x = y \/ <<x, y>> \in R \/ <<y, x>> \in R
Preceding(R, S, x) == {y \in S : <<y, x>> \in R}
Leading(R, S, n) == {x \in S : Cardinality(Preceding(R, S, x)) < n}

LEMMA LeastNumber ==
  ASSUME NEW T \in SUBSET Nat, T # {}
  PROVE  \E x \in T : \A y \in T : x <= y
<1> DEFINE R == {ss \in Nat \X Nat : ss[1] < ss[2]}
<1>1. \A x, y \in Nat : x < y => <<x, y>> \in R
  OBVIOUS
<1>2. IsWellFoundedOn(R, Nat)
  BY NatLessThanWellFounded, Zenon DEF OpToRel
<1> HIDE DEF R
<1>3. PICK x \in T : \A y \in T : ~(<<y, x>> \in R)
  BY <1>2, WFMin
<1>4. ASSUME NEW y \in T PROVE x <= y
  <2>1. x \in Nat /\ y \in Nat /\ ~(y < x)
    BY <1>1, <1>3
  <2> QED
    BY <2>1
<1> QED
  BY <1>4

LEMMA PrecedingFinite ==
  ASSUME NEW R, NEW S, IsFiniteSet(S), NEW x
  PROVE  /\ IsFiniteSet(Preceding(R, S, x)) /\ Cardinality(Preceding(R, S, x)) \in Nat
         /\ Cardinality(S) \in Nat /\ Cardinality(Preceding(R, S, x)) <= Cardinality(S)
<1>1. Preceding(R, S, x) \in SUBSET S
  BY DEF Preceding
<1> QED
  BY <1>1, FS_Subset, FS_CardinalityType

(* Of two elements the earlier has fewer before it.                        *)
LEMMA PrecedingGrows ==
  ASSUME NEW R, NEW S, IsFiniteSet(S), Orders(R, S), NEW x \in S, NEW y \in S, <<x, y>> \in R
  PROVE  Cardinality(Preceding(R, S, x)) < Cardinality(Preceding(R, S, y))
<1> DEFINE P == Preceding(R, S, x)
<1>1. P \cup {x} \in SUBSET Preceding(R, S, y) /\ x \notin P
  BY DEF Preceding, Orders
<1>2. IsFiniteSet(P) /\ Cardinality(P) \in Nat
  BY PrecedingFinite
<1>3. IsFiniteSet(P \cup {x}) /\ Cardinality(P \cup {x}) = Cardinality(P) + 1
  <2> HIDE DEF P
  <2> QED
    BY <1>1, <1>2, FS_AddElement
<1>4. IsFiniteSet(Preceding(R, S, y)) /\ Cardinality(Preceding(R, S, y)) \in Nat
  BY PrecedingFinite
<1>5. Cardinality(P \cup {x}) <= Cardinality(Preceding(R, S, y))
  <2> HIDE DEF P
  <2> QED
    BY <1>1, <1>4, FS_Subset
<1> HIDE DEF P
<1> QED
  BY <1>2, <1>3, <1>4, <1>5 DEF P

LEMMA FirstExists ==
  ASSUME NEW R, NEW S, IsFiniteSet(S), Orders(R, S), NEW T \in SUBSET S, T # {}
  PROVE  \E x \in T : \A y \in T : <<y, x>> \notin R
<1> DEFINE U == {Cardinality(Preceding(R, S, x)) : x \in T}
<1>1. U \in SUBSET Nat /\ U # {}
  BY PrecedingFinite
<1>2. PICK k \in U : \A l \in U : k <= l
  <2> HIDE DEF U
  <2> QED
    BY <1>1, LeastNumber
<1>3. PICK x \in T : k = Cardinality(Preceding(R, S, x))
  OBVIOUS
<1>4. ASSUME NEW y \in T, <<y, x>> \in R PROVE FALSE
  <2>1. Cardinality(Preceding(R, S, y)) < k
    BY <1>3, <1>4, PrecedingGrows
  <2>2. k <= Cardinality(Preceding(R, S, y)) /\ k \in Nat /\ Cardinality(Preceding(R, S, y)) \in Nat
    BY <1>1, <1>2
  <2> QED
    BY <2>1, <2>2
<1> QED
  BY <1>4

LEMMA LastExists ==
  ASSUME NEW R, NEW S, IsFiniteSet(S), Orders(R, S), NEW T \in SUBSET S, T # {}
  PROVE  \E x \in T : \A y \in T \ {x} : <<y, x>> \in R
<1> DEFINE Q == {<<p[2], p[1]>> : p \in R \cap (S \X S)}
<1>1. \A x, y \in S : <<x, y>> \in Q <=> <<y, x>> \in R
  OBVIOUS
<1> HIDE DEF Q
<1>2. Orders(Q, S)
  BY <1>1 DEF Orders
<1>3. PICK x \in T : \A y \in T : <<y, x>> \notin Q
  BY <1>2, FirstExists
<1>4. \A y \in T \ {x} : <<y, x>> \in R
  BY <1>1, <1>3 DEF Orders
<1> QED
  BY <1>4

(* The first n: with an element they have all before it; they are n,       *)
(* unless they are all.                                                    *)
LEMMA LeadingClosed ==
  ASSUME NEW R, NEW S, IsFiniteSet(S), Orders(R, S), NEW n \in Nat,
         NEW x \in Leading(R, S, n), NEW y \in S, <<y, x>> \in R
  PROVE  y \in Leading(R, S, n)
<1>1. x \in S /\ Cardinality(Preceding(R, S, x)) < n
  BY DEF Leading
<1>2. Cardinality(Preceding(R, S, y)) < Cardinality(Preceding(R, S, x))
  BY <1>1, PrecedingGrows
<1>3. Cardinality(Preceding(R, S, y)) \in Nat /\ Cardinality(Preceding(R, S, x)) \in Nat
  BY PrecedingFinite
<1> QED
  BY <1>1, <1>2, <1>3 DEF Leading

LEMMA LeadingNonEmpty ==
  ASSUME NEW R, NEW S, IsFiniteSet(S), Orders(R, S), NEW n \in Nat \ {0}, S # {}
  PROVE  Leading(R, S, n) # {}
<1>1. PICK x \in S : \A y \in S : <<y, x>> \notin R
  BY FirstExists
<1>2. Preceding(R, S, x) = {}
  BY <1>1 DEF Preceding
<1>3. Cardinality(Preceding(R, S, x)) = 0
  BY <1>2, FS_EmptySet
<1> QED
  BY <1>3 DEF Leading

(* With its last element z, all of Leading that is not z is before z.      *)
LEMMA UpToLast ==
  ASSUME NEW R, NEW S, IsFiniteSet(S), Orders(R, S), NEW n \in Nat,
         NEW z \in Leading(R, S, n), \A y \in Leading(R, S, n) \ {z} : <<y, z>> \in R
  PROVE  /\ Leading(R, S, n) = Preceding(R, S, z) \cup {z}
         /\ IsFiniteSet(Leading(R, S, n))
         /\ Cardinality(Leading(R, S, n)) = Cardinality(Preceding(R, S, z)) + 1
         /\ Cardinality(Leading(R, S, n)) <= n
<1>1. z \in S /\ Cardinality(Preceding(R, S, z)) < n /\ z \notin Preceding(R, S, z)
  BY DEF Leading, Preceding, Orders
<1>2. Leading(R, S, n) \subseteq Preceding(R, S, z) \cup {z}
  BY DEF Leading, Preceding
<1>3. Preceding(R, S, z) \subseteq Leading(R, S, n)
  <2> SUFFICES ASSUME NEW y \in S, <<y, z>> \in R PROVE y \in Leading(R, S, n)
    BY DEF Preceding
  <2> QED
    BY LeadingClosed
<1>4. Leading(R, S, n) = Preceding(R, S, z) \cup {z}
  BY <1>2, <1>3
<1>5. IsFiniteSet(Preceding(R, S, z)) /\ Cardinality(Preceding(R, S, z)) \in Nat
  BY PrecedingFinite
<1>6. /\ IsFiniteSet(Preceding(R, S, z) \cup {z})
      /\ Cardinality(Preceding(R, S, z) \cup {z}) = Cardinality(Preceding(R, S, z)) + 1
  BY <1>1, <1>5, FS_AddElement
<1> QED
  BY <1>1, <1>4, <1>5, <1>6

LEMMA LeadingAll ==
  ASSUME NEW R, NEW S, IsFiniteSet(S), Orders(R, S), NEW n \in Nat \ {0},
         Cardinality(Leading(R, S, n)) # n
  PROVE  Leading(R, S, n) = S
<1> DEFINE F == Leading(R, S, n)
<1>1. F \subseteq S
  BY DEF Leading
<1> SUFFICES ASSUME S \ F # {} PROVE FALSE
  BY <1>1
<1>2. PICK c \in S \ F : \A y \in S \ F : <<y, c>> \notin R
  <2>1. S \ F \in SUBSET S
    OBVIOUS
  <2> HIDE DEF F
  <2> QED
    BY <2>1, FirstExists
<1>3. Preceding(R, S, c) \subseteq F
  BY <1>2 DEF Preceding
<1>4. F \subseteq Preceding(R, S, c)
  <2> SUFFICES ASSUME NEW f \in F PROVE <<f, c>> \in R
    BY <1>1 DEF Preceding
  <2>1. <<c, f>> \notin R
    BY <1>2, LeadingClosed
  <2> QED
    BY <1>1, <1>2, <2>1 DEF Orders
<1>5. F = Preceding(R, S, c)
  BY <1>3, <1>4
<1>6. ~(Cardinality(F) < n) /\ Cardinality(F) \in Nat
  BY <1>2, <1>5, PrecedingFinite DEF Leading
<1>7. F # {}
  BY LeadingNonEmpty
<1>8. PICK z \in F : \A y \in F \ {z} : <<y, z>> \in R
  <2> HIDE DEF F
  <2> QED
    BY <1>1, <1>7, LastExists
<1>9. Cardinality(F) <= n
  BY <1>8, UpToLast
<1> QED
  BY <1>6, <1>9

(* As far as there are n, the n-th has n up to it.                         *)
HasNth(R, S, n) == \E z \in S : Cardinality(Preceding(R, S, z) \cup {z}) = n
LEMMA NthExists ==
  ASSUME NEW R, NEW S, IsFiniteSet(S), Orders(R, S), NEW n \in Nat \ {0}, n <= Cardinality(S)
  PROVE  HasNth(R, S, n)
<1> DEFINE F == Leading(R, S, n)
<1>1. Cardinality(S) \in Nat /\ S # {}
  BY FS_CardinalityType, FS_EmptySet
<1>2. F # {} /\ F \in SUBSET S
  BY <1>1, LeadingNonEmpty DEF Leading
<1>3. PICK z \in F : \A y \in F \ {z} : <<y, z>> \in R
  <2> HIDE DEF F
  <2> QED
    BY <1>2, LastExists
<1>4. F = Preceding(R, S, z) \cup {z} /\ Cardinality(F) <= n /\ IsFiniteSet(F)
  BY <1>3, UpToLast
<1>5. Cardinality(F) = n
  <2>1. CASE F = S
    BY <1>1, <1>4, <2>1
  <2>2. CASE F # S
    BY <2>2, LeadingAll
  <2> QED
    BY <2>1, <2>2
<1> HIDE DEF F
<1> QED
  BY <1>2, <1>4, <1>5 DEF HasNth

(* The k-th of a finite set of numbers is in it.                           *)
LEMMA KthExists ==
  ASSUME NEW S \in SUBSET Nat, IsFiniteSet(S), NEW k \in 1 .. Cardinality(S)
  PROVE  Kth(S, k) \in S
<1> DEFINE R == {ss \in Nat \X Nat : ss[1] < ss[2]}
<1>1. \A x, y \in Nat : <<x, y>> \in R <=> x < y
  OBVIOUS
<1> HIDE DEF R
<1>2. Orders(R, S)
  <2>1. \A x, y, z \in Nat : x < y /\ y < z => x < z
    OBVIOUS
  <2>2. \A x, y \in Nat : x = y \/ x < y \/ y < x
    OBVIOUS
  <2> QED
    BY <1>1, <2>1, <2>2 DEF Orders
<1>3. k \in Nat \ {0} /\ k <= Cardinality(S)
  BY FS_CardinalityType
<1>4. PICK z \in S : Cardinality(Preceding(R, S, z) \cup {z}) = k
  <2>1. HasNth(R, S, k)
    BY <1>2, <1>3, NthExists
  <2> QED
    BY <2>1 DEF HasNth
<1>5. \A j : j \in Preceding(R, S, z) \cup {z} <=> j \in S /\ j <= z
  <2>1. \A j \in Nat : j <= z <=> j = z \/ j < z
    OBVIOUS
  <2> QED
    BY <1>1, <2>1 DEF Preceding
<1>6. Preceding(R, S, z) \cup {z} = {j \in S : j <= z}
  <2> DEFINE A == Preceding(R, S, z) \cup {z}
             B == {j \in S : j <= z}
  <2>1. \A j : j \in A <=> j \in B
    BY <1>5
  <2> HIDE DEF A, B
  <2>2. A = B
    BY <2>1
  <2> QED
    BY <2>2 DEF A, B
<1>7. \E i \in S : Cardinality({j \in S : j <= i}) = k
  BY <1>4, <1>6
<1> QED
  BY <1>7 DEF Kth
-----------------------------------------------------------------------------
Tracker ==
  [accounts : SUBSET Account, isGlobal : BOOLEAN, hasNode : BOOLEAN, restarts : Nat,
   finished : BOOLEAN, asOf : Nat]
Page == [startTime : Nat, low : Nat, accountOffset : Nat, asks : Int, lists : Int]

SyncTypeOK ==
  /\ now \in Nat /\ 2 * Sit <= now
  /\ ts \in [Account -> Nat \ {0}]
  /\ saved \in [Account -> Nat]
  /\ trackers \in Seq(Tracker)
  /\ cur \in Nat \ {0}
  /\ phase \in {"start", "page", "globals", "report", "done", "apoptosis"}
  /\ page \in Page
  /\ got \in [Global -> Nat]

(* No copy is newer than the account.                                      *)
CopiesBehind == \A a \in Account : saved[a] <= ts[a]

(* The trackers before the one that runs have finished.                    *)
OneAfterOther ==
  /\ Running => cur <= Len(trackers)
  /\ phase = "done" => cur = Len(trackers) + 1
  /\ \A i \in 1 .. Len(trackers) : i < cur => trackers[i].finished
  /\ phase \in {"globals", "report"} => trackers[cur].isGlobal

(* The ranges hold all accounts, the global trackers the global ones.      *)
AllCovered ==
  /\ \A i \in 1 .. Len(trackers) : trackers[i].isGlobal => trackers[i].accounts = Global
  /\ phase # "apoptosis" =>
       \A a \in Account : \E i \in 1 .. Len(trackers) :
         ~trackers[i].isGlobal /\ a \in trackers[i].accounts

FinishedSynced ==
  \A i \in 1 .. Len(trackers) : trackers[i].finished =>
    /\ trackers[i].asOf <= now
    /\ \A a \in trackers[i].accounts : ts[a] <= trackers[i].asOf - 2 * Sit => saved[a] = ts[a]

(* What the page to ask for leaves out is there, and none of the accounts  *)
(* that still change.                                                      *)
PageNumbers ==
  /\ page.low <= page.startTime /\ page.startTime <= page.low + 1
  /\ page.accountOffset # 0 => page.startTime = page.low
  /\ page.low + 2 * Sit <= now
Passed(a) == ts[a] < page.startTime \/ (ts[a] = page.startTime /\ a < page.accountOffset)
PassedSynced ==
  phase = "page" => \A a \in trackers[cur].accounts : Passed(a) => saved[a] = ts[a]

SyncInv ==
  SyncTypeOK /\ CopiesBehind /\ OneAfterOther /\ AllCovered /\ FinishedSynced
    /\ PageNumbers /\ PassedSynced
-----------------------------------------------------------------------------
LEMMA FirstPageOK ==
  /\ FirstPage \in Page
  /\ FirstPage.startTime = 0 /\ FirstPage.low = 0 /\ FirstPage.accountOffset = 0
  BY SyncAssumption DEF FirstPage, Page

LEMMA NewTrackerOK ==
  /\ \A S \in SUBSET Account : NewTracker(S, FALSE) \in Tracker
  /\ GlobalTracker \in Tracker
  BY SyncAssumption DEF NewTracker, GlobalTracker, Tracker

LEMMA NewTrackerFields ==
  ASSUME NEW S, NEW g
  PROVE  /\ NewTracker(S, g).accounts = S /\ NewTracker(S, g).isGlobal = g
         /\ NewTracker(S, g).finished = FALSE
  BY DEF NewTracker

LEMMA RangesCovered ==
  ASSUME NEW layout \in Layouts
  PROVE  /\ RangeTrackers(layout) \in Seq(Tracker)
         /\ Len(RangeTrackers(layout)) = Len(layout) /\ Len(layout) \in Nat
         /\ \A i \in 1 .. Len(layout) :
              /\ RangeTrackers(layout)[i] = NewTracker(layout[i], FALSE)
              /\ layout[i] \in SUBSET Account
         /\ \A a \in Account : \E i \in 1 .. Len(layout) : a \in layout[i]
<1>1. layout \in Seq(SUBSET Account) /\ UNION Range(layout) = Account
  BY SyncAssumption
<1>2. /\ Len(layout) \in Nat /\ DOMAIN layout = 1 .. Len(layout)
      /\ \A i \in 1 .. Len(layout) : layout[i] \in SUBSET Account
  BY <1>1, LenProperties, ElementOfSeq
<1>3. RangeTrackers(layout) = [i \in 1 .. Len(layout) |-> NewTracker(layout[i], FALSE)]
  BY <1>2 DEF RangeTrackers
<1>4. RangeTrackers(layout) \in [1 .. Len(layout) -> Tracker]
  BY <1>2, <1>3, NewTrackerOK
<1>5. RangeTrackers(layout) \in Seq(Tracker) /\ Len(RangeTrackers(layout)) = Len(layout)
  <2> DEFINE r == RangeTrackers(layout)
             n == Len(layout)
  <2>1. r \in [1 .. n -> Tracker] /\ n \in Nat
    BY <1>2, <1>4
  <2> HIDE DEF r, n
  <2>2. r \in Seq(Tracker)
    BY <2>1, SeqDef
  <2>3. Len(r) = n
    BY <2>1, <2>2, LenProperties
  <2> QED
    BY <2>2, <2>3 DEF r, n
<1>6. \A a \in Account : \E i \in 1 .. Len(layout) : a \in layout[i]
  BY <1>1, <1>2 DEF Range
<1> QED
  BY <1>2, <1>3, <1>5, <1>6

(* Trackers after which ranges come that hold all accounts.                *)
LEMMA WithRangesOK ==
  ASSUME NEW first \in Seq(Tracker), NEW layout \in Layouts,
         \A i \in 1 .. Len(first) :
           first[i].isGlobal /\ first[i].accounts = Global /\ ~first[i].finished,
         NEW all, all = Append(first \o RangeTrackers(layout), GlobalTracker)
  PROVE  /\ all \in Seq(Tracker) /\ Len(all) \in Nat \ {0}
         /\ \A i \in 1 .. Len(all) :
              ~all[i].finished /\ (all[i].isGlobal => all[i].accounts = Global)
         /\ \A a \in Account : \E i \in 1 .. Len(all) : ~all[i].isGlobal /\ a \in all[i].accounts
<1> DEFINE ranges == RangeTrackers(layout)
           both == first \o ranges
<1>1. /\ ranges \in Seq(Tracker) /\ Len(ranges) = Len(layout) /\ Len(layout) \in Nat
      /\ \A i \in 1 .. Len(layout) :
           ranges[i] = NewTracker(layout[i], FALSE) /\ layout[i] \in SUBSET Account
      /\ \A a \in Account : \E i \in 1 .. Len(layout) : a \in layout[i]
  BY RangesCovered
<1>2. all = Append(both, GlobalTracker) /\ GlobalTracker \in Tracker
  BY NewTrackerOK
<1>3. /\ \A i \in 1 .. Len(layout) :
           ~ranges[i].finished /\ ~ranges[i].isGlobal /\ ranges[i].accounts = layout[i]
      /\ ~GlobalTracker.finished /\ GlobalTracker.accounts = Global
  <2>1. /\ NewTracker(Global, TRUE).finished = FALSE
        /\ NewTracker(Global, TRUE).accounts = Global
    BY ZenonT(60), NewTrackerFields
  <2>2. ASSUME NEW i \in 1 .. Len(layout)
        PROVE  ~ranges[i].finished /\ ~ranges[i].isGlobal /\ ranges[i].accounts = layout[i]
    <3> DEFINE S == layout[i]
    <3>1. ranges[i] = NewTracker(S, FALSE)
      BY <1>1
    <3> HIDE DEF S, ranges
    <3>2. /\ NewTracker(S, FALSE).accounts = S /\ NewTracker(S, FALSE).isGlobal = FALSE
          /\ NewTracker(S, FALSE).finished = FALSE
      BY ZenonT(60), NewTrackerFields
    <3>3. ~ranges[i].finished /\ ~ranges[i].isGlobal /\ ranges[i].accounts = S
      BY <3>1, <3>2
    <3> QED
      BY <3>3 DEF S
  <2> QED
    BY <2>1, <2>2 DEF GlobalTracker
<1> HIDE DEF ranges
<1>4. /\ both \in Seq(Tracker) /\ Len(both) = Len(first) + Len(layout) /\ Len(first) \in Nat
      /\ \A i \in 1 .. Len(first) : both[i] = first[i]
      /\ \A i \in 1 .. Len(layout) : both[Len(first) + i] = ranges[i]
  <2>1. \A i \in 1 .. Len(first) + Len(ranges) :
          both[i] = IF i <= Len(first) THEN first[i] ELSE ranges[i - Len(first)]
    BY <1>1, ConcatProperties
  <2>2. Len(first) \in Nat /\ both \in Seq(Tracker) /\ Len(both) = Len(first) + Len(ranges)
    BY <1>1, ConcatProperties, LenProperties
  <2> HIDE DEF both
  <2>3. ASSUME NEW i \in 1 .. Len(layout) PROVE both[Len(first) + i] = ranges[i]
    <3>1. /\ Len(first) + i \in 1 .. Len(first) + Len(ranges)
          /\ ~(Len(first) + i <= Len(first)) /\ Len(first) + i - Len(first) = i
      BY <1>1, <2>2
    <3>2. ASSUME NEW j \in 1 .. Len(first) + Len(ranges), ~(j <= Len(first)), j - Len(first) = i
          PROVE  both[j] = ranges[i]
      BY <2>1, <3>2
    <3> QED
      BY <3>1, <3>2
  <2>4. ASSUME NEW i \in 1 .. Len(first) PROVE both[i] = first[i]
    <3>1. i \in 1 .. Len(first) + Len(ranges) /\ i <= Len(first)
      BY <1>1, <2>2
    <3> QED
      BY <2>1, <3>1
  <2> QED
    BY <1>1, <2>2, <2>3, <2>4
<1>5. \A i \in 1 .. Len(both) :
        (i \in 1 .. Len(first)) \/ \E j \in 1 .. Len(layout) : i = Len(first) + j
  <2> TAKE i \in 1 .. Len(both)
  <2>1. CASE i <= Len(first)
    BY <1>4, <2>1
  <2>2. CASE ~(i <= Len(first))
    <3>1. i - Len(first) \in 1 .. Len(layout) /\ i = Len(first) + (i - Len(first))
      BY <1>1, <1>4, <2>2
    <3> QED
      BY <3>1
  <2> QED
    BY <2>1, <2>2
<1> HIDE DEF both
<1>6. /\ all \in Seq(Tracker) /\ Len(all) = Len(both) + 1 /\ Len(both) \in Nat
      /\ all[Len(both) + 1] = GlobalTracker
      /\ \A i \in 1 .. Len(both) : all[i] = both[i]
  BY <1>2, <1>4, AppendProperties, LenProperties
<1>7. ASSUME NEW i \in 1 .. Len(all)
      PROVE  ~all[i].finished /\ (all[i].isGlobal => all[i].accounts = Global)
  <2>1. CASE i = Len(both) + 1
    BY <1>3, <1>6, <2>1
  <2>2. CASE i \in 1 .. Len(both)
    <3>1. CASE i \in 1 .. Len(first)
      BY <1>4, <1>6, <2>2, <3>1
    <3>2. ASSUME NEW j \in 1 .. Len(layout), i = Len(first) + j
          PROVE  ~both[i].finished /\ ~both[i].isGlobal
      BY <1>3, <1>4, <3>2
    <3> QED
      BY <1>5, <1>6, <2>2, <3>1, <3>2
  <2> QED
    BY <1>6, <2>1, <2>2
<1>8. ASSUME NEW a \in Account
      PROVE  \E i \in 1 .. Len(all) : ~all[i].isGlobal /\ a \in all[i].accounts
  <2>1. PICK j \in 1 .. Len(layout) : a \in layout[j]
    BY <1>1
  <2>2. Len(first) + j \in 1 .. Len(both) /\ Len(first) + j \in 1 .. Len(all)
    BY <1>1, <1>4, <1>6
  <2>3. all[Len(first) + j] = ranges[j]
    BY <1>4, <1>6, <2>2
  <2> QED
    BY <1>3, <2>1, <2>2, <2>3
<1>9. Len(all) \in Nat \ {0}
  BY <1>6
<1> QED
  BY <1>6, <1>7, <1>8, <1>9

LEMMA ResetOK ==
  ASSUME NEW rest \in Seq(Tracker), NEW layout \in Layouts,
         \A i \in 1 .. Len(rest) : rest[i].isGlobal => rest[i].accounts = Global,
         NEW all, all = TrackersAfterReset(layout, rest)
  PROVE  /\ all \in Seq(Tracker) /\ Len(all) \in Nat \ {0}
         /\ \A i \in 1 .. Len(all) :
              ~all[i].finished /\ (all[i].isGlobal => all[i].accounts = Global)
         /\ \A a \in Account : \E i \in 1 .. Len(all) : ~all[i].isGlobal /\ a \in all[i].accounts
<1> DEFINE open == {i \in DOMAIN rest : rest[i].isGlobal /\ ~rest[i].finished}
           n == Cardinality(open)
           left == [k \in 1 .. n |-> rest[Kth(open, k)]]
           first == IF left = <<>> /\ ~globalAccountsSynced THEN <<GlobalTracker>> ELSE left
<1>1. DOMAIN rest = 1 .. Len(rest) /\ Len(rest) \in Nat
  BY LenProperties
<1>2. open \in SUBSET Nat /\ open \subseteq 1 .. Len(rest)
  BY <1>1
<1>3. IsFiniteSet(open) /\ n \in Nat
  <2>1. IsFiniteSet(1 .. Len(rest))
    BY <1>1, FS_Interval
  <2> HIDE DEF open
  <2> QED
    BY <1>2, <2>1, FS_Subset, FS_CardinalityType
<1>4. ASSUME NEW k \in 1 .. n
      PROVE  /\ rest[Kth(open, k)] \in Tracker /\ rest[Kth(open, k)].isGlobal
             /\ rest[Kth(open, k)].accounts = Global /\ ~rest[Kth(open, k)].finished
  <2>1. Kth(open, k) \in open
    <3> HIDE DEF open
    <3> QED
      BY <1>2, <1>3, KthExists
  <2> DEFINE i == Kth(open, k)
  <2> HIDE DEF i
  <2>2. i \in 1 .. Len(rest) /\ rest[i].isGlobal /\ ~rest[i].finished
    BY <1>1, <2>1 DEF i
  <2>3. rest[i] \in Tracker
    BY <2>2, ElementOfSeq
  <2> QED
    BY <2>2, <2>3 DEF i
<1>5. /\ left \in Seq(Tracker) /\ Len(left) = n
      /\ \A k \in 1 .. n : left[k] = rest[Kth(open, k)]
  <2>1. left \in [1 .. n -> Tracker]
    BY <1>4
  <2>2. left \in Seq(Tracker)
    <3> HIDE DEF left, n
    <3> QED
      BY <1>3, <2>1, SeqDef
  <2>3. Len(left) = n
    <3> HIDE DEF left, n
    <3> QED
      BY <1>3, <2>1, <2>2, LenProperties
  <2> QED
    BY <2>2, <2>3
<1>6. all = Append(first \o RangeTrackers(layout), GlobalTracker)
  BY DEF TrackersAfterReset
<1>7. /\ first \in Seq(Tracker)
      /\ \A i \in 1 .. Len(first) :
           first[i].isGlobal /\ first[i].accounts = Global /\ ~first[i].finished
  <2>1. CASE first = left
    <3> HIDE DEF open, n, left, first
    <3> QED
      BY <1>4, <1>5, <2>1
  <2>2. CASE first = <<GlobalTracker>>
    <3>1. /\ <<GlobalTracker>> \in Seq(Tracker) /\ Len(<<GlobalTracker>>) = 1
          /\ <<GlobalTracker>>[1] = GlobalTracker
      BY NewTrackerOK
    <3>2. GlobalTracker.isGlobal /\ GlobalTracker.accounts = Global /\ ~GlobalTracker.finished
      BY DEF GlobalTracker, NewTracker
    <3> HIDE DEF first
    <3>3. \A i \in 1 .. Len(first) : first[i] = GlobalTracker
      BY <2>2, <3>1
    <3> QED
      BY <2>2, <3>1, <3>2, <3>3
  <2> HIDE DEF left
  <2> QED
    BY <2>1, <2>2
<1> HIDE DEF first
<1> QED
  BY <1>6, <1>7, WithRangesOK
-----------------------------------------------------------------------------
(* New trackers, none of which has begun, keep the invariant.              *)
LEMMA ResetKeeps ==
  ASSUME SyncInv, NEW rest \in Seq(Tracker),
         \A i \in 1 .. Len(rest) : rest[i].isGlobal => rest[i].accounts = Global,
         ResetRanges(rest), NothingSaved, page' = FirstPage, got' \in [Global -> Nat]
  PROVE  SyncInv'
<1>1. /\ SyncTypeOK /\ CopiesBehind /\ now' = now /\ ts' = ts /\ saved' = saved /\ cur' = 1
      /\ Sit \in Nat /\ 2 * Sit \in Nat
  BY SyncAssumption DEF SyncInv, NothingSaved, network, ResetRanges
<1>2. /\ trackers' \in Seq(Tracker) /\ Len(trackers') \in Nat
      /\ \A i \in 1 .. Len(trackers') : /\ ~trackers'[i].finished
                                        /\ trackers'[i].isGlobal => trackers'[i].accounts = Global
      /\ \/ phase' = "apoptosis"
         \/ /\ phase' = "start" /\ Len(trackers') # 0
            /\ \A a \in Account : \E i \in 1 .. Len(trackers') :
                 ~trackers'[i].isGlobal /\ a \in trackers'[i].accounts
  <2>1. CASE trackers' = <<>> /\ phase' = "apoptosis"
    BY <2>1
  <2>2. CASE phase' = "start" /\ \E layout \in Layouts : trackers' = TrackersAfterReset(layout, rest)
    <3>1. PICK layout \in Layouts : trackers' = TrackersAfterReset(layout, rest)
      BY <2>2
    <3> DEFINE all == trackers'
    <3>2. all = TrackersAfterReset(layout, rest)
      BY <3>1
    <3> HIDE DEF all
    <3>3. /\ all \in Seq(Tracker) /\ Len(all) \in Nat \ {0}
          /\ \A i \in 1 .. Len(all) :
               ~all[i].finished /\ (all[i].isGlobal => all[i].accounts = Global)
          /\ \A a \in Account : \E i \in 1 .. Len(all) : ~all[i].isGlobal /\ a \in all[i].accounts
      BY <3>2, ResetOK
    <3> QED
      BY <2>2, <3>3 DEF all
  <2> QED
    BY <2>1, <2>2 DEF ResetRanges
<1>3. SyncTypeOK'
  BY <1>1, <1>2, FirstPageOK DEF SyncTypeOK
<1>4. CopiesBehind'
  BY <1>1 DEF CopiesBehind
<1>5. OneAfterOther'
  BY <1>1, <1>2 DEF OneAfterOther, Running
<1>6. AllCovered' /\ FinishedSynced' /\ PassedSynced'
  BY <1>2 DEF AllCovered, FinishedSynced, PassedSynced
<1>7. PageNumbers'
  BY <1>1, FirstPageOK DEF PageNumbers, SyncTypeOK
<1> QED
  BY <1>3, <1>4, <1>5, <1>6, <1>7 DEF SyncInv

(* The one that runs changes, and neither its accounts nor what it is.     *)
OneChanged(rest, t) ==
  /\ cur \in 1 .. Len(trackers) /\ Len(trackers) \in Nat
  /\ rest \in Seq(Tracker) /\ Len(rest) = Len(trackers)
  /\ rest[cur] = t
  /\ \A i \in 1 .. Len(trackers) :
       /\ rest[i].isGlobal = trackers[i].isGlobal
       /\ rest[i].accounts = trackers[i].accounts
       /\ i # cur => rest[i] = trackers[i]
       /\ rest[i].isGlobal => rest[i].accounts = Global
  /\ \A a \in Account : \E i \in 1 .. Len(rest) : ~rest[i].isGlobal /\ a \in rest[i].accounts
LEMMA CurrentChanged ==
  ASSUME SyncInv, Running, NEW t \in Tracker,
         t.accounts = trackers[cur].accounts, t.isGlobal = trackers[cur].isGlobal,
         NEW rest, rest = [trackers EXCEPT ![cur] = t]
  PROVE  OneChanged(rest, t)
<1>1. cur \in 1 .. Len(trackers) /\ Len(trackers) \in Nat /\ trackers \in Seq(Tracker)
  BY LenProperties DEF SyncInv, SyncTypeOK, OneAfterOther
<1>2. /\ rest \in Seq(Tracker) /\ Len(rest) = Len(trackers)
      /\ \A i \in 1 .. Len(trackers) : rest[i] = IF i = cur THEN t ELSE trackers[i]
  BY <1>1, ExceptSeq
<1>3. phase # "apoptosis"
  BY DEF Running
<1>4. \A i \in 1 .. Len(trackers) :
        /\ rest[i].isGlobal = trackers[i].isGlobal
        /\ rest[i].accounts = trackers[i].accounts
        /\ i # cur => rest[i] = trackers[i]
  BY <1>2
<1>5. \A i \in 1 .. Len(trackers) : rest[i].isGlobal => rest[i].accounts = Global
  BY <1>4 DEF SyncInv, AllCovered
<1>6. \A a \in Account : \E i \in 1 .. Len(rest) : ~rest[i].isGlobal /\ a \in rest[i].accounts
  BY <1>2, <1>3, <1>4 DEF SyncInv, AllCovered
<1> QED
  BY <1>1, <1>2, <1>4, <1>5, <1>6 DEF OneChanged

(* It stays unfinished if it was, and begins again or asks for its first   *)
(* page.                                                                   *)
LEMMA BegunKeeps ==
  ASSUME SyncInv, Running, NEW t \in Tracker,
         t.accounts = trackers[cur].accounts, t.isGlobal = trackers[cur].isGlobal,
         t.finished = trackers[cur].finished, t.asOf = trackers[cur].asOf,
         trackers' = [trackers EXCEPT ![cur] = t], cur' = cur, NothingSaved,
         phase' \in {"start", "page"}, page' = FirstPage, got' \in [Global -> Nat]
  PROVE  SyncInv'
<1>1. /\ SyncTypeOK /\ CopiesBehind /\ now' = now /\ ts' = ts /\ saved' = saved
      /\ Sit \in Nat /\ 2 * Sit \in Nat
  BY SyncAssumption DEF SyncInv, NothingSaved, network
<1> DEFINE rest == trackers'
<1>2. rest = [trackers EXCEPT ![cur] = t]
  OBVIOUS
<1> HIDE DEF rest
<1>3. OneChanged(rest, t)
  BY <1>2, CurrentChanged
<1>4. \A i \in 1 .. Len(trackers) :
        rest[i].finished = trackers[i].finished /\ rest[i].asOf = trackers[i].asOf
  BY <1>3 DEF OneChanged
<1>5. SyncTypeOK'
  <2>1. trackers' \in Seq(Tracker)
    BY <1>3 DEF rest, OneChanged
  <2>2. page' \in Page
    BY FirstPageOK
  <2> HIDE DEF rest
  <2> QED
    BY <1>1, <2>1, <2>2 DEF SyncTypeOK
<1>6. CopiesBehind'
  BY <1>1 DEF CopiesBehind
<1>7. OneAfterOther'
  <2>1. \A i \in 1 .. Len(rest) : i < cur => rest[i].finished
    BY <1>3, <1>4 DEF SyncInv, OneAfterOther, OneChanged
  <2> QED
    BY <1>3, <2>1 DEF OneAfterOther, rest, OneChanged
<1>8. AllCovered'
  BY <1>3 DEF AllCovered, rest, OneChanged
<1>9. FinishedSynced'
  <2> SUFFICES ASSUME NEW i \in 1 .. Len(rest), rest[i].finished
               PROVE  /\ rest[i].asOf <= now
                      /\ \A a \in rest[i].accounts : ts[a] <= rest[i].asOf - 2 * Sit => saved[a] = ts[a]
    BY <1>1 DEF FinishedSynced, rest
  <2> QED
    BY <1>3, <1>4 DEF SyncInv, FinishedSynced, OneChanged
<1>10. PageNumbers'
  BY <1>1, FirstPageOK DEF PageNumbers, SyncTypeOK
<1>11. PassedSynced'
  <2> SUFFICES ASSUME NEW a \in trackers'[cur].accounts, Passed(a)' PROVE FALSE
    BY DEF PassedSynced
  <2>1. a \in Account /\ ts[a] \in Nat \ {0}
    BY <1>1, <1>3 DEF SyncTypeOK, Tracker, rest, OneChanged
  <2> QED
    BY <1>1, <2>1, FirstPageOK DEF Passed
<1> QED
  BY <1>5, <1>6, <1>7, <1>8, <1>9, <1>10, <1>11 DEF SyncInv

(* It finishes, with the copies of its accounts that are old.              *)
LEMMA FinishKeeps ==
  ASSUME SyncInv, Running, NEW asOf \in Nat, asOf <= now, Finish(asOf), UNCHANGED network,
         saved' \in [Account -> Nat],
         \A a \in Account : saved'[a] = saved[a] \/ saved'[a] = ts[a],
         \A a \in trackers[cur].accounts : ts[a] <= asOf - 2 * Sit => saved'[a] = ts[a]
  PROVE  SyncInv'
<1>1. /\ SyncTypeOK /\ CopiesBehind /\ now' = now /\ ts' = ts
      /\ Sit \in Nat /\ 2 * Sit \in Nat /\ \A a \in Account : ts[a] \in Nat
  BY SyncAssumption DEF SyncInv, network, SyncTypeOK
<1> DEFINE rest == trackers'
           t == [trackers[cur] EXCEPT !.finished = TRUE, !.asOf = asOf]
<1>2. cur \in 1 .. Len(trackers) /\ trackers[cur] \in Tracker /\ Len(trackers) \in Nat
  BY <1>1, LenProperties, ElementOfSeq DEF SyncInv, OneAfterOther, SyncTypeOK
<1>3. /\ t \in Tracker /\ t.accounts = trackers[cur].accounts /\ t.isGlobal = trackers[cur].isGlobal
      /\ t.finished /\ t.asOf = asOf
  BY <1>2 DEF Tracker
<1>4. rest = [trackers EXCEPT ![cur] = t]
  BY <1>1, <1>2 DEF Finish, SyncTypeOK
<1> HIDE DEF rest, t
<1>5. OneChanged(rest, t)
  BY <1>3, <1>4, CurrentChanged
<1>6. cur' = cur + 1 /\ phase' = IF cur = Len(trackers) THEN "done" ELSE "start"
  BY DEF Finish
<1>7. page' = FirstPage /\ page' \in Page /\ got' \in [Global -> Nat]
  BY FirstPageOK DEF Finish, LocalsGone
<1>8. SyncTypeOK'
  <2>1. trackers' \in Seq(Tracker)
    BY <1>5 DEF rest, OneChanged
  <2>2. phase' \in {"start", "done"} /\ cur' \in Nat \ {0}
    BY <1>2, <1>6
  <2> QED
    BY <1>1, <1>7, <2>1, <2>2 DEF SyncTypeOK
<1>9. CopiesBehind'
  BY <1>1 DEF CopiesBehind
<1>10. OneAfterOther'
  <2>1. ASSUME NEW i \in 1 .. Len(rest), i < cur + 1 PROVE rest[i].finished
    <3>1. i = cur \/ (i < cur /\ i # cur)
      BY <1>2, <2>1
    <3> QED
      BY <1>3, <1>5, <2>1, <3>1 DEF SyncInv, OneAfterOther, OneChanged
  <2>2. Len(rest) = Len(trackers)
    BY <1>5 DEF OneChanged
  <2>3. (phase' # "done" => cur + 1 <= Len(rest)) /\ (phase' = "done" => cur + 1 = Len(rest) + 1)
    BY <1>2, <1>6, <2>2
  <2> QED
    BY <1>6, <2>1, <2>3 DEF OneAfterOther, Running, rest
<1>11. AllCovered'
  BY <1>5 DEF AllCovered, rest, OneChanged
<1>12. FinishedSynced'
  <2> SUFFICES ASSUME NEW i \in 1 .. Len(rest), rest[i].finished
               PROVE  /\ rest[i].asOf <= now
                      /\ \A a \in rest[i].accounts :
                           ts[a] <= rest[i].asOf - 2 * Sit => saved'[a] = ts[a]
    BY <1>1 DEF FinishedSynced, rest
  <2>1. CASE i = cur
    BY <1>3, <1>5, <2>1 DEF OneChanged
  <2>2. CASE i # cur
    <3>1. rest[i] = trackers[i] /\ i \in 1 .. Len(trackers)
      BY <1>5, <2>2 DEF OneChanged
    <3>2. trackers[i] \in Tracker
      BY <1>1, <3>1, ElementOfSeq DEF SyncTypeOK
    <3>3. trackers[i].accounts \in SUBSET Account
      BY <3>2 DEF Tracker
    <3>4. /\ trackers[i].asOf <= now
          /\ \A a \in trackers[i].accounts : ts[a] <= trackers[i].asOf - 2 * Sit => saved[a] = ts[a]
      BY <3>1 DEF SyncInv, FinishedSynced
    <3> QED
      BY <3>1, <3>3, <3>4
  <2> QED
    BY <2>1, <2>2
<1>13. PageNumbers'
  BY <1>1, <1>7, FirstPageOK DEF PageNumbers, SyncTypeOK
<1>14. PassedSynced'
  BY <1>6 DEF PassedSynced
<1> QED
  BY <1>8, <1>9, <1>10, <1>11, <1>12, <1>13, <1>14 DEF SyncInv

LEMMA RetryKeeps ==
  ASSUME SyncInv, Running, TryRetry, NothingSaved
  PROVE  SyncInv'
<1>1. SyncTypeOK
  BY DEF SyncInv
<1>2. cur \in 1 .. Len(trackers) /\ trackers[cur] \in Tracker /\ Len(trackers) \in Nat
  BY <1>1, LenProperties, ElementOfSeq DEF SyncInv, OneAfterOther, SyncTypeOK
<1> DEFINE t == Restarted(trackers[cur])
           rest == [trackers EXCEPT ![cur] = Restarted(@)]
<1>3. /\ t \in Tracker /\ t.accounts = trackers[cur].accounts /\ t.isGlobal = trackers[cur].isGlobal
      /\ t.finished = trackers[cur].finished /\ t.asOf = trackers[cur].asOf
  BY <1>2 DEF Tracker, Restarted
<1>4. rest = [trackers EXCEPT ![cur] = t]
  BY <1>1, <1>2 DEF SyncTypeOK
<1>5. page' = FirstPage /\ got' \in [Global -> Nat]
  BY DEF TryRetry, LocalsGone
<1>6. \/ ResetRanges(rest)
      \/ trackers' = rest /\ phase' = "start" /\ UNCHANGED <<cur, breakCount>>
  BY DEF TryRetry
<1> HIDE DEF t, rest
<1>7. OneChanged(rest, t)
  BY <1>3, <1>4, CurrentChanged
<1>8. CASE ResetRanges(rest)
  <2>1. rest \in Seq(Tracker) /\ \A i \in 1 .. Len(rest) : rest[i].isGlobal => rest[i].accounts = Global
    BY <1>7 DEF OneChanged
  <2> QED
    BY <1>5, <1>8, <2>1, ResetKeeps
<1>9. CASE trackers' = rest /\ phase' = "start" /\ UNCHANGED <<cur, breakCount>>
  BY <1>3, <1>4, <1>5, <1>9, BegunKeeps
<1> QED
  BY <1>6, <1>8, <1>9

(* Another question about the same page.                                   *)
LEMMA AskedAgainKeeps ==
  ASSUME SyncInv, OneAskedAgain, NothingSaved, page' \in Page, got' \in [Global -> Nat],
         page'.startTime = page.startTime, page'.low = page.low,
         page'.accountOffset = page.accountOffset
  PROVE  SyncInv'
<1>1. /\ now' = now /\ ts' = ts /\ saved' = saved
      /\ trackers' = trackers /\ cur' = cur /\ phase' = phase
  BY DEF NothingSaved, OneAskedAgain, network
<1>2. SyncTypeOK' /\ CopiesBehind' /\ OneAfterOther' /\ AllCovered' /\ FinishedSynced'
  BY <1>1 DEF SyncInv, SyncTypeOK, CopiesBehind, OneAfterOther, AllCovered, FinishedSynced, Running
<1>3. PageNumbers' /\ PassedSynced'
  BY <1>1 DEF SyncInv, PageNumbers, PassedSynced, Passed
<1> QED
  BY <1>2, <1>3 DEF SyncInv

LEMMA NextOrRetryKeeps ==
  ASSUME SyncInv, Running, NextOrRetry, NothingSaved
  PROVE  SyncInv'
<1>1. CASE OneAskedAgain /\ UNCHANGED <<page, globals>>
  BY <1>1, AskedAgainKeeps DEF globals, SyncInv, SyncTypeOK
<1>2. CASE TryRetry
  BY <1>2, RetryKeeps
<1> QED
  BY <1>1, <1>2 DEF NextOrRetry
-----------------------------------------------------------------------------
(* What an application answers is the beginning of what was asked for.     *)
Found(A, start, offset) == {a \in A : ts[a] > start \/ (ts[a] = start /\ a >= offset)}

LEMMA PageRows ==
  ASSUME SyncTypeOK, NEW A \in SUBSET Account, NEW start, NEW offset,
         NEW rows, rows = GetAccountDataByRange(A, start, offset)
  PROVE  /\ rows \subseteq Found(A, start, offset)
         /\ rows = {} => Found(A, start, offset) = {}
         /\ rows # {} =>
              /\ LastRow(rows) \in rows
              /\ \A a \in Found(A, start, offset) : Before(a, LastRow(rows)) => a \in rows
         /\ Cardinality(rows) # MaxRecords => rows = Found(A, start, offset)
<1> DEFINE F == Found(A, start, offset)
           R == {p \in Account \X Account : Before(p[1], p[2])}
<1>1. F \in SUBSET Account /\ IsFiniteSet(F) /\ MaxRecords \in Nat \ {0}
  <2>1. F \in SUBSET Account
    BY DEF Found
  <2>2. IsFiniteSet(Account) /\ MaxRecords \in Nat \ {0}
    BY SyncAssumption
  <2> HIDE DEF F
  <2>3. IsFiniteSet(F)
    BY <2>1, <2>2, FS_Subset
  <2> QED
    BY <2>1, <2>2, <2>3
<1>2. \A x, y \in Account : <<x, y>> \in R <=> Before(x, y)
  OBVIOUS
<1> HIDE DEF R
<1>3. Orders(R, F)
  <2>1. \A x \in Account : x \in Nat /\ ts[x] \in Nat
    BY SyncAssumption DEF SyncTypeOK
  <2>2. \A x \in Account : ~Before(x, x)
    BY <2>1 DEF Before
  <2>3. \A x, y, z \in Account : Before(x, y) /\ Before(y, z) => Before(x, z)
    BY <2>1 DEF Before
  <2>4. \A x, y \in Account : x = y \/ Before(x, y) \/ Before(y, x)
    BY <2>1 DEF Before
  <2> HIDE DEF F
  <2> QED
    BY <1>1, <1>2, <2>2, <2>3, <2>4 DEF Orders
<1>4. rows = Leading(R, F, MaxRecords)
  <2>1. rows = {a \in F : Cardinality({b \in F : Before(b, a)}) < MaxRecords}
    BY DEF GetAccountDataByRange, Found
  <2> HIDE DEF F
  <2>2. ASSUME NEW a \in F PROVE Preceding(R, F, a) = {b \in F : Before(b, a)}
    BY <1>1, <1>2 DEF Preceding
  <2> QED
    BY <2>1, <2>2 DEF Leading
<1> HIDE DEF F
<1>5. rows \subseteq F
  BY <1>4 DEF Leading
<1>6. rows = {} => F = {}
  BY <1>1, <1>3, <1>4, LeadingNonEmpty
<1>7. Cardinality(rows) # MaxRecords => rows = F
  BY <1>1, <1>3, <1>4, LeadingAll
<1>8. ASSUME rows # {}
      PROVE  LastRow(rows) \in rows /\ \A a \in F : Before(a, LastRow(rows)) => a \in rows
  <2>1. \E x \in rows : \A y \in rows \ {x} : <<y, x>> \in R
    BY <1>1, <1>3, <1>5, <1>8, LastExists
  <2>2. \E x \in rows : \A y \in rows \ {x} : Before(y, x)
    BY <1>1, <1>2, <1>5, <2>1
  <2>3. LastRow(rows) \in rows
    BY <2>2 DEF LastRow
  <2> DEFINE z == LastRow(rows)
  <2> HIDE DEF z
  <2>4. ASSUME NEW a \in F, Before(a, z) PROVE a \in rows
    <3>1. z \in Leading(R, F, MaxRecords) /\ <<a, z>> \in R
      BY <1>1, <1>2, <1>4, <1>5, <2>3, <2>4 DEF z
    <3>2. MaxRecords \in Nat
      BY <1>1
    <3> QED
      BY <1>1, <1>3, <1>4, <3>1, <3>2, LeadingClosed
  <2> QED
    BY <2>3, <2>4 DEF z
<1> QED
  BY <1>5, <1>6, <1>7, <1>8 DEF F

(* A page gives each account that it returns the copy of the network.      *)
LEMMA NewestCopies ==
  ASSUME SyncTypeOK, CopiesBehind, NEW S \in SUBSET Account, saved' = Newest([a \in S |-> ts[a]])
  PROVE  /\ saved' \in [Account -> Nat]
         /\ \A a \in Account : saved'[a] = saved[a] \/ saved'[a] = ts[a]
         /\ \A a \in S : saved'[a] = ts[a]
         /\ \A a \in Account : saved[a] = ts[a] => saved'[a] = ts[a]
<1>1. \A a \in Account : saved[a] \in Nat /\ ts[a] \in Nat /\ saved[a] <= ts[a]
  BY DEF SyncTypeOK, CopiesBehind
<1>2. saved' = [a \in Account |-> IF a \in S /\ ts[a] >= saved[a] THEN ts[a] ELSE saved[a]]
  BY DEF Newest
<1> QED
  BY <1>1, <1>2

(* The last page: whatever it does not hold is still changing.             *)
LEMMA LastPage ==
  ASSUME SyncInv, phase = "page", NEW rows,
         rows = GetAccountDataByRange(trackers[cur].accounts, page.startTime, page.accountOffset),
         rows = {} \/ now - ts[LastRow(rows)] < 2 * Sit,
         NEW a \in trackers[cur].accounts, ts[a] <= now - 2 * Sit
  PROVE  a \in rows \/ saved[a] = ts[a]
<1> DEFINE A == trackers[cur].accounts
           F == Found(A, page.startTime, page.accountOffset)
<1>1. SyncTypeOK /\ Sit \in Nat /\ 2 * Sit \in Nat
  BY SyncAssumption DEF SyncInv
<1>2. A \in SUBSET Account
  <2>1. trackers[cur] \in Tracker
    BY <1>1, ElementOfSeq, LenProperties DEF SyncInv, OneAfterOther, Running, SyncTypeOK
  <2> QED
    BY <2>1 DEF Tracker
<1>3. a \in Account /\ a \in Nat /\ ts[a] \in Nat /\ now \in Nat
  BY <1>1, <1>2, SyncAssumption DEF SyncTypeOK
<1>4. page.startTime \in Nat /\ page.accountOffset \in Nat
  BY <1>1 DEF SyncTypeOK, Page
<1>5. CASE Passed(a)
  BY <1>5 DEF SyncInv, PassedSynced
<1>6. CASE ~Passed(a)
  <2>1. a \in F
    BY <1>3, <1>4, <1>6 DEF Passed, Found
  <2> HIDE DEF A, F
  <2>2. rows = GetAccountDataByRange(A, page.startTime, page.accountOffset)
    BY DEF A
  <2>3. /\ rows \subseteq F
        /\ rows = {} => F = {}
        /\ rows # {} => LastRow(rows) \in rows /\ \A b \in F : Before(b, LastRow(rows)) => b \in rows
    BY <1>1, <1>2, <2>2, PageRows DEF F
  <2>4. rows # {} /\ LastRow(rows) \in Account
    BY <1>2, <2>1, <2>3 DEF F, Found
  <2>5. ts[LastRow(rows)] \in Nat
    BY <1>1, <2>4 DEF SyncTypeOK
  <2>6. ts[a] < ts[LastRow(rows)]
    BY <1>1, <1>3, <2>4, <2>5
  <2> QED
    BY <2>1, <2>3, <2>4, <2>6 DEF Before
<1> QED
  BY <1>5, <1>6

(* A page before the last: the next leaves out nothing that is not there.  *)
LEMMA NextPageKeeps ==
  ASSUME SyncInv, phase = "page", OneAskedAgain, UNCHANGED network, UNCHANGED globals,
         NEW rows,
         rows = GetAccountDataByRange(trackers[cur].accounts, page.startTime, page.accountOffset),
         rows # {}, ~(now - ts[LastRow(rows)] < 2 * Sit),
         saved' \in [Account -> Nat],
         \A a \in Account : saved'[a] = saved[a] \/ saved'[a] = ts[a],
         \A a \in rows : saved'[a] = ts[a],
         page' = NextPage(rows)
  PROVE  SyncInv'
<1>1. /\ SyncTypeOK /\ CopiesBehind /\ Sit \in Nat /\ 2 * Sit \in Nat
      /\ now' = now /\ ts' = ts /\ got' = got
      /\ trackers' = trackers /\ cur' = cur /\ phase' = phase
  BY SyncAssumption DEF SyncInv, network, globals, OneAskedAgain
<1> DEFINE A == trackers[cur].accounts
           start == page.startTime
           offset == page.accountOffset
           F == Found(A, start, offset)
           z == LastRow(rows)
           high == ts[z]
           full == Cardinality(rows) = MaxRecords
           stays == high <= page.low
           tie == \E a \in rows \ {z} : ts[a] = high
<1>2. A \in SUBSET Account
  <2>1. trackers[cur] \in Tracker
    BY <1>1, ElementOfSeq, LenProperties DEF SyncInv, OneAfterOther, Running, SyncTypeOK
  <2> QED
    BY <2>1 DEF Tracker
<1>3. /\ rows \subseteq F
      /\ z \in rows /\ \A b \in F : Before(b, z) => b \in rows
      /\ ~full => rows = F
  <2> HIDE DEF A, F
  <2>1. rows = GetAccountDataByRange(A, start, offset)
    BY DEF A
  <2> QED
    BY <1>1, <1>2, <2>1, PageRows DEF F
<1>4. z \in Account /\ z \in Nat /\ high \in Nat /\ start <= high
  <2>1. z \in F
    BY <1>3
  <2>2. z \in Account /\ z \in Nat /\ high \in Nat /\ start \in Nat
    BY <1>1, <1>2, <2>1, SyncAssumption DEF SyncTypeOK, Found, Page
  <2> QED
    BY <2>1, <2>2 DEF Found
<1>5. /\ page \in Page /\ page.low \in Nat /\ start \in Nat /\ offset \in Nat
      /\ page.low <= start /\ start <= page.low + 1 /\ now \in Nat
  BY <1>1 DEF SyncTypeOK, Page, SyncInv, PageNumbers
<1>6. page' = [page EXCEPT
        !.startTime = (IF stays THEN start ELSE high) + (IF full THEN 0 ELSE 1),
        !.low = IF stays THEN page.low ELSE high,
        !.accountOffset = IF full /\ stays /\ (offset # 0 \/ tie) THEN z ELSE 0,
        !.lists = ListRestarts]
  BY <1>1 DEF NextPage, SyncTypeOK, Page
<1> HIDE DEF A, start, offset, F, z, high, full, stays, tie
<1>7. stays => start = high /\ page.low = high
  BY <1>4, <1>5 DEF stays
<1>8. /\ page'.startTime = high + (IF full THEN 0 ELSE 1)
      /\ page'.low = high
      /\ page'.accountOffset = IF full /\ stays /\ (offset # 0 \/ tie) THEN z ELSE 0
      /\ page' \in Page
  <2>1. /\ page'.startTime = (IF stays THEN start ELSE high) + (IF full THEN 0 ELSE 1)
        /\ page'.low = IF stays THEN page.low ELSE high
        /\ page'.accountOffset = IF full /\ stays /\ (offset # 0 \/ tie) THEN z ELSE 0
        /\ page'.asks = page.asks /\ page'.lists = ListRestarts
    BY <1>5, <1>6 DEF Page
  <2>2. page'.startTime = high + (IF full THEN 0 ELSE 1) /\ page'.low = high
    BY <1>7, <2>1
  <2>3. page'.startTime \in Nat /\ page'.low \in Nat /\ page'.accountOffset \in Nat
    BY <1>4, <2>1, <2>2
  <2>4. page' \in Page
    <3> DEFINE newStart == (IF stays THEN start ELSE high) + (IF full THEN 0 ELSE 1)
               newLow == IF stays THEN page.low ELSE high
               newOffset == IF full /\ stays /\ (offset # 0 \/ tie) THEN z ELSE 0
    <3>1. page' = [page EXCEPT !.startTime = newStart, !.low = newLow, !.accountOffset = newOffset,
                               !.lists = ListRestarts]
      BY <1>6
    <3>2. newStart \in Nat /\ newLow \in Nat /\ newOffset \in Nat /\ ListRestarts \in Int
      BY <2>1, <2>3, SyncAssumption
    <3> HIDE DEF newStart, newLow, newOffset
    <3> QED
      BY <1>5, <3>1, <3>2 DEF Page
  <2> QED
    BY <2>1, <2>2, <2>4
<1>9. SyncTypeOK'
  BY <1>1, <1>8 DEF SyncTypeOK
<1>10. CopiesBehind'
  <2>1. \A a \in Account : saved[a] <= ts[a] /\ ts[a] \in Nat
    BY <1>1 DEF CopiesBehind, SyncTypeOK
  <2> QED
    BY <1>1, <2>1 DEF CopiesBehind
<1>11. OneAfterOther' /\ AllCovered'
  BY <1>1 DEF SyncInv, OneAfterOther, AllCovered, Running
<1>12. FinishedSynced'
  <2> SUFFICES ASSUME NEW i \in 1 .. Len(trackers), trackers[i].finished
               PROVE  /\ trackers[i].asOf <= now
                      /\ \A a \in trackers[i].accounts :
                           ts[a] <= trackers[i].asOf - 2 * Sit => saved'[a] = ts[a]
    BY <1>1 DEF FinishedSynced
  <2>1. trackers[i].accounts \in SUBSET Account
    <3>1. trackers[i] \in Tracker
      BY <1>1, ElementOfSeq DEF SyncTypeOK
    <3> QED
      BY <3>1 DEF Tracker
  <2> QED
    BY <2>1 DEF SyncInv, FinishedSynced
<1>13. PageNumbers'
  <2>1. high + 2 * Sit <= now
    BY <1>1, <1>4, <1>5 DEF high, z
  <2>2. page'.accountOffset # 0 => full
    BY <1>8
  <2>3. page'.low <= page'.startTime /\ page'.startTime <= page'.low + 1
    BY <1>4, <1>8
  <2>4. page'.accountOffset # 0 => page'.startTime = page'.low
    BY <1>4, <1>8, <2>2
  <2> QED
    BY <1>1, <1>8, <2>1, <2>3, <2>4 DEF PageNumbers
<1>14. PassedSynced'
  <2> SUFFICES ASSUME NEW a \in A, Passed(a)' PROVE saved'[a] = ts[a]
    BY <1>1 DEF PassedSynced, A
  <2>1. a \in Account /\ a \in Nat /\ ts[a] \in Nat
    BY <1>1, <1>2, SyncAssumption DEF SyncTypeOK
  <2>2. CASE Passed(a)
    <3>1. saved[a] = ts[a]
      BY <2>2 DEF SyncInv, PassedSynced, A
    <3> QED
      BY <2>1, <3>1
  <2>3. CASE ~Passed(a)
    <3>1. a \in F
      BY <1>5, <2>1, <2>3 DEF Passed, F, Found, start, offset
    <3>2. CASE ~full
      BY <1>3, <3>1, <3>2
    <3>3. CASE full
      <4>1. page'.startTime = high
        BY <1>4, <1>8, <3>3
      <4>2. ts[a] < high \/ (ts[a] = high /\ a < page'.accountOffset)
        BY <1>1, <4>1 DEF Passed
      <4>3. page'.accountOffset = z \/ page'.accountOffset = 0
        BY <1>8
      <4>4. Before(a, z)
        BY <1>4, <2>1, <4>2, <4>3 DEF Before, high
      <4> QED
        BY <1>3, <3>1, <4>4
    <3> QED
      BY <3>2, <3>3
  <2> QED
    BY <2>2, <2>3
<1> QED
  BY <1>9, <1>10, <1>11, <1>12, <1>13, <1>14 DEF SyncInv

LEMMA AnswerKeeps ==
  ASSUME SyncInv, Answer
  PROVE  SyncInv'
<1>1. phase = "page" /\ Running /\ SyncTypeOK /\ CopiesBehind /\ now \in Nat /\ UNCHANGED network
  BY DEF Answer, Running, SyncInv, SyncTypeOK
<1> DEFINE A == trackers[cur].accounts
           rows == GetAccountDataByRange(A, page.startTime, page.accountOffset)
           highest == ts[LastRow(rows)]
           isLast == rows = {} \/ now - highest < 2 * Sit
           newer == IF rows # {} /\ isLast THEN GetAccountDataByRange(A, highest, 0) ELSE {}
<1>2. A \in SUBSET Account
  <2>1. trackers[cur] \in Tracker
    BY <1>1, ElementOfSeq, LenProperties DEF SyncInv, OneAfterOther, SyncTypeOK
  <2> QED
    BY <2>1 DEF Tracker
<1>3. rows \cup newer \in SUBSET Account
  BY <1>2 DEF GetAccountDataByRange
<1>4. saved' = Newest([a \in rows \cup newer |-> ts[a]])
  BY DEF Answer
<1>5. \/ isLast /\ Finish(now)
      \/ ~isLast /\ page' = NextPage(rows) /\ OneAskedAgain /\ UNCHANGED <<sources, globals>>
  BY DEF Answer
<1>6. rows = GetAccountDataByRange(trackers[cur].accounts, page.startTime, page.accountOffset)
  OBVIOUS
<1>7. isLast <=> rows = {} \/ now - ts[LastRow(rows)] < 2 * Sit
  OBVIOUS
<1> HIDE DEF rows, newer, isLast
<1>8. /\ saved' \in [Account -> Nat]
      /\ \A a \in Account : saved'[a] = saved[a] \/ saved'[a] = ts[a]
      /\ \A a \in rows \cup newer : saved'[a] = ts[a]
      /\ \A a \in Account : saved[a] = ts[a] => saved'[a] = ts[a]
  <2> DEFINE S == rows \cup newer
  <2> HIDE DEF S
  <2>1. S \in SUBSET Account /\ saved' = Newest([a \in S |-> ts[a]])
    BY <1>3, <1>4 DEF S
  <2>2. /\ saved' \in [Account -> Nat]
        /\ \A a \in Account : saved'[a] = saved[a] \/ saved'[a] = ts[a]
        /\ \A a \in S : saved'[a] = ts[a]
        /\ \A a \in Account : saved[a] = ts[a] => saved'[a] = ts[a]
    BY <1>1, <2>1, NewestCopies
  <2> QED
    BY <2>2 DEF S
<1>9. CASE isLast /\ Finish(now)
  <2>1. ASSUME NEW a \in A, ts[a] <= now - 2 * Sit PROVE saved'[a] = ts[a]
    <3>1. a \in rows \/ saved[a] = ts[a]
      BY <1>1, <1>6, <1>7, <1>9, <2>1, LastPage
    <3> QED
      BY <1>2, <1>8, <3>1
  <2>2. now <= now
    BY <1>1
  <2> QED
    BY <1>1, <1>8, <1>9, <2>1, <2>2, FinishKeeps
<1>10. CASE ~isLast /\ page' = NextPage(rows) /\ OneAskedAgain /\ UNCHANGED <<sources, globals>>
  <2>1. rows # {} /\ ~(now - ts[LastRow(rows)] < 2 * Sit)
    BY <1>7, <1>10
  <2>2. \A a \in rows : saved'[a] = ts[a]
    BY <1>8
  <2>3. page' = NextPage(rows) /\ OneAskedAgain /\ UNCHANGED globals
    BY <1>10
  <2> QED
    BY <1>1, <1>6, <1>8, <2>1, <2>2, <2>3, NextPageKeeps
<1> QED
  BY <1>5, <1>9, <1>10
-----------------------------------------------------------------------------
LEMMA InitSynced == SyncInit => SyncInv
<1> SUFFICES ASSUME SyncInit PROVE SyncInv
  OBVIOUS
<1>1. /\ Sit \in Nat /\ 2 * Sit \in Nat /\ now = 2 * Sit + 1 /\ now \in Nat
      /\ ts \in [Account -> 1 .. now] /\ saved = [a \in Account |-> 0]
      /\ cur = 1 /\ phase = "start" /\ page = FirstPage /\ got = [a \in Global |-> 0]
  BY SyncAssumption DEF SyncInit
<1>2. PICK layout \in Layouts : trackers = Append(RangeTrackers(layout), GlobalTracker)
  BY DEF SyncInit
<1>3. /\ trackers \in Seq(Tracker) /\ Len(trackers) \in Nat \ {0}
      /\ \A i \in 1 .. Len(trackers) :
           ~trackers[i].finished /\ (trackers[i].isGlobal => trackers[i].accounts = Global)
      /\ \A a \in Account : \E i \in 1 .. Len(trackers) :
           ~trackers[i].isGlobal /\ a \in trackers[i].accounts
  <2> DEFINE none == <<>>
             all == Append(none \o RangeTrackers(layout), GlobalTracker)
  <2>1. none \in Seq(Tracker) /\ Len(none) = 0
    OBVIOUS
  <2>2. trackers = all
    <3>1. RangeTrackers(layout) \in Seq(Tracker)
      BY RangesCovered
    <3>2. none \o RangeTrackers(layout) = RangeTrackers(layout)
      BY <3>1, ConcatEmptySeq
    <3> QED
      BY <1>2, <3>2
  <2>3. \A i \in 1 .. Len(none) :
          none[i].isGlobal /\ none[i].accounts = Global /\ ~none[i].finished
    BY <2>1
  <2> HIDE DEF none
  <2>4. trackers = Append(none \o RangeTrackers(layout), GlobalTracker)
    BY <2>2
  <2> QED
    BY <2>1, <2>3, <2>4, WithRangesOK
<1>4. ts \in [Account -> Nat \ {0}]
  BY <1>1
<1>5. SyncTypeOK
  BY <1>1, <1>3, <1>4, FirstPageOK DEF SyncTypeOK
<1>6. CopiesBehind
  BY <1>1, <1>4 DEF CopiesBehind
<1>7. OneAfterOther
  BY <1>1, <1>3 DEF OneAfterOther
<1>8. AllCovered /\ FinishedSynced /\ PassedSynced
  BY <1>1, <1>3 DEF AllCovered, FinishedSynced, PassedSynced
<1>9. PageNumbers
  BY <1>1, FirstPageOK DEF PageNumbers
<1> QED
  BY <1>5, <1>6, <1>7, <1>8, <1>9 DEF SyncInv

LEMMA NetworkKeeps ==
  ASSUME SyncInv, NetworkStep
  PROVE  SyncInv'
<1>1. /\ SyncTypeOK /\ CopiesBehind /\ now \in Nat
      /\ Sit \in Nat /\ 2 * Sit \in Nat /\ CommitLag \in Nat /\ CommitLag < 2 * Sit
      /\ saved' = saved /\ trackers' = trackers /\ cur' = cur /\ phase' = phase
      /\ page' = page /\ got' = got
  BY SyncAssumption DEF SyncInv, SyncTypeOK, NetworkStep, globals
<1>2. \A a \in Account : ts[a] \in Nat \ {0} /\ saved[a] \in Nat /\ saved[a] <= ts[a] /\ a \in Nat
  BY <1>1, SyncAssumption DEF SyncTypeOK, CopiesBehind
<1>3. /\ now' \in Nat /\ now <= now'
      /\ ts' \in [Account -> Nat \ {0}]
      /\ \A a \in Account : ts[a] <= ts'[a] /\ (ts'[a] = ts[a] \/ ts'[a] > now - 2 * Sit)
  <2>1. CASE Tick
    BY <1>1, <1>2, <2>1 DEF Tick, SyncTypeOK
  <2>2. ASSUME NEW c \in Account, Commit(c)
        PROVE  /\ now' \in Nat /\ now <= now'
               /\ ts' \in [Account -> Nat \ {0}]
               /\ \A a \in Account : ts[a] <= ts'[a] /\ (ts'[a] = ts[a] \/ ts'[a] > now - 2 * Sit)
    <3>1. PICK t \in now - CommitLag .. now : t > ts[c] /\ ts' = [ts EXCEPT ![c] = t]
      BY <2>2 DEF Commit
    <3>2. now' = now /\ t \in Nat \ {0} /\ t > now - 2 * Sit
      BY <1>1, <1>2, <2>2, <3>1 DEF Commit
    <3>3. ts' \in [Account -> Nat \ {0}] /\ \A a \in Account : ts'[a] = IF a = c THEN t ELSE ts[a]
      BY <1>1, <3>1, <3>2 DEF SyncTypeOK
    <3> QED
      BY <1>1, <1>2, <3>1, <3>2, <3>3
  <2> QED
    BY <2>1, <2>2 DEF NetworkStep
<1>4. SyncTypeOK'
  BY <1>1, <1>3 DEF SyncTypeOK
<1>5. CopiesBehind'
  BY <1>1, <1>2, <1>3, <1>4 DEF CopiesBehind, SyncTypeOK
<1>6. OneAfterOther' /\ AllCovered'
  BY <1>1 DEF SyncInv, OneAfterOther, AllCovered, Running
<1>7. FinishedSynced'
  <2> SUFFICES ASSUME NEW i \in 1 .. Len(trackers), trackers[i].finished
               PROVE  /\ trackers[i].asOf <= now'
                      /\ \A a \in trackers[i].accounts :
                           ts'[a] <= trackers[i].asOf - 2 * Sit => saved[a] = ts'[a]
    BY <1>1 DEF FinishedSynced
  <2>1. trackers[i].accounts \in SUBSET Account /\ trackers[i].asOf \in Nat
    <3>1. trackers[i] \in Tracker
      BY <1>1, ElementOfSeq DEF SyncTypeOK
    <3> QED
      BY <3>1 DEF Tracker
  <2>2. /\ trackers[i].asOf <= now
        /\ \A a \in trackers[i].accounts :
             ts[a] <= trackers[i].asOf - 2 * Sit => saved[a] = ts[a]
    BY DEF SyncInv, FinishedSynced
  <2>3. trackers[i].asOf <= now'
    BY <1>1, <1>3, <2>1, <2>2
  <2>4. ASSUME NEW a \in trackers[i].accounts, ts'[a] <= trackers[i].asOf - 2 * Sit
        PROVE  saved[a] = ts'[a]
    <3>1. a \in Account /\ ts[a] \in Nat /\ ts'[a] \in Nat
      BY <1>2, <1>3, <2>1
    <3>2. ts'[a] = ts[a]
      BY <1>1, <1>3, <2>1, <2>2, <2>4, <3>1
    <3> QED
      BY <2>2, <2>4, <3>2
  <2> QED
    BY <2>3, <2>4
<1>8. /\ page.low \in Nat /\ page.startTime \in Nat /\ page.accountOffset \in Nat
      /\ page.low <= page.startTime /\ page.startTime <= page.low + 1
      /\ page.accountOffset # 0 => page.startTime = page.low
      /\ page.low + 2 * Sit <= now
  BY <1>1 DEF SyncTypeOK, Page, SyncInv, PageNumbers
<1>9. PageNumbers'
  BY <1>1, <1>3, <1>8 DEF PageNumbers
<1>10. PassedSynced'
  <2> SUFFICES ASSUME phase = "page", NEW a \in trackers[cur].accounts, Passed(a)'
               PROVE  saved[a] = ts'[a]
    BY <1>1 DEF PassedSynced
  <2>1. a \in Account
    <3>1. trackers[cur] \in Tracker
      BY <1>1, ElementOfSeq, LenProperties DEF SyncInv, OneAfterOther, Running, SyncTypeOK
    <3> QED
      BY <3>1 DEF Tracker
  <2>2. ts'[a] < page.startTime \/ (ts'[a] = page.startTime /\ a < page.accountOffset)
    BY <1>1 DEF Passed
  <2>3. ts'[a] \in Nat /\ a \in Nat
    BY <1>2, <1>3, <2>1
  <2>4. ts'[a] = ts[a]
    BY <1>1, <1>3, <1>8, <2>1, <2>2, <2>3
  <2> QED
    BY <2>2, <2>4 DEF SyncInv, PassedSynced, Passed
<1> QED
  BY <1>4, <1>5, <1>6, <1>7, <1>9, <1>10 DEF SyncInv

LEMMA RangeKeeps ==
  ASSUME SyncInv, StartRange \/ SourceGone \/ AskFails \/ AskRefused
  PROVE  SyncInv'
<1>1. SyncTypeOK /\ NothingSaved /\ Running
  BY DEF SyncInv, StartRange, SourceGone, AskFails, AskRefused, Running
<1>2. page \in Page /\ got \in [Global -> Nat]
  BY <1>1 DEF SyncTypeOK
<1>3. CASE StartRange
  <2>1. page' = FirstPage /\ got' \in [Global -> Nat]
    BY <1>2, <1>3 DEF StartRange, globals
  <2>2. CASE ResetRanges(trackers)
    <3>1. trackers \in Seq(Tracker)
      BY <1>1 DEF SyncTypeOK
    <3>2. \A i \in 1 .. Len(trackers) : trackers[i].isGlobal => trackers[i].accounts = Global
      BY DEF SyncInv, AllCovered
    <3> QED
      BY <1>1, <2>1, <2>2, <3>1, <3>2, ResetKeeps
  <2>3. CASE /\ trackers' = [trackers EXCEPT ![cur].hasNode = TRUE]
             /\ phase' = "page" /\ cur' = cur
    <3> DEFINE t == [trackers[cur] EXCEPT !.hasNode = TRUE]
    <3>1. trackers[cur] \in Tracker
      BY <1>1, ElementOfSeq, LenProperties DEF SyncInv, OneAfterOther, SyncTypeOK
    <3>2. /\ t \in Tracker /\ t.accounts = trackers[cur].accounts
          /\ t.isGlobal = trackers[cur].isGlobal
          /\ t.finished = trackers[cur].finished /\ t.asOf = trackers[cur].asOf
      BY <3>1 DEF Tracker
    <3>3. trackers' = [trackers EXCEPT ![cur] = t]
      BY <2>3
    <3> HIDE DEF t
    <3> QED
      BY <1>1, <2>1, <2>3, <3>2, <3>3, BegunKeeps
  <2> QED
    BY <1>3, <2>2, <2>3 DEF StartRange
<1>4. CASE SourceGone
  <2>1. CASE /\ page' = [page EXCEPT !.lists = @ - 1]
             /\ OneAskedAgain /\ UNCHANGED globals
    <3>1. /\ page' \in Page /\ got' \in [Global -> Nat]
          /\ page'.startTime = page.startTime /\ page'.low = page.low
          /\ page'.accountOffset = page.accountOffset
      BY <1>2, <2>1 DEF Page, globals
    <3> QED
      BY <1>1, <2>1, <3>1, AskedAgainKeeps
  <2>2. CASE NextOrRetry
    BY <1>1, <2>2, NextOrRetryKeeps
  <2> QED
    BY <1>4, <2>1, <2>2 DEF SourceGone
<1>5. CASE AskFails
  <2>1. CASE page' = [page EXCEPT !.asks = @ - 1] /\ OneAskedAgain /\ UNCHANGED <<sources, globals>>
    <3>1. /\ page' \in Page /\ got' \in [Global -> Nat]
          /\ page'.startTime = page.startTime /\ page'.low = page.low
          /\ page'.accountOffset = page.accountOffset
      BY <1>2, <2>1 DEF Page, globals
    <3> QED
      BY <1>1, <2>1, <3>1, AskedAgainKeeps
  <2>2. CASE TryRetry
    BY <1>1, <2>2, RetryKeeps
  <2> QED
    BY <1>5, <2>1, <2>2 DEF AskFails
<1>6. CASE AskRefused
  BY <1>1, <1>6, NextOrRetryKeeps DEF AskRefused
<1> QED
  BY <1>3, <1>4, <1>5, <1>6

LEMMA GlobalsKeep ==
  ASSUME SyncInv, StartGlobals \/ GlobalsGivenUp \/ GlobalsRefused \/ GlobalsAnswer \/ GlobalsReport
  PROVE  SyncInv'
<1>1. SyncTypeOK /\ CopiesBehind /\ Running /\ now \in Nat /\ Sit \in Nat /\ 2 * Sit \in Nat
  BY SyncAssumption
     DEF SyncInv, SyncTypeOK, StartGlobals, GlobalsGivenUp, GlobalsRefused, GlobalsAnswer,
         GlobalsReport, Running
<1>2. /\ saved \in [Account -> Nat] /\ got \in [Global -> Nat] /\ page \in Page
      /\ Global \in SUBSET Account
      /\ \A a \in Account : ts[a] \in Nat \ {0} /\ saved[a] \in Nat /\ saved[a] <= ts[a]
  BY <1>1, SyncAssumption DEF SyncTypeOK, CopiesBehind
<1>3. cur \in 1 .. Len(trackers)
  BY <1>1, LenProperties DEF SyncInv, OneAfterOther, SyncTypeOK
<1>4. ASSUME trackers[cur].isGlobal PROVE trackers[cur].accounts = Global
  BY <1>3, <1>4 DEF SyncInv, AllCovered
<1>5. ASSUME TryRetry, NothingSaved PROVE SyncInv'
  BY <1>1, <1>5, RetryKeeps
<1>6. ASSUME /\ NothingSaved
             /\ trackers' = trackers /\ cur' = cur /\ page' = page
             /\ got' \in [Global -> Nat]
             /\ phase' \in {"globals", "report"} /\ trackers[cur].isGlobal
      PROVE  SyncInv'
  <2>1. now' = now /\ ts' = ts /\ saved' = saved
    BY <1>6 DEF NothingSaved, network
  <2>2. SyncTypeOK'
    BY <1>1, <1>6, <2>1 DEF SyncTypeOK
  <2>3. CopiesBehind' /\ AllCovered' /\ FinishedSynced' /\ PageNumbers'
    BY <1>1, <1>6, <2>1
       DEF SyncInv, CopiesBehind, AllCovered, FinishedSynced, PageNumbers, Running
  <2>4. OneAfterOther'
    BY <1>1, <1>3, <1>6, <2>1 DEF SyncInv, OneAfterOther, Running
  <2>5. PassedSynced'
    BY <1>6 DEF PassedSynced
  <2> QED
    BY <2>2, <2>3, <2>4, <2>5 DEF SyncInv
<1>7. CASE StartGlobals
  <2>1. CASE Global = {} /\ Finish(now) /\ UNCHANGED <<network, saved>>
    <3>1. \A a \in trackers[cur].accounts : FALSE
      BY <1>4, <1>7, <2>1 DEF StartGlobals
    <3>2. now <= now /\ \A a \in Account : saved'[a] = saved[a] \/ saved'[a] = ts[a]
      BY <1>1, <2>1
    <3> QED
      BY <1>1, <1>2, <2>1, <3>1, <3>2, FinishKeeps
  <2>2. CASE /\ got' = [a \in Global |-> 0] /\ phase' = "globals"
             /\ UNCHANGED <<trackers, cur, page, breakCount>> /\ NothingSaved
    BY <1>6, <1>7, <2>2 DEF StartGlobals
  <2> QED
    BY <1>5, <1>7, <2>1, <2>2 DEF StartGlobals
<1>8. CASE GlobalsGivenUp
  <2>1. trackers[cur].accounts \in SUBSET Account
    <3>1. trackers[cur] \in Tracker
      BY <1>1, <1>3, ElementOfSeq DEF SyncTypeOK
    <3> QED
      BY <3>1 DEF Tracker
  <2>2. \A a \in trackers[cur].accounts : ts[a] <= 0 - 2 * Sit => saved'[a] = ts[a]
    BY <1>1, <1>2, <2>1
  <2>3. /\ Finish(0) /\ UNCHANGED network /\ saved' = saved /\ 0 \in Nat /\ 0 <= now
    BY <1>1, <1>8 DEF GlobalsGivenUp, NothingSaved
  <2>4. saved' \in [Account -> Nat] /\ \A a \in Account : saved'[a] = saved[a] \/ saved'[a] = ts[a]
    BY <1>2, <2>3
  <2> QED
    BY <1>1, <2>2, <2>3, <2>4, FinishKeeps
<1>9. CASE GlobalsRefused
  <2>1. CASE OneAskedAgain /\ UNCHANGED <<page, want, got>> /\ NothingSaved
    BY <1>2, <2>1, AskedAgainKeeps
  <2> QED
    BY <1>5, <1>9, <2>1 DEF GlobalsRefused
<1>10. CASE GlobalsAnswer
  <2>1. PICK found \in SUBSET want : got' = [a \in Global |-> IF a \in found THEN ts[a] ELSE got[a]]
    BY <1>10 DEF GlobalsAnswer
  <2>2. got' \in [Global -> Nat]
    BY <1>2, <2>1
  <2> QED
    BY <1>6, <1>10, <2>2 DEF GlobalsAnswer, SyncInv, OneAfterOther
<1>11. CASE GlobalsReport
  <2>1. CASE /\ phase' = "globals"
             /\ UNCHANGED <<trackers, cur, page, got, tries, breakCount>> /\ NothingSaved
    BY <1>2, <1>6, <1>11, <2>1 DEF GlobalsReport, SyncInv, OneAfterOther
  <2>2. CASE Outdated = {} /\ saved' = Newest(got) /\ Finish(now) /\ UNCHANGED network
    <3>1. \A a \in Global : got[a] = ts[a]
      BY <2>2 DEF Outdated
    <3>2. saved' = [a \in Account |-> IF a \in Global /\ got[a] >= saved[a] THEN got[a] ELSE saved[a]]
      BY <1>2, <2>2 DEF Newest
    <3>3. \A a \in Account : saved'[a] = IF a \in Global THEN ts[a] ELSE saved[a]
      BY <1>2, <3>1, <3>2
    <3>4. saved' \in [Account -> Nat]
      BY <1>2, <3>1, <3>2
    <3>5. \A a \in trackers[cur].accounts : saved'[a] = ts[a]
      BY <1>2, <1>4, <1>11, <3>3 DEF GlobalsReport, SyncInv, OneAfterOther
    <3>6. now <= now /\ \A a \in Account : saved'[a] = saved[a] \/ saved'[a] = ts[a]
      BY <1>1, <3>3
    <3> QED
      BY <1>1, <2>2, <3>4, <3>5, <3>6, FinishKeeps
  <2> QED
    BY <1>5, <1>11, <2>1, <2>2 DEF GlobalsReport
<1> QED
  BY <1>7, <1>8, <1>9, <1>10, <1>11

LEMMA StepKeepsSynced == SyncInv /\ [SyncNext]_syncVars => SyncInv'
<1> SUFFICES ASSUME SyncInv, [SyncNext]_syncVars PROVE SyncInv'
  OBVIOUS
<1>1. CASE UNCHANGED syncVars
  <2>1. /\ now' = now /\ ts' = ts /\ saved' = saved /\ got' = got /\ page' = page
        /\ trackers' = trackers /\ cur' = cur /\ phase' = phase
    BY <1>1 DEF syncVars, network, globals
  <2> QED
    BY <2>1
       DEF SyncInv, SyncTypeOK, CopiesBehind, OneAfterOther, AllCovered, FinishedSynced,
           PageNumbers, PassedSynced, Passed, Running
<1>2. CASE NetworkStep
  BY <1>2, NetworkKeeps
<1>3. CASE SyncStep
  BY <1>3, RangeKeeps, AnswerKeeps, GlobalsKeep DEF SyncStep
<1> QED
  BY <1>1, <1>2, <1>3 DEF SyncNext

LEMMA NothingOldMissing == SyncInv => OldDataSynced
<1> SUFFICES ASSUME SyncInv PROVE OldDataSynced
  OBVIOUS
<1>1. DOMAIN trackers = 1 .. Len(trackers) /\ Len(trackers) \in Nat
  BY LenProperties DEF SyncInv, SyncTypeOK
<1>2. ASSUME NEW i \in 1 .. Len(trackers), NEW a \in trackers[i].accounts,
             trackers[i].finished, ts[a] <= trackers[i].asOf - 2 * Sit
      PROVE  saved[a] = ts[a]
  BY <1>2 DEF SyncInv, FinishedSynced
<1>3. ASSUME phase = "done", NEW a \in Account
      PROVE  \E i \in 1 .. Len(trackers) :
               ~trackers[i].isGlobal /\ trackers[i].finished /\ a \in trackers[i].accounts
  <2>1. PICK i \in 1 .. Len(trackers) : ~trackers[i].isGlobal /\ a \in trackers[i].accounts
    BY <1>3 DEF SyncInv, AllCovered
  <2>2. i < cur
    BY <1>1, <1>3 DEF SyncInv, OneAfterOther
  <2>3. trackers[i].finished
    BY <2>2 DEF SyncInv, OneAfterOther
  <2> QED
    BY <2>1, <2>3
<1> QED
  BY <1>1, <1>2, <1>3 DEF OldDataSynced

(* A node that joins misses no account that was not changed shortly before *)
(* its tracker finished, however many pages the ranges have, whatever      *)
(* changes and fails in between, and however often ranges are given anew   *)
(* (syncAccountData2, syncStateDataGlobals, initialSyncMain).              *)
THEOREM NoOldDataMissed == SyncSpec => []OldDataSynced
  BY InitSynced, StepKeepsSynced, NothingOldMissing, PTL DEF SyncSpec
-----------------------------------------------------------------------------
(* NetworkMode: its counts.                                                *)
NetworkTypes ==
  /\ {active, syncing, target, missed, losses, votes} \subseteq Int
  /\ desired \in Int /\ MinNodes <= desired

LEMMA TargetIsNumber ==
  ASSUME NetworkNumbers, NetworkTypes
  PROVE  NextTarget \in Int
  BY DEF NetworkNumbers, NetworkTypes, NextTarget, FormingTarget, Follow, RestartTarget, Hundredth,
         Least, Most, CutTenth

LEMMA AddIsNumber ==
  ASSUME NetworkNumbers, NetworkTypes
  PROVE  CalculateToAccept.add \in Int
<1>1. /\ Shortage \in Int /\ active \in Int /\ syncing \in Int /\ target \in Int /\ desired \in Int
      /\ missed \in Int /\ MinNodes \in Int /\ Extra \in Int /\ SyncMin \in Int
  BY DEF NetworkTypes, Shortage, Hundredth, NetworkNumbers
<1>2. \A h \in Int : Ceiling(h) \in Int
  BY DEF Ceiling, Hundredth
<1>3. \A x, y \in Int : Most(x, y) \in Int
  BY DEF Most
<1>4. \A x, y : ToAccept(x, y).add = x
  BY DEF ToAccept
<1>5. \A x, c \in Int : Boosted(x, c) \in Int
  <2> TAKE x, c \in Int
  <2>1. active \div 5 \in Int
    BY <1>1
  <2>2. Most(1, active \div 5) \in Int
    BY <1>3, <2>1
  <2>3. x + SyncMin - (syncing - x) \in Int
    BY <1>1
  <2> HIDE DEF Most
  <2> QED
    BY <1>1, <2>2, <2>3 DEF Boosted
<1>6. 2 * SyncMin \in Int /\ 4 * SyncMin \in Int /\ 0 \in Int /\ 1 \in Int
  BY <1>1
<1>7. FormingAccept.add \in Int
  <2>1. FormingAccept.add \in {Ceiling(target), Ceiling(Shortage), 0}
    BY <1>4 DEF FormingAccept
  <2> QED
    BY <1>1, <1>2, <2>1
<1>8. Growing.add \in Int
  <2> DEFINE add == IF 10 * Shortage > active * Hundredth
                    THEN Most(1, active \div 10) ELSE Ceiling(Shortage)
  <2>1. active \div 10 \in Int
    BY <1>1
  <2>2. add \in Int
    <3>1. Most(1, active \div 10) \in Int /\ Ceiling(Shortage) \in Int
      BY <1>1, <1>2, <1>3, <1>6, <2>1
    <3> QED
      BY <3>1
  <2>3. Growing.add = add \/ Growing.add = Boosted(add, 2 * SyncMin)
    BY <1>4 DEF Growing
  <2> HIDE DEF add
  <2> QED
    BY <1>5, <1>6, <2>2, <2>3
<1>9. Shrinking.add \in Int
  <2>1. Shrinking.add = 0 \/ Shrinking.add = Boosted(0, 2 * SyncMin)
    BY <1>4 DEF Shrinking
  <2> QED
    BY <1>5, <1>6, <2>1
<1>10. Waiting.add \in Int /\ Rotating.add \in Int
  <2>1. /\ Waiting.add = Most(0, 2 - syncing) \/ Waiting.add = Boosted(0, 2 * SyncMin)
        /\ Rotating.add = 1 \/ Rotating.add = Boosted(0, 2 * SyncMin)
    BY <1>4 DEF Waiting, Rotating
  <2>2. 2 - syncing \in Int
    BY <1>1
  <2> QED
    BY <1>3, <1>5, <1>6, <2>1, <2>2
<1>11. ProcessingAccept.add \in Int
  <2>1. ProcessingAccept \in {ToAccept(0, 0), Rotating, Growing, Shrinking, Waiting}
    BY DEF ProcessingAccept
  <2> QED
    BY <1>4, <1>8, <1>9, <1>10, <2>1
<1>12. SafetyAccept.add \in Int
  <2> DEFINE short == 102 * MinNodes - (active + syncing) * Hundredth
             few == IF short > 5 * active THEN Most(1, active \div 20) * Hundredth ELSE short
             missing == MinNodes - (active + syncing)
  <2>1. short \in Int /\ missing \in Int
    BY <1>1 DEF Hundredth
  <2>2. few + missed * Hundredth \in Int
    <3>1. active \div 20 \in Int
      BY <1>1
    <3>2. Most(1, active \div 20) \in Int
      BY <1>3, <3>1
    <3> QED
      BY <1>1, <2>1, <3>2 DEF Hundredth
  <2>3. SafetyAccept.add \in
          {0, Boosted(Most(0, missing), 4 * SyncMin), Most(0, Ceiling(few + missed * Hundredth))}
    BY <1>4 DEF SafetyAccept
  <2> HIDE DEF short, few, missing
  <2>4. /\ Boosted(Most(0, missing), 4 * SyncMin) \in Int
        /\ Most(0, Ceiling(few + missed * Hundredth)) \in Int
    BY <1>2, <1>3, <1>5, <1>6, <2>1, <2>2, Zenon
  <2> QED
    BY <1>6, <2>3, <2>4
<1>13. RecoveryAccept.add \in Int
  <2> DEFINE total == active + syncing
             few == IF 5 * Shortage > total * Hundredth
                    THEN Most(1, total \div 5) ELSE Ceiling(Shortage)
  <2>1. total \in Int /\ total \div 5 \in Int /\ MinNodes - total \in Int
    BY <1>1
  <2>2. few \in Int
    <3>1. Most(1, total \div 5) \in Int /\ Ceiling(Shortage) \in Int
      BY <1>1, <1>2, <1>3, <2>1
    <3> QED
      BY <3>1
  <2>3. RecoveryAccept.add \in {0, Boosted(Most(0, MinNodes - total), 4 * SyncMin), Most(0, few)}
    BY <1>4 DEF RecoveryAccept
  <2> HIDE DEF total, few
  <2>4. Boosted(Most(0, MinNodes - total), 4 * SyncMin) \in Int /\ Most(0, few) \in Int
    BY <1>3, <1>5, <1>6, <2>1, <2>2, Zenon
  <2> QED
    BY <1>6, <2>3, <2>4
<1>14. RestartAccept.add \in Int
  <2>1. RestartAccept.add \in {0, Most(0, Ceiling(target) + Extra - syncing)}
    BY <1>4 DEF RestartAccept
  <2>2. Ceiling(target) + Extra - syncing \in Int
    BY <1>1, <1>2
  <2>3. Most(0, Ceiling(target) + Extra - syncing) \in Int
    BY <1>3, <1>6, <2>2, Zenon
  <2> QED
    BY <2>1, <2>3
<1>15. Most(0, Ceiling(Shortage)) \in Int
  BY <1>1, <1>2, <1>3, <1>6
<1>16. CalculateToAccept \in
         {FormingAccept, ProcessingAccept, SafetyAccept, ToAccept(Most(0, Ceiling(Shortage)), 0),
          RecoveryAccept, RestartAccept, ToAccept(0, 0)}
  BY DEF CalculateToAccept
<1> QED
  BY <1>4, <1>7, <1>11, <1>12, <1>13, <1>14, <1>15, <1>16

(* What a steady network with a target of processing may remove leaves it  *)
(* above the threshold of safety.                                          *)
LEMMA RemovedFew ==
  ASSUME NetworkNumbers, NetworkTypes, 10 * Delta <= MinNodes,
         mode = "processing", Steady, target >= MinNodes * Hundredth
  PROVE  /\ CalculateToAccept.remove \in Int
         /\ 10 * (active - CalculateToAccept.remove) >= 9 * MinNodes
<1>1. /\ active \in Int /\ target \in Int /\ desired \in Int /\ MinNodes <= desired
      /\ MinNodes \in Nat \ {0} /\ Delta \in Nat
  BY DEF NetworkTypes, NetworkNumbers
<1>2. 10 * active >= 9 * MinNodes
  BY <1>1 DEF Steady, EnterSafety, EnterRecovery
<1>3. \A r \in Int : /\ Flexible(r) = r \/ (Flexible(r) = 1 /\ 10 * (active - 1) >= 9 * MinNodes)
                     /\ Flexible(r) \in Int
  BY <1>1 DEF Flexible, Most, Least
<1>4. \A x, y : ToAccept(x, y).remove = y
  BY DEF ToAccept
<1>5. Growing.remove = 0 \/ Growing.remove = Flexible(0)
  BY <1>4 DEF Growing
<1>6. /\ Waiting.remove = 0 \/ Waiting.remove = Flexible(0)
      /\ Rotating.remove = 0 \/ Rotating.remove = Flexible(0)
  BY <1>4 DEF Waiting, Rotating
<1> DEFINE excess == active * Hundredth - target
           r == IF 20 * excess > active * Hundredth THEN Most(1, active \div 20) ELSE Ceiling(excess)
<1>7. Shrinking.remove = r \/ Shrinking.remove = Flexible(r)
  BY <1>4 DEF Shrinking
<1>8. ASSUME active * Hundredth > target PROVE r \in Int /\ 10 * (active - r) >= 9 * MinNodes
  BY <1>1, <1>8 DEF Hundredth, Most, Ceiling
<1> HIDE DEF r
<1>9. \/ CalculateToAccept.remove = 0 \/ CalculateToAccept.remove = Flexible(0)
      \/ /\ active * Hundredth > target
         /\ CalculateToAccept.remove = r \/ CalculateToAccept.remove = Flexible(r)
  <2>1. CalculateToAccept = ProcessingAccept
    BY DEF CalculateToAccept
  <2>2. \/ ProcessingAccept = ToAccept(0, 0)
        \/ ProcessingAccept = Rotating
        \/ ProcessingAccept = Growing
        \/ ProcessingAccept = Waiting
        \/ active * Hundredth > target /\ ProcessingAccept = Shrinking
    BY DEF ProcessingAccept
  <2> QED
    BY <1>4, <1>5, <1>6, <1>7, <2>1, <2>2
<1> QED
  BY <1>1, <1>2, <1>3, <1>8, <1>9

LEMMA StaysProcessing ==
  ASSUME NetworkNumbers, NetworkTypes, mode = "processing", Steady
  PROVE  NextMode = "processing"
<1>1. active \in Int /\ MinNodes \in Nat \ {0} /\ 10 * active >= 9 * MinNodes
  BY DEF NetworkTypes, NetworkNumbers, Steady, EnterSafety, EnterRecovery
<1>2. ~EnterShutdown(active)
  BY <1>1 DEF EnterShutdown
<1> QED
  BY <1>2 DEF NextMode, Steady

LEMMA CycleTypes ==
  ASSUME NetworkNumbers, NetworkTypes, AnyCycle
  PROVE  NetworkTypes'
<1>1. /\ active \in Int /\ syncing \in Int /\ losses \in Int /\ votes \in Int /\ desired \in Int /\ MinNodes <= desired
      /\ MinNodes \in Nat \ {0} /\ MaxLost \in Int /\ Pool \in Int /\ MaxNodes \in Nat
  BY DEF NetworkTypes, NetworkNumbers
<1>2. CalculateToAccept.add \in Int
  BY AddIsNumber
<1>3. Selected \in Int
  BY <1>1, <1>2 DEF Selected, Least, Most
<1>4. PICK activated \in 0 .. MayActivate, joined \in {0, Selected},
           removed \in 0 .. Least(CalculateToAccept.remove, active) :
        \E lost \in CanLose(active - removed, 1) :
          \E lostSyncing \in CanLose(syncing - activated, IF active = 0 THEN 1 ELSE 0) :
            Cycle(activated, joined, removed, lost, lostSyncing)
  BY DEF AnyCycle
<1>5. PICK lost \in CanLose(active - removed, 1),
           lostSyncing \in CanLose(syncing - activated, IF active = 0 THEN 1 ELSE 0) :
        Cycle(activated, joined, removed, lost, lostSyncing)
  BY <1>4
<1>6. activated \in Int /\ joined \in Int /\ removed \in Int /\ lost \in Int /\ lostSyncing \in Int
  BY <1>3, <1>4, <1>5 DEF CanLose
<1>7. active' \in Int /\ syncing' \in Int
  BY <1>1, <1>5, <1>6 DEF Cycle, Digest
<1>8. losses' \in Int /\ missed' \in Int /\ votes' \in Int
  BY <1>1, <1>5, <1>6 DEF Cycle
<1>9. ScaledUp \in Int /\ MinNodes <= ScaledUp /\ ScaledDown \in Int /\ MinNodes <= ScaledDown
  BY <1>1 DEF ScaledUp, ScaledDown, Least, Most
<1>10. desired' \in Int /\ MinNodes <= desired'
  BY <1>1, <1>5, <1>9 DEF Cycle
<1>11. target' \in Int
  BY <1>5, TargetIsNumber DEF Cycle
<1> QED
  BY <1>7, <1>8, <1>10, <1>11 DEF NetworkTypes

LEMMA NineTenths ==
  ASSUME NEW n \in Int, NEW m \in Nat \ {0}, 10 * n >= 9 * m
  PROVE  ~(4 * n >= 3 * m /\ 10 * n < 9 * m) /\ ~(4 * n < 3 * m)
  OBVIOUS

LEMMA CycleSteady ==
  ASSUME NetworkNumbers, NetworkTypes, 10 * Delta <= MinNodes, AnyCycle
  PROVE  KeepsSteady
<1> SUFFICES ASSUME mode = "processing", Steady, target >= MinNodes * Hundredth, losses' = losses
             PROVE  Steady'
  BY DEF KeepsSteady
<1>1. /\ active \in Int /\ syncing \in Int /\ losses \in Int /\ MinNodes \in Nat \ {0} /\ MaxLost \in Int
  BY DEF NetworkTypes, NetworkNumbers
<1>2. /\ CalculateToAccept.remove \in Int
      /\ 10 * (active - CalculateToAccept.remove) >= 9 * MinNodes
  BY RemovedFew
<1>3. PICK activated \in 0 .. MayActivate, joined \in {0, Selected},
           removed \in 0 .. Least(CalculateToAccept.remove, active) :
        \E lost \in CanLose(active - removed, 1) :
          \E lostSyncing \in CanLose(syncing - activated, IF active = 0 THEN 1 ELSE 0) :
            Cycle(activated, joined, removed, lost, lostSyncing)
  BY DEF AnyCycle
<1>4. PICK lost \in CanLose(active - removed, 1),
           lostSyncing \in CanLose(syncing - activated, IF active = 0 THEN 1 ELSE 0) :
        Cycle(activated, joined, removed, lost, lostSyncing)
  BY <1>3
<1>5. /\ activated \in Int /\ 0 <= activated /\ removed \in Int
      /\ lost \in Int /\ 0 <= lost /\ lostSyncing \in Int /\ 0 <= lostSyncing
  BY <1>3, <1>4 DEF CanLose
<1>6. removed <= CalculateToAccept.remove
  BY <1>1, <1>2, <1>3 DEF Least
<1>7. lost = 0
  BY <1>1, <1>4, <1>5 DEF Cycle
<1>8. active' = active + activated - removed - lost
  BY <1>4, StaysProcessing DEF Cycle, Digest
<1>9. 10 * active' >= 9 * MinNodes /\ active' \in Int
  BY <1>1, <1>2, <1>5, <1>6, <1>7, <1>8
<1>10. /\ ~(4 * active' >= 3 * MinNodes /\ 10 * active' < 9 * MinNodes)
       /\ ~(4 * active' < 3 * MinNodes)
  BY <1>1, <1>9, NineTenths
<1> QED
  BY <1>10 DEF Steady, EnterSafety, EnterRecovery

(* Rotation and scaling never take a network that processes below what it  *)
(* processes with, if flexibleRotationDelta is at most a tenth of minNodes: *)
(* a node that is rotated is one of more than minNodes less that many      *)
(* (calculateAddRemove, calculateFlexibleRotationRemovals, updateRecord).  *)
THEOREM RotationKeepsSteady == 10 * Delta <= MinNodes => (NetworkSpec => RotationSafe)
<1>0. NetworkNumbers
  BY NetworkAssumption
<1>1. ASSUME NetworkInit PROVE NetworkTypes
  BY <1>0, <1>1 DEF NetworkInit, NetworkTypes, NetworkNumbers, Hundredth
<1>2. ASSUME NetworkTypes, [NetworkNext]_networkVars PROVE NetworkTypes'
  <2>1. CASE UNCHANGED networkVars
    BY <1>2, <2>1 DEF NetworkTypes, networkVars, list, newest
  <2>2. CASE Restart
    BY <1>0, <1>2, <2>2, TargetIsNumber DEF NetworkTypes, Restart
  <2>3. CASE AnyCycle
    BY <1>0, <1>2, <2>3, CycleTypes
  <2> QED
    BY <1>2, <2>1, <2>2, <2>3 DEF NetworkNext
<1>3. ASSUME 10 * Delta <= MinNodes, NetworkTypes, [NetworkNext]_networkVars PROVE [KeepsSteady]_networkVars
  <2>1. CASE AnyCycle
    BY <1>0, <1>3, <2>1, CycleSteady
  <2>2. CASE Restart
    BY <2>2 DEF Restart, KeepsSteady
  <2> QED
    BY <1>3, <2>1, <2>2 DEF NetworkNext
<1>4. CASE 10 * Delta <= MinNodes
  <2>1. NetworkInit => NetworkTypes
    BY <1>1, <1>4
  <2>2. NetworkTypes /\ [NetworkNext]_networkVars => NetworkTypes' /\ [KeepsSteady]_networkVars
    BY <1>2, <1>3, <1>4
  <2> QED
    BY <2>1, <2>2, PTL DEF NetworkSpec, RotationSafe
<1> QED
  BY <1>4

-----------------------------------------------------------------------------
(***************************************************************************)
(* ShardStorage: partitions and the addresses in them                      *)
(***************************************************************************)

(* Division: the only quotient with the only rest.                         *)
LEMMA Multiple ==
  ASSUME NEW n \in Nat \ {0}, NEW k \in Nat \ {0}
  PROVE  k * n >= n
  OBVIOUS

LEMMA RestUnique ==
  ASSUME NEW n \in Nat \ {0}, NEW x \in Int, NEW q \in Int, NEW r \in 0 .. n - 1, x = q * n + r
  PROVE  x \div n = q /\ x % n = r
<1> DEFINE p == x \div n
           s == x % n
<1>1. p \in Int /\ s \in 0 .. n - 1 /\ x = p * n + s
  OBVIOUS
<1> HIDE DEF p, s
<1>2. (p - q) * n = r - s
  BY <1>1
<1>3. ~(p - q >= 1)
  <2> SUFFICES ASSUME p - q >= 1 PROVE FALSE
    OBVIOUS
  <2>1. (p - q) * n >= n
    BY <1>1, Multiple
  <2> QED
    BY <1>1, <1>2, <2>1
<1>4. ~(q - p >= 1)
  <2> SUFFICES ASSUME q - p >= 1 PROVE FALSE
    OBVIOUS
  <2>1. (q - p) * n >= n
    BY <1>1, Multiple
  <2>2. (q - p) * n = s - r
    BY <1>1
  <2> QED
    BY <1>1, <2>1, <2>2
<1>5. p = q
  BY <1>1, <1>3, <1>4
<1>6. s = r
  BY <1>1, <1>5
<1> QED
  BY <1>5, <1>6 DEF p, s

LEMMA ModPlain ==
  ASSUME NEW n \in Nat \ {0}, NEW x \in -n .. 2 * n - 1
  PROVE  x % n = IF x < 0 THEN x + n ELSE IF x >= n THEN x - n ELSE x
<1>1. CASE x < 0
  <2>1. x = (-1) * n + (x + n) /\ x + n \in 0 .. n - 1
    BY <1>1
  <2> QED
    BY <1>1, <2>1, RestUnique
<1>2. CASE x >= n
  <2>1. x = 1 * n + (x - n) /\ x - n \in 0 .. n - 1
    BY <1>2
  <2> QED
    BY <1>2, <2>1, RestUnique
<1>3. CASE x \in 0 .. n - 1
  <2>1. x = 0 * n + x
    OBVIOUS
  <2> QED
    BY <1>3, <2>1, RestUnique
<1> QED
  BY <1>1, <1>2, <1>3

LEMMA TimesMonotonic ==
  ASSUME NEW a \in Nat, NEW b \in Nat, NEW c \in Nat, a <= b
  PROVE  a * c <= b * c /\ c * a <= c * b
<1>1. b * c = a * c + (b - a) * c /\ (b - a) * c \in Nat
  OBVIOUS
<1>2. c * a = a * c /\ c * b = b * c /\ a * c \in Nat /\ b * c \in Nat
  OBVIOUS
<1> QED
  BY <1>1, <1>2

(* A partition has more addresses than there are partitions, and together  *)
(* they are, but for rounding, as many as there are.                       *)
LEMMA SizeFits ==
  ASSUME ShardLimits, NEW n \in 1 .. MaxActive
  PROVE  /\ n \in Nat \ {0} /\ AddressSpace \in Nat /\ PartitionSize(n) \in Nat
         /\ 2 * PartitionSize(n) > 3 * n + 2
         /\ 2 * AddressSpace - n < 2 * (n * PartitionSize(n))
         /\ 2 * (n * PartitionSize(n)) <= 2 * AddressSpace + n
         /\ n * PartitionSize(n) - PartitionSize(n) < AddressSpace - 1 - n
         /\ n * PartitionSize(n) >= AddressSpace - 1 - n
<1> DEFINE A == AddressSpace
           S == PartitionSize(n)
           x == 2 * A + n
           m == 2 * n
           s == x % m
<1>1. n \in Nat \ {0} /\ A \in Nat /\ MaxActive \in Nat /\ n <= MaxActive
  BY DEF ShardLimits
<1>2. S = x \div m
  BY DEF PartitionSize
<1>3. x \in Nat /\ m \in Nat \ {0} /\ S \in Nat /\ s \in 0 .. m - 1 /\ x = S * m + s
  <2>1. x \in Nat /\ m \in Nat \ {0}
    BY <1>1
  <2> HIDE DEF x, m
  <2> QED
    BY <1>2, <2>1
<1> HIDE DEF S, s
<1>4. S * m = 2 * (n * S)
  BY <1>1, <1>3
<1>5. /\ n * S \in Nat
      /\ 2 * A - n < 2 * (n * S) /\ 2 * (n * S) <= 2 * A + n
  BY <1>1, <1>3, <1>4
<1>6. 3 * (n * n) + 3 * n <= 2 * A
  <2>1. n * (n + 1) <= MaxActive * (n + 1)
    BY <1>1, TimesMonotonic
  <2>2. MaxActive * (n + 1) <= MaxActive * (MaxActive + 1)
    BY <1>1, TimesMonotonic
  <2>3. n * (n + 1) = n * n + n /\ n * n \in Nat
    BY <1>1
  <2>4. 3 * MaxActive * (MaxActive + 1) = 3 * (MaxActive * (MaxActive + 1))
    BY <1>1
  <2>5. MaxActive * (MaxActive + 1) \in Nat /\ MaxActive * (n + 1) \in Nat
    BY <1>1
  <2>6. 3 * (MaxActive * (MaxActive + 1)) <= 2 * A
    BY <2>4 DEF ShardLimits
  <2> QED
    BY <1>1, <2>1, <2>2, <2>3, <2>5, <2>6
<1>7. 2 * S > 3 * n + 2
  <2> SUFFICES ASSUME 2 * S <= 3 * n + 2 PROVE FALSE
    BY <1>1, <1>3
  <2>1. n * (2 * S) <= n * (3 * n + 2)
    BY <1>1, <1>3, TimesMonotonic
  <2>2. n * (2 * S) = 2 * (n * S) /\ n * (3 * n + 2) = 3 * (n * n) + 2 * n /\ n * n \in Nat
    BY <1>1, <1>3
  <2> QED
    BY <1>1, <1>5, <1>6, <2>1, <2>2
<1>8. n * S - S < A - 1 - n /\ n * S >= A - 1 - n
  BY <1>1, <1>3, <1>5, <1>7
<1> QED
  BY <1>1, <1>3, <1>5, <1>7, <1>8 DEF S

(* The addresses of a run of partitions.                                   *)
LEMMA RangeOfPartitions ==
  ASSUME ShardLimits, NEW n \in 1 .. MaxActive, NEW f \in 0 .. n - 1, NEW l \in f .. n - 1
  PROVE  /\ AddressRange(n, f, l).low = f * PartitionSize(n)
         /\ AddressRange(n, f, l).high =
              IF l = n - 1 THEN AddressSpace - 1 ELSE (l + 1) * PartitionSize(n) - 1
         /\ l < n - 1 => (l + 1) * PartitionSize(n) < AddressSpace - 1 - n
<1> DEFINE A == AddressSpace
           S == PartitionSize(n)
           end == (l + 1) * S
<1>1. /\ n \in Nat \ {0} /\ A \in Nat /\ S \in Nat
      /\ n * S - S < A - 1 - n /\ n * S >= A - 1 - n
  BY SizeFits
<1>2. AddressRange(n, f, l) = [low |-> f * S, high |-> IF end >= A - 1 - n THEN A - 1 ELSE end - 1]
  BY DEF AddressRange
<1> HIDE DEF S
<1>3. CASE l = n - 1
  <2>1. end = n * S
    BY <1>1, <1>3
  <2> QED
    BY <1>1, <1>2, <1>3, <2>1 DEF S
<1>4. CASE l < n - 1
  <2>1. end <= (n - 1) * S
    BY <1>1, <1>4, TimesMonotonic
  <2>2. (n - 1) * S = n * S - S /\ end \in Nat /\ n * S \in Nat
    BY <1>1
  <2>3. end < A - 1 - n
    BY <1>1, <2>1, <2>2
  <2> HIDE DEF end
  <2>4. ~(end >= A - 1 - n)
    BY <1>1, <2>2, <2>3
  <2> QED
    BY <1>1, <1>2, <1>4, <2>3, <2>4 DEF S, end
<1> QED
  BY <1>1, <1>3, <1>4

(* An address lies in a run of partitions if its home partition does.      *)
LEMMA AtHome ==
  ASSUME ShardLimits, NEW n \in 1 .. MaxActive, NEW a \in Addresses
  PROVE  /\ AddressToPartition(n, a) \in 0 .. n - 1
         /\ \A f \in 0 .. n - 1 : \A l \in f .. n - 1 :
              a \in Span(AddressRange(n, f, l)) <=> AddressToPartition(n, a) \in f .. l
<1> DEFINE A == AddressSpace
           S == PartitionSize(n)
           d == a \div S
           p == AddressToPartition(n, a)
<1>1. /\ n \in Nat \ {0} /\ A \in Nat /\ S \in Nat /\ 2 * S > 3 * n + 2
      /\ 2 * A - n < 2 * (n * S) /\ n * S \in Nat
      /\ n * S >= A - 1 - n /\ a \in Nat /\ a <= A - 1
  BY SizeFits DEF Addresses
<1>2. p = IF d = n THEN n - 1 ELSE d
  BY DEF AddressToPartition
<1> HIDE DEF S, p
<1>3. d \in Nat /\ d * S <= a /\ a < (d + 1) * S
  <2>1. S \in Nat \ {0}
    BY <1>1
  <2>2. a % S \in 0 .. S - 1 /\ a = d * S + (a % S) /\ d \in Nat
    BY <1>1, <2>1
  <2>3. (d + 1) * S = d * S + S /\ d * S \in Nat
    BY <1>1, <2>2
  <2> QED
    BY <1>1, <2>2, <2>3
<1> HIDE DEF d
<1>4. d <= n
  <2> SUFFICES ASSUME d >= n + 1 PROVE FALSE
    BY <1>1, <1>3
  <2>1. (n + 1) * S <= d * S
    BY <1>1, <1>3, TimesMonotonic
  <2>2. (n + 1) * S = n * S + S /\ d * S \in Nat
    BY <1>1, <1>3
  <2> QED
    BY <1>1, <1>3, <2>1, <2>2
<1>5. p \in 0 .. n - 1
  BY <1>1, <1>2, <1>3, <1>4
<1>6. p * S <= a
  <2>1. p * S <= d * S
    BY <1>1, <1>2, <1>3, <1>5, TimesMonotonic
  <2>2. p * S \in Nat /\ d * S \in Nat
    BY <1>1, <1>3, <1>5
  <2> QED
    BY <1>1, <1>3, <2>1, <2>2
<1>7. ASSUME p < n - 1 PROVE a < (p + 1) * S
  <2>1. p = d
    <3>1. p # n - 1
      BY <1>1, <1>5, <1>7
    <3>2. d = n => p = n - 1
      BY <1>2
    <3>3. d # n
      BY <3>1, <3>2
    <3> QED
      BY <1>2, <3>3
  <2> QED
    BY <1>3, <2>1
<1>8. ASSUME NEW f \in 0 .. n - 1, NEW l \in f .. n - 1
      PROVE  a \in Span(AddressRange(n, f, l)) <=> p \in f .. l
  <2> DEFINE r == AddressRange(n, f, l)
  <2>1. r.low = f * S /\ r.high = IF l = n - 1 THEN A - 1 ELSE (l + 1) * S - 1
    BY RangeOfPartitions DEF S
  <2> HIDE DEF r
  <2>2. f * S \in Nat /\ p * S \in Nat /\ (p + 1) * S \in Nat /\ (l + 1) * S \in Nat
    BY <1>1, <1>5
  <2>3. p >= f => f * S <= a
    <3>1. p >= f => f * S <= p * S
      BY <1>1, <1>5, TimesMonotonic
    <3> QED
      BY <1>1, <1>6, <2>2, <3>1
  <2>4. p < f => a < f * S
    <3>1. p < f => (p + 1) * S <= f * S
      BY <1>1, <1>5, TimesMonotonic
    <3>2. p < f => p < n - 1
      BY <1>1, <1>5
    <3> QED
      BY <1>1, <1>7, <2>2, <3>1, <3>2
  <2>5. l < n - 1 /\ p <= l => a < (l + 1) * S
    <3>1. p <= l => (p + 1) * S <= (l + 1) * S
      BY <1>1, <1>5, TimesMonotonic
    <3>2. l < n - 1 /\ p <= l => p < n - 1
      BY <1>1, <1>5
    <3> QED
      BY <1>1, <1>7, <2>2, <3>1, <3>2
  <2>6. p > l => (l + 1) * S <= a
    <3>1. p > l => (l + 1) * S <= p * S
      BY <1>1, <1>5, TimesMonotonic
    <3> QED
      BY <1>1, <1>6, <2>2, <3>1
  <2>7. r.low \in Int /\ r.high \in Int
    BY <1>1, <2>1, <2>2
  <2>8. CASE p \in f .. l
    <3>1. r.low <= a /\ a <= r.high
      BY <1>1, <1>5, <2>1, <2>2, <2>3, <2>5, <2>8
    <3> QED
      BY <1>1, <2>7, <2>8, <3>1 DEF Span, r
  <2>9. CASE p \notin f .. l
    <3>1. p < f \/ (p > l /\ l # n - 1)
      BY <1>1, <1>5, <2>9
    <3>2. ~(r.low <= a /\ a <= r.high)
      BY <1>1, <1>5, <2>1, <2>2, <2>4, <2>6, <3>1
    <3> QED
      BY <1>1, <2>7, <2>9, <3>2 DEF Span, r
  <2> QED
    BY <2>8, <2>9
<1> QED
  BY <1>5, <1>8 DEF p

(* The partitions within a radius of a home, around the circle.            *)
Near(n, h, p, radius) ==
  \/ n <= 2 * radius + 1
  \/ p - h \in -radius .. radius
  \/ p - h >= n - radius \/ h - p >= n - radius

LEMMA NearIsSymmetric ==
  ASSUME NEW n \in Nat \ {0}, NEW h \in 0 .. n - 1, NEW p \in 0 .. n - 1, NEW radius \in Nat
  PROVE  Near(n, h, p, radius) <=> Near(n, p, h, radius)
  BY DEF Near

(* A range is the whole circle, or begins and ends at its radius.          *)
Reaches(n, h, radius, r) ==
  /\ r.start \in 0 .. n - 1 /\ r.end \in 0 .. n - 1
  /\ n <= 2 * radius + 1 => r.start = 0 /\ r.end = n - 1
  /\ n > 2 * radius + 1 =>
       /\ r.start = IF h >= radius THEN h - radius ELSE h - radius + n
       /\ r.end = IF h + radius < n THEN h + radius ELSE h + radius - n

LEMMA RangeShape ==
  ASSUME NEW n \in Nat \ {0}, NEW h \in 0 .. n - 1, NEW radius \in Nat
  PROVE  Reaches(n, h, radius, PartitionRange(n, h, radius))
<1> DEFINE start == (h - radius) % n
           end == (h + radius) % n
           r == PartitionRange(n, h, radius)
<1>1. r = IF n <= 2 * radius \/ (end < start /\ end + 1 = start)
          THEN [start |-> 0, end |-> n - 1] ELSE [start |-> start, end |-> end]
  BY DEF PartitionRange
<1>2. CASE n <= 2 * radius
  BY <1>1, <1>2 DEF Reaches
<1>3. CASE n > 2 * radius
  <2>1. h - radius \in -n .. 2 * n - 1 /\ h + radius \in -n .. 2 * n - 1
    BY <1>3
  <2>2. start = IF h >= radius THEN h - radius ELSE h - radius + n
    <3> DEFINE x == h - radius
    <3>1. x \in -n .. 2 * n - 1 /\ start = x % n /\ x < n /\ x = h - radius
      BY <1>3, <2>1
    <3> HIDE DEF x, start
    <3>2. x % n = IF x < 0 THEN x + n ELSE IF x >= n THEN x - n ELSE x
      BY <3>1, ModPlain
    <3> QED
      BY <3>1, <3>2
  <2>3. end = IF h + radius < n THEN h + radius ELSE h + radius - n
    <3> DEFINE x == h + radius
    <3>1. x \in -n .. 2 * n - 1 /\ end = x % n /\ x >= 0 /\ x = h + radius
      BY <1>3, <2>1
    <3> HIDE DEF x, end
    <3>2. x % n = IF x < 0 THEN x + n ELSE IF x >= n THEN x - n ELSE x
      BY <3>1, ModPlain
    <3> QED
      BY <3>1, <3>2
  <2> HIDE DEF start, end, r
  <2>4. start \in 0 .. n - 1 /\ end \in 0 .. n - 1
    BY <1>3, <2>2, <2>3
  <2>5. CASE end < start /\ end + 1 = start
    <3>1. n = 2 * radius + 1
      BY <1>3, <2>2, <2>3, <2>5
    <3>2. r = [start |-> 0, end |-> n - 1]
      BY <1>1, <2>5
    <3> QED
      BY <3>1, <3>2 DEF r, Reaches
  <2>6. CASE ~(end < start /\ end + 1 = start)
    <3>1. r = [start |-> start, end |-> end]
      BY <1>1, <1>3, <2>6
    <3>2. n = 2 * radius + 1 => start = 0 /\ end = n - 1
      BY <1>3, <2>2, <2>3, <2>6
    <3>3. r.start = start /\ r.end = end
      BY <3>1
    <3> QED
      BY <1>3, <2>2, <2>3, <2>4, <3>2, <3>3 DEF r, Reaches
  <2> QED
    BY <2>5, <2>6
<1> QED
  BY <1>2, <1>3

LEMMA InPieces ==
  ASSUME NEW n, NEW r, NEW p
  PROVE  InRange(n, p, r) <=> IF r.end < r.start THEN p \in 0 .. r.end \/ p \in r.start .. n - 1
                                                 ELSE p \in r.start .. r.end
<1>1. CASE r.end < r.start
  <2>1. /\ Pieces(n, r) = <<[start |-> 0, end |-> r.end], [start |-> r.start, end |-> n - 1]>>
        /\ DOMAIN Pieces(n, r) = {1, 2}
    BY <1>1 DEF Pieces, IsSplit
  <2> QED
    BY <1>1, <2>1 DEF InRange
<1>2. CASE ~(r.end < r.start)
  <2>1. Pieces(n, r) = <<r>> /\ DOMAIN Pieces(n, r) = {1}
    BY <1>2 DEF Pieces, IsSplit
  <2> QED
    BY <1>2, <2>1 DEF InRange
<1> QED
  BY <1>1, <1>2

LEMMA InRangeIsNear ==
  ASSUME NEW n \in Nat \ {0}, NEW h \in 0 .. n - 1, NEW p \in 0 .. n - 1, NEW radius \in Nat
  PROVE  InRange(n, p, PartitionRange(n, h, radius)) <=> Near(n, h, p, radius)
<1> DEFINE r == PartitionRange(n, h, radius)
           start == r.start
           end == r.end
<1>1. /\ start \in 0 .. n - 1 /\ end \in 0 .. n - 1
      /\ n <= 2 * radius + 1 => start = 0 /\ end = n - 1
      /\ n > 2 * radius + 1 =>
           /\ start = IF h >= radius THEN h - radius ELSE h - radius + n
           /\ end = IF h + radius < n THEN h + radius ELSE h + radius - n
  BY RangeShape DEF Reaches
<1>2. InRange(n, p, r) <=> IF end < start THEN p \in 0 .. end \/ p \in start .. n - 1
                                          ELSE p \in start .. end
  BY InPieces
<1> HIDE DEF r, start, end
<1>3. CASE n <= 2 * radius + 1
  BY <1>1, <1>2, <1>3 DEF Near, r
<1>4. CASE n > 2 * radius + 1
  <2>1. (IF end < start THEN p \in 0 .. end \/ p \in start .. n - 1 ELSE p \in start .. end)
          <=> Near(n, h, p, radius)
    <3>1. CASE h < radius
      BY <1>1, <1>4, <3>1 DEF Near
    <3>2. CASE h >= radius /\ h + radius < n
      BY <1>1, <1>4, <3>2 DEF Near
    <3>3. CASE h >= radius /\ h + radius >= n
      BY <1>1, <1>4, <3>3 DEF Near
    <3> QED
      BY <3>1, <3>2, <3>3
  <2> QED
    BY <1>2, <2>1 DEF r
<1> QED
  BY <1>3, <1>4

(* Where a walk over the circle comes by.                                  *)
LEMMA WalkIsNear ==
  ASSUME NEW g, g.n \in Nat \ {0}, g.radius \in Nat, g.edge \in Nat, NEW h \in 0 .. g.n - 1
  PROVE  /\ AsSet(Walk(g, h)) \subseteq 0 .. g.n - 1
         /\ \A p \in 0 .. g.n - 1 : p \in AsSet(Walk(g, h)) <=> Near(g.n, h, p, g.radius + g.edge)
<1> DEFINE n == g.n
           radius == g.radius + g.edge
           len == IF 2 * radius + 1 > n THEN n ELSE 2 * radius + 1
           At(i) == (h - radius + i - 1) % n
<1>1. n \in Nat \ {0} /\ radius \in Nat /\ len \in Nat /\ h \in 0 .. n - 1
  OBVIOUS
<1>2. AsSet(Walk(g, h)) = {At(i) : i \in 1 .. len}
  <2>1. Walk(g, h) = [i \in 1 .. len |-> (h - (g.radius + g.edge) + i - 1) % g.n]
    BY DEF Walk
  <2> QED
    BY ZenonT(60), <2>1 DEF AsSet
<1> HIDE DEF n, radius
<1>3. \A i \in 1 .. len : At(i) \in 0 .. n - 1
  BY <1>1
<1>4. ASSUME NEW i \in 1 .. len, NEW p \in 0 .. n - 1, NEW q \in Int, h - radius + i - 1 = q * n + p
      PROVE  At(i) = p
  <2> DEFINE x == h - radius + i - 1
  <2>1. x \in Int /\ x = q * n + p /\ At(i) = x % n
    BY <1>1, <1>4
  <2> HIDE DEF x, At
  <2> QED
    BY <1>1, <2>1, RestUnique
<1>5. ASSUME NEW i \in 1 .. len, n >= 2 * radius + 1
      PROVE  \E x \in Int : x = h - radius + i - 1
               /\ At(i) = IF x < 0 THEN x + n ELSE IF x >= n THEN x - n ELSE x
  <2> DEFINE x == h - radius + i - 1
  <2>1. x \in -n .. 2 * n - 1 /\ At(i) = x % n /\ x = h - radius + i - 1
    BY <1>1, <1>5
  <2> HIDE DEF x, At
  <2>2. At(i) = IF x < 0 THEN x + n ELSE IF x >= n THEN x - n ELSE x
    BY <1>1, <2>1, ModPlain
  <2> QED
    BY <1>1, <2>1, <2>2
<1> SUFFICES ASSUME NEW p \in 0 .. n - 1
             PROVE  (\E i \in 1 .. len : At(i) = p) <=> Near(n, h, p, radius)
  BY <1>2, <1>3 DEF n, radius
<1> HIDE DEF At
<1>6. CASE n < 2 * radius + 1
  <2> DEFINE x == p - h + radius
             m == x % n
             q == x \div n
             i == m + 1
  <2>1. x \in Int /\ q \in Int /\ m \in 0 .. n - 1 /\ x = q * n + m
    BY <1>1
  <2>2. i \in 1 .. len
    BY <1>1, <1>6, <2>1
  <2> HIDE DEF m, q, len
  <2>3. -q \in Int /\ (-q) * n = -(q * n)
    BY <1>1, <2>1
  <2>4. h - radius + i - 1 = (-q) * n + p
    BY <1>1, <2>1, <2>3
  <2>5. At(i) = p
    BY <1>4, <2>2, <2>3, <2>4
  <2> QED
    BY <1>1, <1>6, <2>2, <2>5 DEF Near
<1>7. CASE n >= 2 * radius + 1
  <2>1. len = 2 * radius + 1
    BY <1>1, <1>7
  <2> HIDE DEF len
  <2>2. ASSUME NEW i \in 1 .. len, At(i) = p PROVE Near(n, h, p, radius)
    BY <1>1, <1>5, <1>7, <2>1, <2>2 DEF Near
  <2>3. ASSUME NEW k \in {-1, 0, 1}, p - h + radius + 1 + k * n \in 1 .. len
        PROVE  \E i \in 1 .. len : At(i) = p
    <3> DEFINE i == p - h + radius + 1 + k * n
    <3>1. k \in Int /\ k * n \in Int
      BY <1>1
    <3>2. h - radius + i - 1 = k * n + p
      BY <1>1, <3>1
    <3>3. i \in 1 .. len
      BY <2>3
    <3> HIDE DEF i
    <3> QED
      BY <1>4, <3>1, <3>2, <3>3
  <2>4. ASSUME Near(n, h, p, radius)
        PROVE  \E k \in {-1, 0, 1} : p - h + radius + 1 + k * n \in 1 .. len
    <3>1. 0 * n = 0 /\ 1 * n = n /\ (-1) * n = -n
      BY <1>1
    <3>2. \/ p - h + radius + 1 \in 1 .. 2 * radius + 1
          \/ p - h + radius + 1 + n \in 1 .. 2 * radius + 1
          \/ p - h + radius + 1 - n \in 1 .. 2 * radius + 1
      BY <1>1, <1>7, <2>4 DEF Near
    <3> QED
      BY <1>1, <2>1, <3>1, <3>2
  <2> QED
    BY <2>2, <2>3, <2>4
<1> QED
  BY <1>1, <1>6, <1>7

-----------------------------------------------------------------------------
(* What a node that is active knows of the circle.                         *)
CoverageType ==
  /\ lower \in Nat /\ upper \in Nat /\ Active <= MaxActive
  /\ sizes \in Sizes

LEMMA GlobalsOfSizes ==
  ASSUME ShardLimits, NEW n \in 1 .. MaxActive, NEW s \in Sizes
  PROVE  LET g == Globals(n, s) IN
         g.n = n /\ g.n \in Nat \ {0} /\ g.radius \in Nat \ {0} /\ g.edge \in Nat
<1> DEFINE g == Globals(n, s)
           odd == IF s.group % 2 = 0 THEN s.group + 1 ELSE s.group
<1>1. s.group \in Nat /\ s.group >= 2 /\ s.edge \in Nat /\ n \in Nat \ {0}
  <2>1. s.group \in Groups /\ s.edge \in Edges
    BY DEF Sizes
  <2>2. s.group \in Nat \ {0, 1} /\ s.edge \in Nat
    BY <2>1 DEF ShardLimits
  <2>3. MaxActive \in Nat
    BY DEF ShardLimits
  <2> QED
    BY <2>2, <2>3
<1>2. odd \in Nat /\ odd >= 3
  <2>1. s.group = 2 => s.group % 2 = 0
    OBVIOUS
  <2> QED
    BY <1>1, <2>1
<1> HIDE DEF odd
<1>3. (odd - 1) \div 2 \in Nat \ {0}
  BY <1>2
<1>4. g = [n |-> n, edge |-> s.edge, radius |-> (odd - 1) \div 2]
  BY DEF Globals, ShardGlobals, odd
<1> QED
  BY <1>1, <1>3, <1>4

LEMMA NearGrows ==
  ASSUME NEW n \in Nat \ {0}, NEW h \in 0 .. n - 1, NEW p \in 0 .. n - 1,
         NEW radius \in Nat, NEW wider \in Nat, radius <= wider
  PROVE  /\ Near(n, h, p, radius) => Near(n, h, p, wider)
         /\ Near(n, h, h, radius)
  BY DEF Near

(* A node is in our lists of a home partition if we are in its range.      *)
LEMMA TypeGivesStorers == ShardLimits /\ CoverageType => StorersAgree
<1> SUFFICES ASSUME ShardLimits, CoverageType,
                    NEW g, g = Globals(Active, sizes), NEW h \in 0 .. Active - 1
             PROVE  /\ h \in StorageNodes(g, lower)
                         <=> InRange(Active, lower, StoredPartitions(g, h))
                    /\ h \in ConsensusNodes(g, lower)
                         <=> InRange(Active, lower, ConsensusPartitions(g, h))
  BY DEF StorersAgree
<1> DEFINE n == g.n
           radius == g.radius + g.edge
<1>1. /\ n = Active /\ n \in Nat \ {0} /\ g.radius \in Nat /\ g.edge \in Nat
      /\ lower \in 0 .. n - 1 /\ h \in 0 .. n - 1 /\ radius \in Nat /\ g.radius <= radius
  <2>1. Active \in 1 .. MaxActive /\ lower \in 0 .. Active - 1 /\ sizes \in Sizes
    BY DEF CoverageType, Active, ShardLimits
  <2>2. g.n = Active /\ g.n \in Nat \ {0} /\ g.radius \in Nat /\ g.edge \in Nat
    BY <2>1, GlobalsOfSizes
  <2> QED
    BY <2>1, <2>2
<1>2. h \in AsSet(Walk(g, lower)) <=> Near(n, lower, h, radius)
  BY <1>1, WalkIsNear
<1>3. /\ InRange(n, h, PartitionRange(n, lower, radius)) <=> Near(n, lower, h, radius)
      /\ InRange(n, h, PartitionRange(n, lower, g.radius)) <=> Near(n, lower, h, g.radius)
      /\ InRange(n, lower, PartitionRange(n, h, radius)) <=> Near(n, h, lower, radius)
      /\ InRange(n, lower, PartitionRange(n, h, g.radius)) <=> Near(n, h, lower, g.radius)
  BY <1>1, InRangeIsNear
<1>4. /\ Near(n, lower, h, radius) <=> Near(n, h, lower, radius)
      /\ Near(n, lower, h, g.radius) <=> Near(n, h, lower, g.radius)
  BY <1>1, NearIsSymmetric
<1>5. /\ Near(n, lower, h, g.radius) => Near(n, lower, h, radius)
      /\ Near(n, lower, lower, g.radius) /\ Near(n, lower, lower, radius)
  BY <1>1, NearGrows
<1> HIDE DEF n, radius
<1>6. h \in StorageNodes(g, lower) <=>
        h \in AsSet(Walk(g, lower)) /\ (h = lower \/ InRange(n, h, PartitionRange(n, lower, radius)))
  BY DEF StorageNodes, StoredPartitions, n, radius
<1>7. h \in ConsensusNodes(g, lower) <=>
        h \in AsSet(Walk(g, lower)) /\ (h = lower \/ InRange(n, h, PartitionRange(n, lower, g.radius)))
  BY DEF ConsensusNodes, ConsensusPartitions, n
<1>8. /\ StoredPartitions(g, h) = PartitionRange(n, h, radius)
      /\ ConsensusPartitions(g, h) = PartitionRange(n, h, g.radius)
  BY DEF StoredPartitions, ConsensusPartitions, n, radius
<1> QED
  BY <1>1, <1>2, <1>3, <1>4, <1>5, <1>6, <1>7, <1>8

(* Every piece of a range is a run of partitions.                          *)
LEMMA PiecesAreRuns ==
  ASSUME NEW n \in Nat \ {0}, NEW r, r.start \in 0 .. n - 1, r.end \in 0 .. n - 1,
         NEW i \in DOMAIN Pieces(n, r)
  PROVE  /\ Pieces(n, r)[i].start \in 0 .. n - 1
         /\ Pieces(n, r)[i].end \in Pieces(n, r)[i].start .. n - 1
<1>1. CASE r.end < r.start
  <2>1. /\ Pieces(n, r) = <<[start |-> 0, end |-> r.end], [start |-> r.start, end |-> n - 1]>>
        /\ DOMAIN Pieces(n, r) = {1, 2}
    BY <1>1 DEF Pieces, IsSplit
  <2>2. CASE i = 1
    BY <2>1, <2>2
  <2>3. CASE i = 2
    BY <2>1, <2>3
  <2> QED
    BY <2>1, <2>2, <2>3
<1>2. CASE ~(r.end < r.start)
  <2>1. Pieces(n, r) = <<r>> /\ DOMAIN Pieces(n, r) = {1}
    BY <1>2 DEF Pieces, IsSplit
  <2> QED
    BY <1>2, <2>1
<1> QED
  BY <1>1, <1>2

LEMMA TypeGivesOwners == ShardLimits /\ CoverageType => AddressesOwned
<1> SUFFICES ASSUME ShardLimits, CoverageType PROVE AddressesOwned
  OBVIOUS
<1> DEFINE n == Active
           r == OurRange
           listed == PartitionList(n, r.start, r.end)
<1>1. /\ n \in Nat \ {0} /\ n \in 1 .. MaxActive
      /\ r.start \in 0 .. n - 1 /\ r.end \in 0 .. n - 1
      /\ r.start = r.end => n = 1
  <2> DEFINE g == Globals(Active, sizes)
             radius == g.radius + g.edge
  <2>1. Active \in 1 .. MaxActive /\ lower \in 0 .. Active - 1 /\ sizes \in Sizes
    BY DEF CoverageType, Active, ShardLimits
  <2>2. g.n = n /\ g.n \in Nat \ {0} /\ g.radius \in Nat \ {0} /\ g.edge \in Nat
    BY <2>1, GlobalsOfSizes
  <2>3. r = PartitionRange(n, lower, radius)
    BY <2>2 DEF OurRange, Stored, StoredPartitions
  <2>4. radius \in Nat \ {0}
    BY <2>2
  <2> HIDE DEF g, radius, n
  <2>5. n \in Nat \ {0} /\ lower \in 0 .. n - 1
    BY <2>1, <2>2 DEF n
  <2>6. Reaches(n, lower, radius, r)
    BY <2>3, <2>4, <2>5, RangeShape
  <2> QED
    BY <2>1, <2>4, <2>5, <2>6 DEF n, Reaches
<1> HIDE DEF n, r
<1>2. ASSUME NEW a \in Addresses
      PROVE  LET p == AddressToPartition(n, a) IN
             /\ {q \in 0 .. n - 1 : a \in Span(AddressRange(n, q, q))} = {p}
             /\ AddressInRange(n, a, r) <=> InRange(n, p, r)
  <2> DEFINE p == AddressToPartition(n, a)
  <2>1. /\ p \in 0 .. n - 1
        /\ \A f \in 0 .. n - 1 : \A l \in f .. n - 1 :
             a \in Span(AddressRange(n, f, l)) <=> p \in f .. l
    BY <1>1, AtHome
  <2> HIDE DEF p
  <2>2. \A q \in 0 .. n - 1 : a \in Span(AddressRange(n, q, q)) <=> p = q
    <3> TAKE q \in 0 .. n - 1
    <3>1. q \in q .. n - 1 /\ (p \in q .. q <=> p = q)
      BY <1>1, <2>1
    <3> QED
      BY <2>1, <3>1
  <2>3. {q \in 0 .. n - 1 : a \in Span(AddressRange(n, q, q))} = {p}
    BY <2>1, <2>2
  <2>4. /\ DOMAIN AddressPieces(n, r) = DOMAIN Pieces(n, r)
        /\ \A i \in DOMAIN Pieces(n, r) :
             AddressPieces(n, r)[i] = AddressRange(n, Pieces(n, r)[i].start, Pieces(n, r)[i].end)
    BY DEF AddressPieces
  <2>5. \A i \in DOMAIN Pieces(n, r) :
          a \in Span(AddressPieces(n, r)[i]) <=> p \in Pieces(n, r)[i].start .. Pieces(n, r)[i].end
    <3> TAKE i \in DOMAIN Pieces(n, r)
    <3>1. /\ Pieces(n, r)[i].start \in 0 .. n - 1
          /\ Pieces(n, r)[i].end \in Pieces(n, r)[i].start .. n - 1
      BY <1>1, PiecesAreRuns
    <3> QED
      BY <2>1, <2>4, <3>1
  <2>6. AddressInRange(n, a, r) <=> InRange(n, p, r)
    BY <2>4, <2>5 DEF AddressInRange, InRange, Span
  <2> QED
    BY <2>3, <2>6 DEF p
<1>3. ASSUME NEW p \in 0 .. n - 1
      PROVE  /\ p \in listed <=> InRange(n, p, r)
             /\ p \in listed <=> InWrappingRange(p, r.start, r.end)
             /\ p \in listed <=> \A u \in UncoveredRanges(n, r.start, r.end) : p \notin u[1] .. u[2]
  <2> DEFINE start == r.start
             end == r.end
  <2>1. InRange(n, p, r) <=> IF end < start THEN p \in 0 .. end \/ p \in start .. n - 1
                                            ELSE p \in start .. end
    BY InPieces
  <2>2. listed = IF start <= end THEN start .. end ELSE (0 .. end) \cup (start .. n - 1)
    BY DEF PartitionList
  <2>3. start \in 0 .. n - 1 /\ end \in 0 .. n - 1 /\ (start = end => n = 1)
    BY <1>1
  <2> HIDE DEF start, end, listed
  <2>4. p \in listed <=> InRange(n, p, r)
    BY <1>1, <2>1, <2>2, <2>3
  <2>5. p \in listed <=> InWrappingRange(p, start, end)
    <3>1. CASE start = end
      BY <1>1, <2>2, <2>3, <3>1 DEF InWrappingRange
    <3>2. CASE start < end
      BY <1>1, <2>2, <2>3, <3>2 DEF InWrappingRange
    <3>3. CASE start > end
      BY <1>1, <2>2, <2>3, <3>3 DEF InWrappingRange
    <3> QED
      BY <2>3, <3>1, <3>2, <3>3
  <2>6. \A x, y : (\A u \in {<<x, y>>} : p \notin u[1] .. u[2]) <=> p \notin x .. y
    OBVIOUS
  <2>7. p \in listed <=> \A u \in UncoveredRanges(n, start, end) : p \notin u[1] .. u[2]
    <3>1. CASE start = 0 /\ end = n - 1
      <4>1. UncoveredRanges(n, start, end) = {}
        BY <1>1, <2>3, <3>1 DEF UncoveredRanges
      <4> QED
        BY <1>1, <2>2, <2>3, <3>1, <4>1
    <3>2. CASE start > end
      <4>1. UncoveredRanges(n, start, end) = {<<end + 1, start - 1>>}
        BY <1>1, <2>3, <3>2 DEF UncoveredRanges
      <4> QED
        BY <1>1, <2>2, <2>3, <2>6, <3>2, <4>1
    <3>3. CASE end > start /\ start = 0 /\ end # n - 1
      <4>1. UncoveredRanges(n, start, end) = {<<end + 1, n - 1>>}
        BY <1>1, <2>3, <3>3 DEF UncoveredRanges
      <4>2. p \in listed <=> p \notin end + 1 .. n - 1
        BY <1>1, <2>2, <2>3, <3>3
      <4>3. (\A u \in UncoveredRanges(n, start, end) : p \notin u[1] .. u[2]) <=> p \notin end + 1 .. n - 1
        BY <2>6, <4>1
      <4> QED
        BY <4>2, <4>3
    <3>4. CASE end > start /\ start # 0 /\ end = n - 1
      <4>1. UncoveredRanges(n, start, end) = {<<0, start - 1>>}
        BY <1>1, <2>3, <3>4 DEF UncoveredRanges
      <4>2. p \in listed <=> p \notin 0 .. start - 1
        BY <1>1, <2>2, <2>3, <3>4
      <4>3. (\A u \in UncoveredRanges(n, start, end) : p \notin u[1] .. u[2]) <=> p \notin 0 .. start - 1
        BY <2>6, <4>1
      <4> QED
        BY <4>2, <4>3
    <3>5. CASE end > start /\ start # 0 /\ end # n - 1
      <4>1. UncoveredRanges(n, start, end) = {<<0, start - 1>>, <<end + 1, n - 1>>}
        BY <1>1, <2>3, <3>5 DEF UncoveredRanges
      <4> QED
        BY <1>1, <2>2, <2>3, <3>5, <4>1
    <3> QED
      BY <1>1, <2>3, <3>1, <3>2, <3>3, <3>4, <3>5
  <2> QED
    BY <2>4, <2>5, <2>7 DEF start, end
<1> QED
  BY <1>2, <1>3 DEF AddressesOwned, n, r

LEMMA CoverageTyped == CoverageSpec => []CoverageType
<1>1. CoverageInit => CoverageType
  BY ShardAssumption DEF CoverageInit, CoverageType, Active, ShardLimits
<1>2. CoverageType /\ [CoverageNext]_coverageVars => CoverageType'
  <2>1. ASSUME CoverageType, NEW l \in Nat, NEW u \in Nat, NextCycle(l, u) PROVE CoverageType'
    BY <2>1 DEF NextCycle, CoverageType, Active
  <2>2. CASE UNCHANGED coverageVars
    BY <2>2 DEF coverageVars, CoverageType, Active
  <2> QED
    BY <2>1, <2>2 DEF CoverageNext
<1> QED
  BY <1>1, <1>2, PTL DEF CoverageSpec

(* The property StorageAgrees of the run algorithms: however the nodes     *)
(* around a node change, all parts of it that compute who stores what      *)
(* agree (addressToPartition, testAddressInRange, testInRange,             *)
(* getNonParitionRanges, getCombinedNodeLists). The proof takes every      *)
(* range as the partitions within a radius of a home around the circle.    *)
THEOREM PartsAgree == CoverageSpec => []StorageAgrees
<1>1. CoverageType => StorageAgrees
  BY ShardAssumption, TypeGivesOwners, TypeGivesStorers DEF StorageAgrees
<1> QED
  BY <1>1, CoverageTyped, PTL

-----------------------------------------------------------------------------
(* computeCoverageChanges *)

(* Taking an old piece away leaves what is not in it, and taking an old    *)
(* piece as the base of a comparison lists what lies beyond it.            *)
LEMMA WithoutKeeps ==
  ASSUME NEW c, NEW piece, NEW a \in Int,
         c.low \in Int, c.high \in Int, piece.low \in Int, piece.high \in Int,
         c.low < c.high, a \in Span(c), a \notin Span(piece)
  PROVE  LET d == Without(c, piece) IN
         d.low \in Int /\ d.high \in Int /\ d.low < d.high /\ a \in Span(d)
<1> DEFINE d == Without(c, piece)
<1>1. c.low <= a /\ a <= c.high /\ (a < piece.low \/ a > piece.high)
  BY DEF Span
<1>2. CASE ~Overlap(piece, c)
  BY <1>2 DEF Without
<1>3. CASE Overlap(piece, c)
  <2>1. piece.low < c.high /\ c.low < piece.high
    BY <1>3 DEF Overlap
  <2>2. /\ d.low = IF piece.low <= c.low THEN piece.high ELSE c.low
        /\ d.high = IF piece.high >= c.high THEN piece.low ELSE c.high
    BY <1>3 DEF Without
  <2> HIDE DEF d
  <2>3. d.low \in Int /\ d.high \in Int /\ d.low < d.high /\ d.low <= a /\ a <= d.high
    BY <1>1, <2>1, <2>2
  <2> QED
    BY <2>3 DEF Span, d
<1> QED
  BY <1>2, <1>3

LEMMA ExpansionHolds ==
  ASSUME NEW o, NEW b, NEW a \in Int,
         o.low \in Int, o.high \in Int, b.low \in Int, b.high \in Int,
         a \in Span(b), a \notin Span(o)
  PROVE  \E c \in Expansions(o, b) :
           c.low \in Int /\ c.high \in Int /\ c.low < c.high /\ a \in Span(c)
<1> DEFINE left == [low |-> b.low, high |-> o.low]
           right == [low |-> o.high, high |-> b.high]
<1>1. b.low <= a /\ a <= b.high /\ (a < o.low \/ a > o.high)
  BY DEF Span
<1>2. CASE a < o.low
  <2>1. left.low \in Int /\ left.high \in Int /\ left.low < left.high /\ a \in Span(left)
    BY <1>1, <1>2 DEF Span
  <2> QED
    BY <2>1 DEF Expansions
<1>3. CASE a > o.high
  <2>1. right.low \in Int /\ right.high \in Int /\ right.low < right.high /\ a \in Span(right)
    BY <1>1, <1>3 DEF Span
  <2> QED
    BY <2>1 DEF Expansions
<1> QED
  BY <1>1, <1>2, <1>3

(* A new address is in a change if its new piece is compared with an old   *)
(* piece that it overlaps.                                                 *)
LEMMA ComparedIsFetched ==
  ASSUME NEW m, NEW r, NEW n, NEW s, NEW a \in Int, NEW old, NEW new,
         old = AddressPieces(m, r), new = AddressPieces(n, s),
         Len(old) \in {1, 2}, DOMAIN old = 1 .. Len(old),
         \A j \in DOMAIN old : old[j] \in [low : Int, high : Int],
         NEW i \in DOMAIN old, NEW k \in DOMAIN new, new[k] \in [low : Int, high : Int],
         <<i, k>> \in ComparedPieces(old, new), Overlap(old[i], new[k]),
         a \in Span(new[k]), \A j \in DOMAIN old : a \notin Span(old[j])
  PROVE  \E c \in CoverageChanges(m, r, n, s) : a \in Span(c)
<1> DEFINE found == UNION {Expansions(old[c[1]], new[c[2]]) :
                       c \in {x \in ComparedPieces(old, new) : Overlap(old[x[1]], new[x[2]])}}
           once(c) == Without(c, old[1])
           twice(c) == IF Len(old) = 2 /\ once(c).low < once(c).high
                       THEN Without(once(c), old[2]) ELSE once(c)
<1>1. CoverageChanges(m, r, n, s) = {c \in {twice(d) : d \in found} : c.low < c.high}
  BY DEF CoverageChanges
<1>2. /\ \A j \in DOMAIN old : old[j].low \in Int /\ old[j].high \in Int
      /\ new[k].low \in Int /\ new[k].high \in Int
      /\ 1 \in DOMAIN old /\ (Len(old) = 2 => 2 \in DOMAIN old)
  OBVIOUS
<1>3. PICK d \in Expansions(old[i], new[k]) :
        d.low \in Int /\ d.high \in Int /\ d.low < d.high /\ a \in Span(d)
  BY <1>2, ExpansionHolds
<1>4. d \in found
  <2> DEFINE x == <<i, k>>
  <2>1. x \in ComparedPieces(old, new) /\ x[1] = i /\ x[2] = k
    OBVIOUS
  <2> HIDE DEF x
  <2> QED
    BY <1>3, <2>1
<1> HIDE DEF found
<1>5. once(d).low \in Int /\ once(d).high \in Int /\ once(d).low < once(d).high /\ a \in Span(once(d))
  BY <1>2, <1>3, WithoutKeeps
<1> HIDE DEF once
<1>6. twice(d).low < twice(d).high /\ a \in Span(twice(d))
  <2>1. CASE Len(old) = 2
    <3>1. twice(d) = Without(once(d), old[2])
      BY <1>5, <2>1
    <3> QED
      BY <1>2, <1>5, <2>1, <3>1, WithoutKeeps
  <2>2. CASE Len(old) # 2
    BY <1>5, <2>2
  <2> QED
    BY <2>1, <2>2
<1> HIDE DEF twice
<1> QED
  BY <1>1, <1>4, <1>6

(* The pieces of a range of a node's home, as addresses.                   *)
LEMMA RunAddresses ==
  ASSUME ShardLimits, NEW n \in 1 .. MaxActive, NEW f \in 0 .. n - 1, NEW l \in f .. n - 1
  PROVE  LET p == AddressRange(n, f, l) IN
         /\ p \in [low : Int, high : Int]
         /\ p.low = f * PartitionSize(n) /\ p.low >= 0 /\ p.low < AddressSpace - 1
         /\ p.high > 0 /\ p.high <= AddressSpace - 1
         /\ f = 0 => p.low = 0
         /\ p.high = IF l = n - 1 THEN AddressSpace - 1 ELSE (l + 1) * PartitionSize(n) - 1
<1> DEFINE A == AddressSpace
           S == PartitionSize(n)
           p == AddressRange(n, f, l)
<1>1. /\ n \in Nat \ {0} /\ A \in Nat /\ S \in Nat /\ 2 * S > 3 * n + 2
      /\ n * S - S < A - 1 - n
  BY SizeFits
<1>2. /\ p.low = f * S
      /\ p.high = IF l = n - 1 THEN A - 1 ELSE (l + 1) * S - 1
      /\ l < n - 1 => (l + 1) * S < A - 1 - n
  BY RangeOfPartitions
<1>3. p = [low |-> p.low, high |-> p.high]
  BY DEF AddressRange
<1> HIDE DEF S, p
<1>4. f * S <= (n - 1) * S /\ (n - 1) * S = n * S - S /\ f * S \in Nat /\ n * S \in Nat
  BY <1>1, TimesMonotonic
<1>5. (l + 1) * S \in Nat /\ (l + 1) * S >= S
  <2>1. (l + 1) * S = l * S + S /\ l * S \in Nat
    BY <1>1
  <2> QED
    BY <1>1, <2>1
<1>6. f = 0 => f * S = 0
  BY <1>1
<1>7. p.low \in Int /\ p.low >= 0 /\ p.low < A - 1
  BY <1>1, <1>2, <1>4
<1>8. p.high \in Int /\ p.high > 0 /\ p.high <= A - 1
  BY <1>1, <1>2, <1>5, <1>7
<1>9. p \in [low : Int, high : Int]
  BY <1>3, <1>7, <1>8
<1> QED
  BY <1>2, <1>6, <1>7, <1>8, <1>9 DEF S, p

(* Two ranges of nearly as many partitions, begun at nearly the same home, *)
(* meet: the partitions that precede the one do not reach beyond the end   *)
(* of the other.                                                           *)
LEMMA RangesMeet ==
  ASSUME NEW A \in Nat, NEW m \in Nat \ {0}, NEW n \in Nat \ {0}, NEW S \in Nat, NEW T \in Nat,
         NEW k \in 0 .. m, NEW j \in Int, j >= k + 2, j >= k + (n - m) + 2, m <= n + 2,
         2 * (m * S) <= 2 * A + m, 2 * A - n < 2 * (n * T), 2 * T > 3 * n + 2
  PROVE  k * S < j * T - 1
<1>1. /\ j \in Nat /\ k \in Nat
      /\ k * S \in Nat /\ k * T \in Nat /\ m * S \in Nat /\ m * T \in Nat
      /\ n * T \in Nat /\ j * T \in Nat
  OBVIOUS
<1>2. CASE S <= T
  <2>1. k * S <= k * T
    BY <1>1, <1>2, TimesMonotonic
  <2>2. (k + 2) * T <= j * T
    BY <1>1, TimesMonotonic
  <2>3. (k + 2) * T = k * T + 2 * T
    BY <1>1
  <2> QED
    BY <1>1, <2>1, <2>2, <2>3
<1>3. CASE S > T
  <2> DEFINE D == S - T
  <2>1. D \in Nat /\ k * D \in Nat /\ m * D \in Nat
    BY <1>1, <1>3
  <2>2. k * D <= m * D
    BY <1>1, <2>1, TimesMonotonic
  <2>3. k * S = k * D + k * T /\ m * D = m * S - m * T
    BY <1>1
  <2>4. 2 * (k * D) < 2 * (n * T) - 2 * (m * T) + m + n
    BY <1>1, <2>1, <2>2, <2>3
  <2> HIDE DEF D
  <2>5. j * T >= k * T + n * T - m * T + 2 * T
    <3> DEFINE e == k + (n - m) + 2
    <3>1. e * T = k * T + n * T - m * T + 2 * T /\ e \in Int
      BY <1>1
    <3>2. j * T = e * T + (j - e) * T /\ j - e \in Nat
      BY <1>1, <3>1
    <3>3. (j - e) * T \in Nat
      BY <3>2
    <3> HIDE DEF e
    <3> QED
      BY <1>1, <3>1, <3>2, <3>3
  <2> QED
    BY <1>1, <2>1, <2>3, <2>4, <2>5
<1> QED
  BY <1>2, <1>3

LEMMA StartBeforeEnd ==
  ASSUME ShardLimits, NEW m \in 1 .. MaxActive, NEW n \in 1 .. MaxActive,
         NEW h \in 0 .. m - 1, NEW l \in 0 .. n - 1, NEW radius \in Nat \ {0},
         h - l \in {-1, 0, 1}, (m - h) - (n - l) \in {-1, 0, 1}, h >= radius
  PROVE  (h - radius) * PartitionSize(m) < (l + radius + 1) * PartitionSize(n) - 1
<1> DEFINE S == PartitionSize(m)
           T == PartitionSize(n)
           k == h - radius
           j == l + radius + 1
<1>1. /\ AddressSpace \in Nat /\ m \in Nat \ {0} /\ n \in Nat \ {0} /\ S \in Nat /\ T \in Nat
      /\ 2 * (m * S) <= 2 * AddressSpace + m
      /\ 2 * AddressSpace - n < 2 * (n * T) /\ 2 * T > 3 * n + 2
  BY SizeFits
<1>2. k \in 0 .. m /\ j \in Int /\ j >= k + 2 /\ j >= k + (n - m) + 2 /\ m <= n + 2
  BY <1>1
<1> HIDE DEF S, T, k, j
<1>3. k * S < j * T - 1
  BY <1>1, <1>2, RangesMeet
<1> QED
  BY <1>3 DEF S, T, k, j

LEMMA PiecesOfRange ==
  ASSUME NEW n, NEW r
  PROVE  LET p == AddressPieces(n, r) IN
         /\ IsSplit(r) => /\ DOMAIN p = 1 .. 2 /\ Len(p) = 2
                          /\ p[1] = AddressRange(n, 0, r.end)
                          /\ p[2] = AddressRange(n, r.start, n - 1)
         /\ ~IsSplit(r) => /\ DOMAIN p = 1 .. 1 /\ Len(p) = 1
                           /\ p[1] = AddressRange(n, r.start, r.end)
<1>1. CASE IsSplit(r)
  <2>1. Pieces(n, r) = <<[start |-> 0, end |-> r.end], [start |-> r.start, end |-> n - 1]>>
    BY <1>1 DEF Pieces
  <2>2. /\ DOMAIN AddressPieces(n, r) = 1 .. 2
        /\ AddressPieces(n, r)[1] = AddressRange(n, 0, r.end)
        /\ AddressPieces(n, r)[2] = AddressRange(n, r.start, n - 1)
    BY <2>1 DEF AddressPieces
  <2>3. Len(AddressPieces(n, r)) = 2
    BY <2>2
  <2> QED
    BY <1>1, <2>2, <2>3
<1>2. CASE ~IsSplit(r)
  <2>1. Pieces(n, r) = <<r>>
    BY <1>2 DEF Pieces
  <2>2. DOMAIN AddressPieces(n, r) = 1 .. 1 /\ AddressPieces(n, r)[1] = AddressRange(n, r.start, r.end)
    BY <2>1 DEF AddressPieces
  <2>3. Len(AddressPieces(n, r)) = 1
    BY <2>2
  <2> QED
    BY <1>2, <2>2, <2>3
<1> QED
  BY <1>1, <1>2

(* Every piece of the new range is compared with an old piece that it      *)
(* overlaps, if the new range is not the first to be split. When the old   *)
(* range was split and the new one is not, the new one begins or ends      *)
(* where the circle does.                                                  *)
Compared(m, h, n, l, radius, k) ==
  LET old == AddressPieces(m, PartitionRange(m, h, radius))
      new == AddressPieces(n, PartitionRange(n, l, radius))
  IN /\ Len(old) \in {1, 2} /\ DOMAIN old = 1 .. Len(old)
     /\ \A i \in DOMAIN old : old[i] \in [low : Int, high : Int]
     /\ new[k] \in [low : Int, high : Int]
     /\ \E i \in DOMAIN old : <<i, k>> \in ComparedPieces(old, new) /\ Overlap(old[i], new[k])

LEMMA NewOverlapsOld ==
  ASSUME ShardLimits, NEW m \in 1 .. MaxActive, NEW n \in 1 .. MaxActive,
         NEW h \in 0 .. m - 1, NEW l \in 0 .. n - 1, NEW radius \in Nat \ {0},
         h - l \in {-1, 0, 1}, (m - h) - (n - l) \in {-1, 0, 1},
         IsSplit(PartitionRange(n, l, radius)) => IsSplit(PartitionRange(m, h, radius)),
         NEW k \in DOMAIN AddressPieces(n, PartitionRange(n, l, radius))
  PROVE  Compared(m, h, n, l, radius, k)
<1> DEFINE r == PartitionRange(m, h, radius)
           s == PartitionRange(n, l, radius)
           old == AddressPieces(m, r)
           new == AddressPieces(n, s)
           Z == AddressSpace - 1
           S == PartitionSize(m)
           T == PartitionSize(n)
<1>1. /\ m \in Nat \ {0} /\ n \in Nat \ {0} /\ radius \in Nat
      /\ Z \in Int /\ S \in Nat /\ T \in Nat
  BY SizeFits
<1>2. /\ r.start \in 0 .. m - 1 /\ r.end \in 0 .. m - 1
      /\ m <= 2 * radius + 1 => r.start = 0 /\ r.end = m - 1
      /\ m > 2 * radius + 1 =>
           /\ r.start = IF h >= radius THEN h - radius ELSE h - radius + m
           /\ r.end = IF h + radius < m THEN h + radius ELSE h + radius - m
  <2>1. Reaches(m, h, radius, r)
    BY <1>1, RangeShape
  <2> QED
    BY <2>1 DEF Reaches
<1>3. /\ s.start \in 0 .. n - 1 /\ s.end \in 0 .. n - 1
      /\ n <= 2 * radius + 1 => s.start = 0 /\ s.end = n - 1
      /\ n > 2 * radius + 1 =>
           /\ s.start = IF l >= radius THEN l - radius ELSE l - radius + n
           /\ s.end = IF l + radius < n THEN l + radius ELSE l + radius - n
  <2>1. Reaches(n, l, radius, s)
    BY <1>1, RangeShape
  <2> QED
    BY <2>1 DEF Reaches
<1>4. /\ IsSplit(r) => /\ DOMAIN old = 1 .. 2 /\ Len(old) = 2
                       /\ old[1] = AddressRange(m, 0, r.end)
                       /\ old[2] = AddressRange(m, r.start, m - 1)
      /\ ~IsSplit(r) => /\ DOMAIN old = 1 .. 1 /\ Len(old) = 1
                        /\ old[1] = AddressRange(m, r.start, r.end)
  BY PiecesOfRange
<1>5. /\ IsSplit(s) => /\ DOMAIN new = 1 .. 2 /\ Len(new) = 2
                       /\ new[1] = AddressRange(n, 0, s.end)
                       /\ new[2] = AddressRange(n, s.start, n - 1)
      /\ ~IsSplit(s) => /\ DOMAIN new = 1 .. 1 /\ Len(new) = 1
                        /\ new[1] = AddressRange(n, s.start, s.end)
  BY PiecesOfRange
<1>6. ASSUME NEW f \in 0 .. m - 1, NEW e \in f .. m - 1
      PROVE  LET p == AddressRange(m, f, e) IN
             /\ p \in [low : Int, high : Int]
             /\ p.low = f * S /\ p.low >= 0 /\ p.low < Z
             /\ p.high > 0 /\ p.high <= Z
             /\ f = 0 => p.low = 0
             /\ p.high = IF e = m - 1 THEN Z ELSE (e + 1) * S - 1
  BY RunAddresses
<1>7. ASSUME NEW f \in 0 .. n - 1, NEW e \in f .. n - 1
      PROVE  LET p == AddressRange(n, f, e) IN
             /\ p \in [low : Int, high : Int]
             /\ p.low = f * T /\ p.low >= 0 /\ p.low < Z
             /\ p.high > 0 /\ p.high <= Z
             /\ f = 0 => p.low = 0
             /\ p.high = IF e = n - 1 THEN Z ELSE (e + 1) * T - 1
  BY RunAddresses
<1>8. h >= radius => (h - radius) * S < (l + radius + 1) * T - 1
  BY StartBeforeEnd
<1>9. l >= radius => (l - radius) * T < (h + radius + 1) * S - 1
  <2>1. l - h \in {-1, 0, 1} /\ (n - l) - (m - h) \in {-1, 0, 1}
    BY <1>1
  <2> QED
    BY <2>1, StartBeforeEnd
<1> k \in DOMAIN new /\ (IsSplit(s) => IsSplit(r))
  OBVIOUS
<1> HIDE DEF r, s, old, new, Z, S, T
<1> SUFFICES /\ Len(old) \in {1, 2} /\ DOMAIN old = 1 .. Len(old)
             /\ \A i \in DOMAIN old : old[i] \in [low : Int, high : Int]
             /\ new[k] \in [low : Int, high : Int]
             /\ \E i \in DOMAIN old : <<i, k>> \in ComparedPieces(old, new) /\ Overlap(old[i], new[k])
  BY DEF Compared, r, s, old, new
<1>10. CASE IsSplit(r) /\ IsSplit(s)
  <2>1. /\ old[1] \in [low : Int, high : Int] /\ old[1].low = 0 /\ old[1].high > 0
        /\ new[1] \in [low : Int, high : Int] /\ new[1].low = 0 /\ new[1].high > 0
    <3>1. 0 \in 0 .. m - 1 /\ r.end \in 0 .. m - 1 /\ 0 \in 0 .. n - 1 /\ s.end \in 0 .. n - 1
      BY <1>1, <1>2, <1>3
    <3> QED
      BY <1>4, <1>5, <1>6, <1>7, <1>10, <3>1
  <2>2. /\ old[2] \in [low : Int, high : Int] /\ old[2].low < Z /\ old[2].high = Z
        /\ new[2] \in [low : Int, high : Int] /\ new[2].low < Z /\ new[2].high = Z
    <3>1. m - 1 \in r.start .. m - 1 /\ n - 1 \in s.start .. n - 1
      BY <1>1, <1>2, <1>3
    <3> QED
      BY <1>2, <1>3, <1>4, <1>5, <1>6, <1>7, <1>10, <3>1
  <2>3. Overlap(old[1], new[1]) /\ Overlap(old[2], new[2])
    BY <1>1, <2>1, <2>2 DEF Overlap
  <2>4. ComparedPieces(old, new) = {<<1, 1>>, <<2, 2>>}
    BY <1>4, <1>5, <1>10 DEF ComparedPieces
  <2>5. k = 1 \/ k = 2
    BY <1>5, <1>10
  <2>6. \A i \in DOMAIN old : old[i] \in [low : Int, high : Int]
    <3> TAKE i \in DOMAIN old
    <3>1. i = 1 \/ i = 2
      BY <1>4, <1>10
    <3> QED
      BY <2>1, <2>2, <3>1
  <2>7. k \in DOMAIN old /\ <<k, k>> \in ComparedPieces(old, new) /\ Overlap(old[k], new[k])
    BY <1>4, <1>10, <2>3, <2>4, <2>5
  <2>8. new[k] \in [low : Int, high : Int]
    BY <2>1, <2>2, <2>5
  <2> QED
    BY <1>4, <1>10, <2>6, <2>7, <2>8
<1>11. CASE IsSplit(r) /\ ~IsSplit(s)
  <2>1. s.start = 0 \/ s.end = n - 1
    <3>1. r.end < r.start /\ ~(s.end < s.start)
      BY <1>11 DEF IsSplit
    <3>2. m > 2 * radius + 1
      BY <1>1, <1>2, <3>1
    <3>3. CASE n <= 2 * radius + 1
      BY <1>3, <3>3
    <3>4. CASE n > 2 * radius + 1
      <4>1. l >= radius /\ l + radius < n
        BY <1>1, <1>3, <3>1, <3>4
      <4>2. h < radius \/ h + radius >= m
        BY <1>1, <1>2, <3>1, <3>2
      <4>3. l = radius \/ l + radius = n - 1
        BY <1>1, <4>1, <4>2
      <4> QED
        BY <1>1, <1>3, <3>4, <4>1, <4>3
    <3> QED
      BY <1>1, <3>3, <3>4
  <2>2. k = 1 /\ s.end \in s.start .. n - 1
    BY <1>1, <1>3, <1>5, <1>11 DEF IsSplit
  <2>3. /\ new[1] \in [low : Int, high : Int] /\ new[1].low < Z /\ new[1].high > 0
        /\ new[1].low = 0 \/ new[1].high = Z
    BY <1>1, <1>3, <1>5, <1>7, <1>11, <2>1, <2>2
  <2>4. /\ old[1] \in [low : Int, high : Int] /\ old[1].low = 0 /\ old[1].high > 0
    <3>1. 0 \in 0 .. m - 1 /\ r.end \in 0 .. m - 1
      BY <1>1, <1>2
    <3> QED
      BY <1>4, <1>6, <1>11, <3>1
  <2>5. /\ old[2] \in [low : Int, high : Int] /\ old[2].low < Z /\ old[2].high = Z
    <3>1. m - 1 \in r.start .. m - 1
      BY <1>1, <1>2
    <3> QED
      BY <1>2, <1>4, <1>6, <1>11, <3>1
  <2>6. Overlap(old[1], new[1]) \/ Overlap(old[2], new[1])
    BY <1>1, <2>3, <2>4, <2>5 DEF Overlap
  <2>7. ComparedPieces(old, new) = IF Overlap(old[1], new[1]) THEN {<<1, 1>>} ELSE {<<2, 1>>}
    BY <1>4, <1>5, <1>11 DEF ComparedPieces
  <2>8. \A i \in DOMAIN old : old[i] \in [low : Int, high : Int]
    <3> TAKE i \in DOMAIN old
    <3>1. i = 1 \/ i = 2
      BY <1>4, <1>11
    <3> QED
      BY <2>4, <2>5, <3>1
  <2>9. \E i \in DOMAIN old : <<i, k>> \in ComparedPieces(old, new) /\ Overlap(old[i], new[k])
    <3>1. 1 \in DOMAIN old /\ 2 \in DOMAIN old
      BY <1>4, <1>11
    <3>2. CASE Overlap(old[1], new[1])
      BY <2>2, <2>7, <3>1, <3>2
    <3>3. CASE ~Overlap(old[1], new[1])
      <4>1. <<2, 1>> \in ComparedPieces(old, new)
        BY <2>7, <3>3
      <4> QED
        BY <2>2, <2>6, <3>1, <3>3, <4>1
    <3> QED
      BY <3>2, <3>3
  <2> QED
    BY <1>4, <1>11, <2>2, <2>3, <2>8, <2>9
<1>12. CASE ~IsSplit(r) /\ ~IsSplit(s)
  <2>1. k = 1 /\ s.end \in s.start .. n - 1 /\ r.end \in r.start .. m - 1
    BY <1>1, <1>2, <1>3, <1>5, <1>12 DEF IsSplit
  <2>2. /\ old[1] \in [low : Int, high : Int] /\ old[1].low < Z /\ old[1].high > 0
        /\ old[1].low = r.start * S /\ (r.start = 0 => old[1].low = 0)
        /\ old[1].high = IF r.end = m - 1 THEN Z ELSE (r.end + 1) * S - 1
    BY SMTT(30), <1>2, <1>4, <1>6, <1>12, <2>1
  <2>3. /\ new[1] \in [low : Int, high : Int] /\ new[1].low < Z /\ new[1].high > 0
        /\ new[1].low = s.start * T /\ (s.start = 0 => new[1].low = 0)
        /\ new[1].high = IF s.end = n - 1 THEN Z ELSE (s.end + 1) * T - 1
    <3>1. new[1] = AddressRange(n, s.start, s.end)
      BY <1>5, <1>12
    <3>2. s.start \in 0 .. n - 1 /\ s.end \in s.start .. n - 1
      BY <1>3, <2>1
    <3> QED
      BY <1>7, <3>1, <3>2
  <2>4. \/ m <= 2 * radius + 1 /\ old[1].low = 0 /\ old[1].high = Z
        \/ n <= 2 * radius + 1 /\ new[1].low = 0 /\ new[1].high = Z
        \/ /\ r.start = h - radius /\ r.end = h + radius /\ h >= radius
           /\ s.start = l - radius /\ s.end = l + radius /\ l >= radius
    <3>1. ~(r.end < r.start) /\ ~(s.end < s.start)
      BY <1>12 DEF IsSplit
    <3>2. CASE m <= 2 * radius + 1
      BY <1>2, <2>2, <3>2
    <3>3. CASE n <= 2 * radius + 1
      BY <1>3, <2>3, <3>3
    <3>4. CASE m > 2 * radius + 1 /\ n > 2 * radius + 1
      BY <1>1, <1>2, <1>3, <3>1, <3>4
    <3> QED
      BY <1>1, <3>2, <3>3, <3>4
  <2>5. old[1].low < new[1].high
    BY <1>1, <1>8, <2>2, <2>3, <2>4
  <2>6. new[1].low < old[1].high
    BY <1>1, <1>9, <2>2, <2>3, <2>4
  <2>7. Overlap(old[1], new[1])
    BY <2>2, <2>3, <2>5, <2>6 DEF Overlap
  <2>8. ComparedPieces(old, new) = {<<1, 1>>}
    BY <1>4, <1>5, <1>12 DEF ComparedPieces
  <2>9. \A i \in DOMAIN old : old[i] \in [low : Int, high : Int]
    <3> TAKE i \in DOMAIN old
    <3>1. i = 1
      BY <1>4, <1>12
    <3> QED
      BY <2>2, <3>1
  <2>10. 1 \in DOMAIN old /\ <<1, k>> \in ComparedPieces(old, new) /\ Overlap(old[1], new[k])
    BY <1>4, <1>12, <2>1, <2>7, <2>8
  <2> QED
    BY <1>4, <1>12, <2>1, <2>3, <2>9, <2>10
<1> QED
  BY <1>10, <1>11, <1>12

(* The property GrowthFetched of the run algorithms: what a node newly     *)
(* stores is among the changes of computeCoverageChanges, for every number *)
(* of nodes and every size of groups, unless the range is split by the     *)
(* very change (calculateChangeInCoverage). That at most one node joins or *)
(* leaves on either side is needed where the range wraps no more, and      *)
(* where it is in one piece before and after.                              *)
THEOREM GrowthIsListed == CoverageSpec => GrowthFetched
<1>1. ASSUME CoverageType, CoverageType', NEW l \in Nat, NEW u \in Nat,
             l - lower \in {-1, 0, 1}, u - upper \in {-1, 0, 1}, NextCycle(l, u)
      PROVE  GrowthIsFetched
  <2> DEFINE m == Active
             n == l + u + 1
             s == Stored(n, l)
             g == Globals(m, sizes)
             radius == g.radius + g.edge
             old == AddressPieces(m, OurRange)
             new == AddressPieces(n, s)
  <2>1. /\ lower' = l /\ upper' = u /\ sizes' = sizes
        /\ stocked' = (stocked \cup Fetched(l, u)) \cap Covered(n, l)
    BY <1>1 DEF NextCycle
  <2>2. Active' = n /\ OurRange' = s /\ OurAddresses' = Covered(n, l)
    BY <2>1 DEF Active, OurRange, OurAddresses, Stored, Covered
  <2>3. m \in 1 .. MaxActive /\ n \in 1 .. MaxActive /\ lower \in 0 .. m - 1 /\ l \in 0 .. n - 1
    <3>1. m <= MaxActive /\ n <= MaxActive
      BY <1>1, <2>2 DEF CoverageType
    <3>2. m = lower + upper + 1 /\ lower \in Nat /\ upper \in Nat /\ MaxActive \in Nat
      BY <1>1, ShardAssumption DEF CoverageType, Active, ShardLimits
    <3> QED
      BY <3>1, <3>2
  <2>4. lower - l \in {-1, 0, 1} /\ (m - lower) - (n - l) \in {-1, 0, 1}
    BY <1>1 DEF CoverageType, Active
  <2>5. /\ radius \in Nat \ {0}
        /\ OurRange = PartitionRange(m, lower, radius) /\ s = PartitionRange(n, l, radius)
    <3>1. g.n = m /\ g.radius \in Nat \ {0} /\ g.edge \in Nat
      BY <1>1, <2>3, ShardAssumption, GlobalsOfSizes DEF CoverageType
    <3>2. /\ Globals(n, sizes).n = n /\ Globals(n, sizes).radius = g.radius
          /\ Globals(n, sizes).edge = g.edge
      BY DEF Globals, ShardGlobals
    <3> QED
      BY <3>1, <3>2 DEF OurRange, Stored, StoredPartitions
  <2>6. SUFFICES ASSUME ~(IsSplit(s) /\ ~IsSplit(OurRange)),
                        NEW a \in Covered(n, l), a \notin OurAddresses
                 PROVE  a \in Fetched(l, u)
    BY <2>1, <2>2 DEF GrowthIsFetched, IsSplit
  <2>7. PICK k \in DOMAIN new : a \in Span(new[k])
    BY <2>6 DEF Covered
  <2>8. \A j \in DOMAIN old : a \notin Span(old[j])
    BY <2>6 DEF OurAddresses, Covered, OurRange
  <2> HIDE DEF m, n, s, radius, old, new
  <2>9. Compared(m, lower, n, l, radius, k)
    <3>1. k \in DOMAIN AddressPieces(n, PartitionRange(n, l, radius))
      BY <2>5 DEF new
    <3>2. IsSplit(PartitionRange(n, l, radius)) => IsSplit(PartitionRange(m, lower, radius))
      BY <2>5, <2>6
    <3> QED
      BY <2>3, <2>4, <2>5, <3>1, <3>2, ShardAssumption, NewOverlapsOld
  <2>10. /\ Len(old) \in {1, 2} /\ DOMAIN old = 1 .. Len(old)
         /\ \A i \in DOMAIN old : old[i] \in [low : Int, high : Int]
         /\ new[k] \in [low : Int, high : Int]
         /\ \E i \in DOMAIN old : <<i, k>> \in ComparedPieces(old, new) /\ Overlap(old[i], new[k])
    BY <2>5, <2>9 DEF Compared, old, new
  <2>11. a \in Int
    BY <2>7, <2>10 DEF Span
  <2>12. \E c \in CoverageChanges(m, OurRange, n, s) : a \in Span(c)
    BY <2>7, <2>8, <2>10, <2>11, ComparedIsFetched DEF old, new
  <2> QED
    BY <2>12 DEF Fetched, m, n, s
<1>2. CoverageType /\ CoverageType' /\ [CoverageNext]_coverageVars => [GrowthIsFetched]_coverageVars
  <2> SUFFICES ASSUME CoverageType, CoverageType', CoverageNext PROVE GrowthIsFetched
    OBVIOUS
  <2>1. PICK l \in {lower - 1, lower, lower + 1} \cap Nat, u \in {upper - 1, upper, upper + 1} \cap Nat :
          NextCycle(l, u)
    BY DEF CoverageNext
  <2>2. l - lower \in {-1, 0, 1} /\ u - upper \in {-1, 0, 1}
    BY DEF CoverageType
  <2> QED
    BY <1>1, <2>1, <2>2
<1> QED
  BY <1>2, CoverageTyped, PTL DEF CoverageSpec, GrowthFetched
-----------------------------------------------------------------------------
(***************************************************************************)
(* FactTell: who tells whom                                                *)
(***************************************************************************)

(* Induction over the natural numbers, stated for a set.                   *)
LEMMA SetInduction ==
  ASSUME NEW T, 0 \in T, \A i \in Nat : i \in T => i + 1 \in T
  PROVE  \A i \in Nat : i \in T
<1> SUFFICES ASSUME Nat \ T # {} PROVE FALSE
  OBVIOUS
<1> DEFINE R == {ss \in Nat \X Nat : ss[1] < ss[2]}
<1>1. \A x, y \in Nat : x < y => <<x, y>> \in R
  OBVIOUS
<1>2. IsWellFoundedOn(R, Nat)
  BY NatLessThanWellFounded, Zenon DEF OpToRel
<1> HIDE DEF R
<1>3. PICK x \in Nat \ T : \A y \in Nat \ T : ~(<<y, x>> \in R)
  <2> Nat \ T \subseteq Nat
    OBVIOUS
  <2> QED
    BY <1>2, WFMin
<1>4. x - 1 \in Nat /\ x - 1 < x /\ (x - 1) + 1 = x
  BY <1>3
<1>5. x - 1 \notin T
  BY <1>3, <1>4
<1> QED
  BY <1>1, <1>3, <1>4, <1>5

(* A function that is defined by its first value and a step exists.        *)
Begins(u, m, a, step) ==
  /\ u \in [0 .. m -> Int] /\ u[0] = a
  /\ \A i \in 0 .. m : i # 0 => u[i] = step[u[i - 1]]

LEMMA StepsExist ==
  ASSUME NEW a \in Int, NEW step \in [Int -> Int]
  PROVE  \A m \in Nat : \E u : Begins(u, m, a, step)
<1> DEFINE T == {m \in Nat : \E u : Begins(u, m, a, step)}
<1>1. 0 \in T
  <2> DEFINE u == [i \in 0 .. 0 |-> a]
  <2>1. Begins(u, 0, a, step)
    BY DEF Begins
  <2> QED
    BY <2>1
<1>2. ASSUME NEW m \in Nat, m \in T PROVE m + 1 \in T
  <2>1. PICK u : Begins(u, m, a, step)
    BY <1>2
  <2> DEFINE w == [i \in 0 .. m + 1 |-> IF i = m + 1 THEN step[u[m]] ELSE u[i]]
  <2>2. u[m] \in Int /\ \A i \in 0 .. m : u[i] \in Int
    BY <2>1 DEF Begins
  <2>3. w \in [0 .. m + 1 -> Int]
    BY <2>2
  <2>4. \A i \in 0 .. m : w[i] = u[i]
    OBVIOUS
  <2>5. w[m + 1] = step[u[m]]
    OBVIOUS
  <2> HIDE DEF w
  <2>6. ASSUME NEW i \in 0 .. m + 1, i # 0 PROVE w[i] = step[w[i - 1]]
    <3>1. CASE i = m + 1
      <4>1. i - 1 = m /\ m \in 0 .. m
        BY <3>1
      <4>2. w[i - 1] = u[m]
        BY <2>4, <4>1
      <4> QED
        BY <2>5, <3>1, <4>2
    <3>2. CASE i # m + 1
      <4>1. i \in 0 .. m /\ i - 1 \in 0 .. m
        BY <2>6, <3>2
      <4>2. u[i] = step[u[i - 1]]
        BY <2>1, <2>6, <4>1 DEF Begins
      <4> QED
        BY <2>4, <4>1, <4>2
    <3> QED
      BY <3>1, <3>2
  <2>7. w[0] = a
    BY <2>1, <2>4, SMTT(30) DEF Begins
  <2>8. Begins(w, m + 1, a, step)
    BY <2>3, <2>6, <2>7 DEF Begins
  <2> QED
    BY <2>8
<1> HIDE DEF T
<1>3. \A m \in Nat : m \in T
  BY <1>1, <1>2, SetInduction
<1> QED
  BY <1>3 DEF T

LEMMA StepsAgree ==
  ASSUME NEW a, NEW step, NEW m \in Nat, NEW l \in Nat, NEW u, NEW w,
         Begins(u, m, a, step), Begins(w, l, a, step)
  PROVE  \A i \in Nat : i <= m /\ i <= l => u[i] = w[i]
<1> DEFINE T == {i \in Nat : i <= m /\ i <= l => u[i] = w[i]}
<1>1. 0 \in T
  BY DEF Begins
<1>2. ASSUME NEW i \in Nat, i \in T PROVE i + 1 \in T
  <2> SUFFICES ASSUME i + 1 <= m, i + 1 <= l PROVE u[i + 1] = w[i + 1]
    OBVIOUS
  <2>1. i + 1 \in 0 .. m /\ i + 1 \in 0 .. l /\ i + 1 # 0 /\ (i + 1) - 1 = i
    OBVIOUS
  <2>2. u[i] = w[i]
    BY <1>2
  <2>3. u[i + 1] = step[u[i]]
    BY <2>1 DEF Begins
  <2>4. w[i + 1] = step[w[i]]
    BY <2>1 DEF Begins
  <2> QED
    BY <2>2, <2>3, <2>4
<1> HIDE DEF T
<1>3. \A i \in Nat : i \in T
  BY <1>1, <1>2, SetInduction
<1> QED
  BY <1>3 DEF T

LEMMA StepFunction ==
  ASSUME NEW a \in Int, NEW step \in [Int -> Int]
  PROVE  \E p : p = [k \in Nat |-> IF k = 0 THEN a ELSE step[p[k - 1]]]
<1> DEFINE F(m) == CHOOSE u : Begins(u, m, a, step)
           p == [k \in Nat |-> F(k)[k]]
<1>1. \A m \in Nat : Begins(F(m), m, a, step)
  BY StepsExist
<1> HIDE DEF F
<1>2. ASSUME NEW k \in Nat, k # 0 PROVE F(k)[k] = step[F(k - 1)[k - 1]]
  <2>1. k - 1 \in Nat /\ k - 1 <= k - 1 /\ k - 1 <= k /\ k \in 0 .. k
    BY <1>2
  <2>2. F(k)[k] = step[F(k)[k - 1]]
    BY <1>1, <1>2, <2>1 DEF Begins
  <2>3. Begins(F(k), k, a, step) /\ Begins(F(k - 1), k - 1, a, step)
    BY <1>1, <2>1
  <2>4. F(k)[k - 1] = F(k - 1)[k - 1]
    BY <2>1, <2>3, StepsAgree
  <2> QED
    BY <2>2, <2>4
<1>3. F(0)[0] = a
  BY <1>1 DEF Begins
<1>4. \A k \in Nat : k # 0 => p[k - 1] = F(k - 1)[k - 1]
  OBVIOUS
<1>5. ASSUME NEW k \in Nat PROVE F(k)[k] = IF k = 0 THEN a ELSE step[p[k - 1]]
  BY <1>2, <1>3, <1>4
<1>6. p = [k \in Nat |-> IF k = 0 THEN a ELSE step[p[k - 1]]]
  <2> DEFINE q == [k \in Nat |-> IF k = 0 THEN a ELSE step[p[k - 1]]]
  <2>1. \A k \in Nat : p[k] = q[k]
    BY <1>5
  <2>2. p = [k \in Nat |-> p[k]] /\ q = [k \in Nat |-> q[k]]
    OBVIOUS
  <2> HIDE DEF p, q
  <2>3. p = q
    BY <2>1, <2>2
  <2> QED
    BY <2>3 DEF q
<1> HIDE DEF p
<1> QED
  BY <1>6

(* A run of n numbers has every rest of the division by n, once.           *)
LEMMA RestInRun ==
  ASSUME NEW n \in Nat \ {0}, NEW p \in Int, NEW r \in 0 .. n - 1
  PROVE  \E j \in p .. p + n - 1 : j % n = r
<1> DEFINE x == r - p
           d == x % n
           q == x \div n
           j == p + d
<1>1. x \in Int /\ q \in Int /\ d \in 0 .. n - 1 /\ x = q * n + d
  OBVIOUS
<1> HIDE DEF d, q
<1>2. -q \in Int /\ (-q) * n = -(q * n) /\ q * n \in Int
  BY <1>1
<1>3. j = (-q) * n + r /\ j \in p .. p + n - 1
  BY <1>1, <1>2
<1> HIDE DEF j
<1>4. j % n = r
  BY <1>2, <1>3, RestUnique
<1> QED
  BY <1>3, <1>4

LEMMA RestOnce ==
  ASSUME NEW n \in Nat \ {0}, NEW i \in Int, NEW j \in Int, i - j < n, j - i < n,
         NEW offset \in Int, (i + offset) % n = (j + offset) % n
  PROVE  i = j
<1> DEFINE x == i + offset
           y == j + offset
<1>1. x \in Int /\ y \in Int /\ x - y = i - j /\ x % n = y % n
  OBVIOUS
<1>2. /\ x \div n \in Int /\ x = (x \div n) * n + (x % n) /\ x % n \in 0 .. n - 1
      /\ y \div n \in Int /\ y = (y \div n) * n + (y % n)
  BY <1>1
<1> HIDE DEF x, y
<1> DEFINE a == x \div n
           b == y \div n
<1>3. (a - b) * n = i - j
  BY <1>1, <1>2
<1>4. a \in Int /\ b \in Int
  BY <1>2
<1> HIDE DEF a, b
<1>5. ~(a - b >= 1)
  <2> SUFFICES ASSUME a - b >= 1 PROVE FALSE
    OBVIOUS
  <2>1. (a - b) * n >= n
    BY <1>4, Multiple
  <2> QED
    BY <1>3, <2>1
<1>6. ~(b - a >= 1)
  <2> SUFFICES ASSUME b - a >= 1 PROVE FALSE
    OBVIOUS
  <2>1. (b - a) * n >= n
    BY <1>4, Multiple
  <2>2. (b - a) * n = j - i
    BY <1>3, <1>4
  <2> QED
    BY <2>1, <2>2
<1>7. a - b = 0
  BY <1>4, <1>5, <1>6
<1> QED
  BY <1>3, <1>7

(* What getCorrespondingNodes computes, with its steps as a function.      *)
Stop(span, size) == IF span.start > span.end THEN span.end + size ELSE span.end
TargetsIn(our, span, offset, receivers, senders, size) ==
  {i \in span.start .. Stop(span, size) - 1 : (i + offset) % receivers = our % senders}
Wrap(i, size) == IF i >= size THEN i - size ELSE i
InSpan(i, span, receivers, size) == IF i >= Stop(span, size) THEN i - receivers ELSE i
PastSplit(i, span) ==
  IF span.start > span.end /\ i >= span.end THEN span.start + (i - span.end) ELSE i
Following(span, receivers, senders, size) ==
  [y \in Int |-> PastSplit(InSpan(Wrap(y + senders, size), span, receivers, size), span)]

LEMMA AllWhole ==
  ASSUME NEW p, p[0] \in Int, \A k \in Nat : p[k] \in Int => p[k + 1] \in Int
  PROVE  \A k \in Nat : p[k] \in Int
<1> DEFINE T == {k \in Nat : p[k] \in Int}
<1>1. 0 \in T
  OBVIOUS
<1>2. \A k \in Nat : k \in T => k + 1 \in T
  OBVIOUS
<1> HIDE DEF T
<1>3. \A k \in Nat : k \in T
  BY <1>1, <1>2, SetInduction
<1> QED
  BY <1>3 DEF T

LEMMA Corresponding ==
  ASSUME NEW our, NEW span, NEW offset, NEW receivers \in Int, NEW senders \in Int, NEW size \in Int,
         span.start \in Int, span.end \in Int,
         NEW first \in TargetsIn(our, span, offset, receivers, senders, size),
         \A i \in TargetsIn(our, span, offset, receivers, senders, size) : i = first
  PROVE  \E place :
           /\ place[0] = Wrap(first, size)
           /\ \A k \in Nat : k # 0 => place[k] = Following(span, receivers, senders, size)[place[k - 1]]
           /\ CorrespondingNodes(our, span, offset, receivers, senders, size)
                = {place[k] : k \in 0 .. (receivers - 1 - (our % senders)) \div senders}
<1> DEFINE stop == IF span.start > span.end THEN span.end + size ELSE span.end
           aim == our % senders
           found == {i \in span.start .. stop - 1 : (i + offset) % receivers = aim}
           wrapped(i) == IF i >= size THEN i - size ELSE i
           inSpan(i) == IF i >= stop THEN i - receivers ELSE i
           pastSplit(i) ==
             IF span.start > span.end /\ i >= span.end THEN span.start + (i - span.end) ELSE i
           step == Following(span, receivers, senders, size)
           next(p, k) == IF k = 0 THEN wrapped(FirstOf(found))
                                  ELSE pastSplit(inSpan(wrapped(p[k - 1] + senders)))
           place == CHOOSE p : p = [k \in Nat |-> next(p, k)]
<1>1. CorrespondingNodes(our, span, offset, receivers, senders, size) =
        IF found = {} THEN {} ELSE {place[k] : k \in 0 .. (receivers - 1 - aim) \div senders}
  BY DEF CorrespondingNodes
<1>2. found = TargetsIn(our, span, offset, receivers, senders, size)
  BY DEF TargetsIn, Stop
<1>3. found # {} /\ FirstOf(found) = first /\ first \in Int
  <2>1. first \in found /\ \A i \in found : i = first
    BY <1>2
  <2>2. \A i \in found : i \in Int
    BY DEF Stop
  <2> HIDE DEF found
  <2>3. FirstOf(found) = first
    BY <2>1, <2>2 DEF FirstOf
  <2> QED
    BY <2>1, <2>2, <2>3
<1>4. wrapped(first) = Wrap(first, size) /\ wrapped(first) \in Int
  BY <1>3 DEF Wrap
<1>5. step \in [Int -> Int]
  BY DEF Following, PastSplit, InSpan, Wrap, Stop
<1>6. \A y \in Int : step[y] = pastSplit(inSpan(wrapped(y + senders)))
  BY DEF Following, PastSplit, InSpan, Wrap, Stop
<1> HIDE DEF found, step
<1>7. \E p : p = [k \in Nat |-> next(p, k)]
  <2> DEFINE a == wrapped(first)
  <2>1. a \in Int /\ a = wrapped(FirstOf(found))
    BY <1>3, <1>4
  <2> HIDE DEF a
  <2>2. PICK p : p = [k \in Nat |-> IF k = 0 THEN a ELSE step[p[k - 1]]]
    BY <1>5, <2>1, StepFunction
  <2>3. \A k \in Nat : p[k] \in Int
    <3>1. p[0] \in Int
      BY <2>1, <2>2
    <3>2. ASSUME NEW k \in Nat, p[k] \in Int PROVE p[k + 1] \in Int
      <4>1. p[k + 1] = step[p[k]]
        BY <2>2
      <4> QED
        BY <1>5, <3>2, <4>1
    <3> QED
      BY <3>1, <3>2, AllWhole
  <2>4. ASSUME NEW k \in Nat
        PROVE  (IF k = 0 THEN a ELSE step[p[k - 1]]) = next(p, k)
    <3>1. CASE k = 0
      BY <2>1, <3>1
    <3>2. CASE k # 0
      <4>1. k - 1 \in Nat
        BY <3>2
      <4>2. step[p[k - 1]] = pastSplit(inSpan(wrapped(p[k - 1] + senders)))
        BY <1>6, <2>3, <4>1
      <4> QED
        BY <3>2, <4>2
    <3> QED
      BY <3>1, <3>2
  <2>5. p = [k \in Nat |-> next(p, k)]
    <3> HIDE DEF next
    <3> QED
      BY <2>2, <2>4
  <2> QED
    BY <2>5
<1>8. place = [k \in Nat |-> next(place, k)]
  <2> HIDE DEF next
  <2> QED
    BY <1>7
<1> HIDE DEF place, aim
<1>9. place[0] = Wrap(first, size) /\ place[0] \in Int
  BY <1>3, <1>4, <1>8
<1>10. \A k \in Nat : k # 0 => place[k] = pastSplit(inSpan(wrapped(place[k - 1] + senders)))
  BY <1>8
<1>11. \A k \in Nat : place[k] \in Int
  <2>1. ASSUME NEW k \in Nat, place[k] \in Int PROVE place[k + 1] \in Int
    <3>1. place[k + 1] = pastSplit(inSpan(wrapped(place[k] + senders)))
      BY <1>10
    <3> QED
      BY <2>1, <3>1
  <2> QED
    BY <1>9, <2>1, AllWhole
<1>12. ASSUME NEW k \in Nat, k # 0 PROVE place[k] = step[place[k - 1]]
  <2>1. k - 1 \in Nat
    BY <1>12
  <2>2. place[k - 1] \in Int
    BY <1>11, <2>1
  <2> QED
    BY <1>6, <1>10, <1>12, <2>2
<1> QED
  BY <1>1, <1>3, <1>9, <1>12 DEF step, aim

(* Told before the execution: the member of the execution group whose      *)
(* place has the rest that the sender's index has.                         *)
(* A span of n places, and where a receiver is in it, unwrapped.           *)
Spans(span, n, size) ==
  /\ span.start \in 0 .. size - 1
  /\ span.end = IF span.start + n > size THEN span.start + n - size ELSE span.start + n
  /\ span.start + n > size => span.start + n - size < span.start
Again(span, x, size) == IF span.start > x THEN x + size ELSE x

LEMMA DataTold ==
  ASSUME NEW size \in Nat \ {0}, NEW n \in 1 .. size, NEW offset \in Nat, NEW our \in Nat,
         NEW span, Spans(span, n, size),
         NEW x \in 0 .. size - 1, Again(span, x, size) \in span.start .. span.start + n - 1,
         (Again(span, x, size) + offset) % n = our % n
  PROVE  /\ CorrespondingNodes(our, span, offset, n, n, size) = {x}
         /\ VerifySender(x, our, span, offset, n, n, size)
<1> SUFFICES ASSUME NEW q, q = span.start, NEW unwrapped, unwrapped = Again(span, x, size)
             PROVE  /\ CorrespondingNodes(our, span, offset, n, n, size) = {x}
                    /\ VerifySender(x, our, span, offset, n, n, size)
  OBVIOUS
<1>0. /\ q \in 0 .. size - 1 /\ unwrapped \in q .. q + n - 1 /\ (unwrapped + offset) % n = our % n
      /\ unwrapped = IF q > x THEN x + size ELSE x
      /\ span.start = q /\ span.end = IF q + n > size THEN q + n - size ELSE q + n
      /\ q + n > size => q + n - size < q
  BY DEF Again, Spans
<1>1. q = span.start /\ q \in Int /\ span.end \in Int /\ Stop(span, size) = q + n
  BY <1>0 DEF Stop
<1>2. TargetsIn(our, span, offset, n, n, size) = {i \in q .. q + n - 1 : (i + offset) % n = our % n}
  BY <1>1 DEF TargetsIn
<1>3. /\ unwrapped \in TargetsIn(our, span, offset, n, n, size)
      /\ \A i \in TargetsIn(our, span, offset, n, n, size) : i = unwrapped
  <2>1. ASSUME NEW i \in q .. q + n - 1, (i + offset) % n = our % n PROVE i = unwrapped
    <3>1. /\ i \in Int /\ unwrapped \in Int /\ i - unwrapped < n /\ unwrapped - i < n
          /\ n \in Nat \ {0} /\ offset \in Int
      BY <1>0, <2>1
    <3>2. (i + offset) % n = (unwrapped + offset) % n
      BY <1>0, <2>1
    <3> QED
      BY <3>1, <3>2, RestOnce
  <2> QED
    BY <1>0, <1>2, <2>1
<1>4. our % n \in 0 .. n - 1
  OBVIOUS
<1>5. (n - 1 - (our % n)) \div n = 0
  <2> DEFINE d == n - 1 - (our % n)
  <2>1. d \in 0 .. n - 1 /\ d = 0 * n + d /\ n \in Nat \ {0} /\ d \in Int /\ 0 \in Int
    BY <1>4
  <2> HIDE DEF d
  <2>2. d \div n = 0
    BY <2>1, RestUnique
  <2> QED
    BY <2>2 DEF d
<1>6. Wrap(unwrapped, size) = x
  BY <1>0 DEF Wrap
<1>7. CorrespondingNodes(our, span, offset, n, n, size) = {x}
  <2>1. PICK place :
          /\ place[0] = Wrap(unwrapped, size)
          /\ CorrespondingNodes(our, span, offset, n, n, size)
               = {place[k] : k \in 0 .. (n - 1 - (our % n)) \div n}
    <3>1. span.start \in Int /\ span.end \in Int /\ n \in Int /\ size \in Int
      BY <1>1
    <3> QED
      BY <1>3, <3>1, Corresponding
  <2>2. {place[k] : k \in 0 .. (n - 1 - (our % n)) \div n} = {place[0]}
    <3> DEFINE last == (n - 1 - (our % n)) \div n
    <3>1. 0 .. last = {0}
      BY <1>5
    <3> HIDE DEF last
    <3>2. {place[k] : k \in 0 .. last} = {place[0]}
      BY <3>1
    <3> QED
      BY <3>2 DEF last
  <2> QED
    BY <1>6, <2>1, <2>2
<1>8. VerifySender(x, our, span, offset, n, n, size)
  <2>1. (unwrapped + offset) % n = (our % n) /\ (our % n) % n = our % n
    <3> DEFINE d == our % n
    <3>1. d \in 0 .. n - 1 /\ d = 0 * n + d /\ n \in Nat \ {0} /\ d \in Int /\ 0 \in Int
      BY <1>4
    <3> HIDE DEF d
    <3>2. d % n = d
      BY <3>1, RestUnique
    <3> QED
      BY <1>0, <3>2 DEF d
  <2>2. (IF span.start > x THEN x + size ELSE x) = unwrapped
    BY <1>0
  <2> QED
    BY <2>1, <2>2 DEF VerifySender
<1> QED
  BY <1>7, <1>8

(* Told after the execution: of the whole group, the members whose place   *)
(* has the rest that the sender's index has. They are a step of as many    *)
(* places apart as there are senders.                                      *)
LEMMA ResultTold ==
  ASSUME NEW size \in Nat \ {0}, NEW n \in 1 .. size, NEW offset \in Nat, NEW our \in Nat,
         NEW span, span = [start |-> 0, end |-> size],
         NEW x \in 0 .. size - 1, ((x + offset) % size) % n = our % n
  PROVE  /\ x \in CorrespondingNodes(our, span, offset, size, n, size)
         /\ VerifySender(x, our, span, offset, size, n, size)
<1> DEFINE aim == our % n
           v == (x + offset) % size
           steps == v \div n
<1>1. span.start = 0 /\ span.end = size /\ Stop(span, size) = size
  BY DEF Stop
<1>2. /\ aim \in 0 .. n - 1 /\ v \in 0 .. size - 1 /\ v % n = aim
      /\ steps \in Nat /\ v = steps * n + aim
  <2>1. x + offset \in Nat
    OBVIOUS
  <2>2. v \in 0 .. size - 1
    BY <2>1
  <2>3. v % n = aim /\ aim \in 0 .. n - 1
    OBVIOUS
  <2> HIDE DEF v, aim
  <2>4. steps \in Nat /\ v = steps * n + (v % n)
    BY <2>2
  <2> QED
    BY <2>2, <2>3, <2>4
<1>3. TargetsIn(our, span, offset, size, n, size)
        = {i \in 0 .. size - 1 : (i + offset) % size = aim}
  BY <1>1 DEF TargetsIn
<1> HIDE DEF aim, v, steps
<1>4. PICK first \in 0 .. size - 1 : (first + offset) % size = aim
  <2>1. aim \in 0 .. size - 1
    BY <1>2
  <2>2. PICK j \in offset .. offset + size - 1 : j % size = aim
    <3>1. offset \in Int
      OBVIOUS
    <3> QED
      BY <2>1, <3>1, RestInRun
  <2>3. j - offset \in 0 .. size - 1 /\ (j - offset) + offset = j
    BY <2>2
  <2> QED
    BY <2>2, <2>3
<1>5. \A i, j \in 0 .. size - 1 : (i + offset) % size = (j + offset) % size => i = j
  <2> TAKE i, j \in 0 .. size - 1
  <2> SUFFICES ASSUME (i + offset) % size = (j + offset) % size PROVE i = j
    OBVIOUS
  <2>1. i \in Int /\ j \in Int /\ i - j < size /\ j - i < size /\ offset \in Int
    OBVIOUS
  <2> QED
    BY <2>1, RestOnce
<1>6. PICK place :
        /\ place[0] = Wrap(first, size)
        /\ \A k \in Nat : k # 0 => place[k] = Following(span, size, n, size)[place[k - 1]]
        /\ CorrespondingNodes(our, span, offset, size, n, size)
             = {place[k] : k \in 0 .. (size - 1 - aim) \div n}
  <2>1. /\ first \in TargetsIn(our, span, offset, size, n, size)
        /\ \A i \in TargetsIn(our, span, offset, size, n, size) : i = first
    BY <1>3, <1>4, <1>5
  <2>2. span.start \in Int /\ span.end \in Int /\ size \in Int /\ n \in Int
    BY <1>1
  <2> QED
    BY <2>1, <2>2, Corresponding DEF aim
<1>7. \A y \in 0 .. size - 1 :
        Following(span, size, n, size)[y] = IF y + n >= size THEN y + n - size ELSE y + n
  BY <1>1 DEF Following, PastSplit, InSpan, Wrap
<1> DEFINE T == {k \in Nat : k * n + aim <= size - 1 =>
                   place[k] \in 0 .. size - 1 /\ (place[k] + offset) % size = k * n + aim}
<1>8. 0 \in T
  <2>1. place[0] = first /\ 0 * n = 0
    BY <1>6 DEF Wrap
  <2> QED
    BY <1>2, <1>4, <2>1
<1>9. ASSUME NEW k \in Nat, k \in T PROVE k + 1 \in T
  <2> DEFINE y == place[k]
             u == k * n + aim
             z == place[k + 1]
  <2>1. (k + 1) * n = k * n + n /\ k * n \in Nat
    OBVIOUS
  <2> SUFFICES ASSUME (k + 1) * n + aim <= size - 1
               PROVE  z \in 0 .. size - 1 /\ (z + offset) % size = (k + 1) * n + aim
    OBVIOUS
  <2>2. u \in Nat /\ u + n = (k + 1) * n + aim /\ u + n <= size - 1
    BY <1>2, <2>1
  <2>3. y \in 0 .. size - 1 /\ (y + offset) % size = u
    BY <1>9, <2>2
  <2>4. z = IF y + n >= size THEN y + n - size ELSE y + n
    <3>1. z = Following(span, size, n, size)[y]
      BY <1>6
    <3> QED
      BY <1>7, <2>3, <3>1
  <2> HIDE DEF y, z, u
  <2>5. z \in 0 .. size - 1
    BY <2>3, <2>4
  <2> DEFINE d == (y + offset) \div size
  <2>6. d \in Int /\ y + offset = d * size + u
    BY <2>3
  <2> HIDE DEF d
  <2>7. u + n \in 0 .. size - 1
    BY <2>2
  <2>8. CASE y + n >= size
    <3>1. (d - 1) * size = d * size - size /\ d * size \in Int
      BY <2>6
    <3>2. z + offset = (d - 1) * size + (u + n) /\ d - 1 \in Int /\ z + offset \in Int
      BY <2>3, <2>4, <2>6, <2>8, <3>1
    <3>3. (z + offset) % size = u + n
      BY <2>7, <3>2, RestUnique
    <3> QED
      BY <2>2, <2>5, <3>3
  <2>9. CASE ~(y + n >= size)
    <3>1. z + offset = d * size + (u + n) /\ z + offset \in Int
      <4>1. d * size \in Int
        BY <2>6
      <4> QED
        BY <2>2, <2>3, <2>4, <2>6, <2>9, <4>1
    <3>2. (z + offset) % size = u + n
      BY <2>6, <2>7, <3>1, RestUnique
    <3> QED
      BY <2>2, <2>5, <3>2
  <2> QED
    BY <2>8, <2>9
<1> HIDE DEF T
<1>10. \A k \in Nat : k \in T
  BY <1>8, <1>9, SetInduction
<1>11. place[steps] = x
  <2>1. steps * n + aim <= size - 1
    BY <1>2
  <2>2. place[steps] \in 0 .. size - 1 /\ (place[steps] + offset) % size = v
    BY <1>2, <1>10, <2>1 DEF T
  <2> QED
    BY <1>5, <2>2 DEF v
<1>12. steps \in 0 .. (size - 1 - aim) \div n
  <2> DEFINE w == size - 1 - aim
             d == w \div n
             r == w % n
  <2>1. w \in Int /\ steps * n <= w /\ steps * n \in Nat
    BY <1>2
  <2> HIDE DEF w
  <2>2. d \in Int /\ r \in 0 .. n - 1 /\ w = d * n + r
    BY <2>1
  <2> HIDE DEF d, r
  <2>3. ~(steps - d >= 1)
    <3> SUFFICES ASSUME steps - d >= 1 PROVE FALSE
      OBVIOUS
    <3>1. (steps - d) * n >= n
      BY <1>2, <2>2, Multiple
    <3>2. (steps - d) * n = steps * n - d * n /\ d * n \in Int
      BY <1>2, <2>2
    <3> QED
      BY <2>1, <2>2, <3>1, <3>2
  <2>4. steps <= d
    BY <1>2, <2>2, <2>3
  <2> QED
    BY <1>2, <2>2, <2>4 DEF d, w
<1>13. VerifySender(x, our, span, offset, size, n, size)
  <2>1. (IF span.start > x THEN x + size ELSE x) = x
    BY <1>1
  <2> QED
    BY <2>1 DEF VerifySender
<1> QED
  BY <1>6, <1>11, <1>12, <1>13

(* The members of a consensus group are a run of nodes around the circle.  *)
LEMMA ConsensusRun ==
  ASSUME NEW g, g.n \in Nat \ {0}, g.radius \in Nat, g.edge \in Nat, NEW h \in 0 .. g.n - 1
  PROVE  /\ ConsensusNodes(g, h) \subseteq StorageNodes(g, h)
         /\ StorageNodes(g, h) \subseteq 0 .. g.n - 1
         /\ \E s, e \in 0 .. g.n - 1 :
              /\ ConsensusNodes(g, h) = IF s <= e THEN s .. e ELSE (0 .. e) \cup (s .. g.n - 1)
              /\ (IF s <= e THEN e - s + 1 ELSE e + 1 + g.n - s)
                   = IF g.n <= 2 * g.radius + 1 THEN g.n ELSE 2 * g.radius + 1
<1> DEFINE n == g.n
           radius == g.radius + g.edge
           r == PartitionRange(n, h, g.radius)
           s == r.start
           e == r.end
<1>1. n \in Nat \ {0} /\ g.radius \in Nat /\ radius \in Nat /\ g.radius <= radius /\ h \in 0 .. n - 1
  OBVIOUS
<1>2. /\ AsSet(Walk(g, h)) \subseteq 0 .. n - 1
      /\ \A p \in 0 .. n - 1 : p \in AsSet(Walk(g, h)) <=> Near(n, h, p, radius)
  BY WalkIsNear
<1>3. \A p \in 0 .. n - 1 :
        /\ InRange(n, p, r) <=> Near(n, h, p, g.radius)
        /\ InRange(n, p, PartitionRange(n, h, radius)) <=> Near(n, h, p, radius)
        /\ Near(n, h, p, g.radius) => Near(n, h, p, radius)
        /\ Near(n, h, h, g.radius)
  BY <1>1, InRangeIsNear, NearGrows
<1>4. ConsensusNodes(g, h) = {p \in AsSet(Walk(g, h)) : p = h \/ InRange(n, p, r)}
  BY DEF ConsensusNodes, ConsensusPartitions
<1>5. StorageNodes(g, h) = {p \in AsSet(Walk(g, h)) : p = h \/ InRange(n, p, PartitionRange(n, h, radius))}
  BY DEF StorageNodes, StoredPartitions
<1>6. Reaches(n, h, g.radius, r)
  BY <1>1, RangeShape
<1> HIDE DEF n, radius, r
<1>7. ConsensusNodes(g, h) = {p \in 0 .. n - 1 : InRange(n, p, r)}
  BY <1>1, <1>2, <1>3, <1>4
<1>8. ConsensusNodes(g, h) \subseteq StorageNodes(g, h) /\ StorageNodes(g, h) \subseteq 0 .. n - 1
  BY <1>1, <1>2, <1>3, <1>4, <1>5
<1>9. /\ s \in 0 .. n - 1 /\ e \in 0 .. n - 1
      /\ n <= 2 * g.radius + 1 => s = 0 /\ e = n - 1
      /\ n > 2 * g.radius + 1 =>
           /\ s = IF h >= g.radius THEN h - g.radius ELSE h - g.radius + n
           /\ e = IF h + g.radius < n THEN h + g.radius ELSE h + g.radius - n
  BY <1>6 DEF Reaches
<1>10. \A p : InRange(n, p, r) <=> IF e < s THEN p \in 0 .. e \/ p \in s .. n - 1 ELSE p \in s .. e
  BY InPieces
<1> HIDE DEF s, e
<1>11. ConsensusNodes(g, h) = IF s <= e THEN s .. e ELSE (0 .. e) \cup (s .. n - 1)
  <2>1. CASE s <= e
    <3>1. \A p \in 0 .. n - 1 : InRange(n, p, r) <=> p \in s .. e
      BY <1>9, <1>10, <2>1
    <3>2. s .. e \subseteq 0 .. n - 1
      BY <1>1, <1>9
    <3> QED
      BY <1>7, <2>1, <3>1, <3>2
  <2>2. CASE ~(s <= e)
    <3>1. \A p \in 0 .. n - 1 : InRange(n, p, r) <=> p \in (0 .. e) \cup (s .. n - 1)
      BY <1>9, <1>10, <2>2
    <3>2. (0 .. e) \cup (s .. n - 1) \subseteq 0 .. n - 1
      BY <1>1, <1>9
    <3> QED
      BY <1>7, <2>2, <3>1, <3>2
  <2> QED
    BY <2>1, <2>2
<1>12. (IF s <= e THEN e - s + 1 ELSE e + 1 + n - s)
         = IF n <= 2 * g.radius + 1 THEN n ELSE 2 * g.radius + 1
  BY <1>1, <1>9
<1> QED
  BY <1>8, <1>9, <1>11, <1>12 DEF n

(* Where the members of a sorted group are in it.                          *)
Ranked(n, group, placeOf) ==
  /\ IsFiniteSet(group) /\ Cardinality(group) \in Nat
  /\ \A m \in group : placeOf[m] \in 0 .. Cardinality(group) - 1
  /\ \A s, m \in group : s < m => placeOf[s] < placeOf[m]
  /\ \A s \in group, m \in group :
       s <= m /\ s .. m \subseteq group => placeOf[m] = placeOf[s] + (m - s)
  /\ \A m \in group : m .. n - 1 \subseteq group => placeOf[m] = Cardinality(group) - (n - m)
  /\ \A m \in group : 0 .. m \subseteq group => placeOf[m] = m

LEMMA Ranks ==
  ASSUME NEW n \in Nat \ {0}, NEW group \in SUBSET (0 .. n - 1), NEW placeOf,
         placeOf = [m \in group |-> Cardinality({k \in group : k < m})]
  PROVE  Ranked(n, group, placeOf)
<1> DEFINE size == Cardinality(group)
           Below(m) == {k \in group : k < m}
<1>0. \A k \in group : k \in Int /\ 0 <= k /\ k <= n - 1
  OBVIOUS
<1>1. IsFiniteSet(group) /\ size \in Nat
  <2>1. IsFiniteSet(0 .. n - 1)
    BY FS_Interval
  <2> QED
    BY <2>1, FS_Subset, FS_CardinalityType
<1>2. \A m \in Int : Below(m) \in SUBSET group /\ IsFiniteSet(Below(m)) /\ Cardinality(Below(m)) \in Nat
  BY <1>1, FS_Subset, FS_CardinalityType
<1>3. ASSUME NEW s \in Int, NEW m \in Int, s <= m, s .. m - 1 \subseteq group
      PROVE  Cardinality(Below(m)) = Cardinality(Below(s)) + (m - s)
  <2>1. Below(m) = Below(s) \cup (s .. m - 1) /\ Below(s) \cap (s .. m - 1) = {}
    <3>1. \A k \in group : k < m <=> k < s \/ k \in s .. m - 1
      BY <1>0, <1>3
    <3>2. \A k \in s .. m - 1 : k \in group /\ ~(k < s)
      BY <1>3
    <3> QED
      BY <3>1, <3>2
  <2>2. IsFiniteSet(s .. m - 1) /\ Cardinality(s .. m - 1) = m - s
    <3>1. m - 1 \in Int
      OBVIOUS
    <3>2. IsFiniteSet(s .. m - 1)
           /\ Cardinality(s .. m - 1) = IF s > m - 1 THEN 0 ELSE (m - 1) - s + 1
      BY <3>1, FS_Interval
    <3> QED
      BY <1>3, <3>2
  <2>3. Cardinality({}) = 0
    BY FS_EmptySet
  <2> HIDE DEF Below
  <2>4. Cardinality(Below(m)) = Cardinality(Below(s)) + Cardinality(s .. m - 1) - Cardinality({})
    BY <1>2, <2>1, <2>2, FS_Union
  <2> QED
    BY <1>2, <2>2, <2>3, <2>4
<1>4. \A m \in group : placeOf[m] = Cardinality(Below(m)) /\ m \in Int /\ m <= n - 1 /\ m >= 0
  OBVIOUS
<1>5. Below(n) = group /\ Below(0) = {}
  <2>1. \A k \in group : k < n /\ ~(k < 0)
    BY <1>0
  <2> QED
    BY <2>1
<1>6. ASSUME NEW m \in group PROVE Cardinality(Below(m)) < size
  <2>1. m \notin Below(m) /\ Below(m) # group
    BY <1>4
  <2> HIDE DEF Below
  <2> QED
    BY <1>1, <1>2, <1>4, <2>1, FS_Subset
<1>7. ASSUME NEW s \in group, NEW m \in group, s < m
      PROVE  Cardinality(Below(s)) < Cardinality(Below(m))
  <2>1. Below(s) \in SUBSET Below(m) /\ s \in Below(m) /\ s \notin Below(s)
    <3>1. \A k \in group : k < s => k < m
      BY <1>0, <1>7
    <3>2. ~(s < s)
      BY <1>0
    <3> QED
      BY <1>7, <3>1, <3>2
  <2>2. Below(s) # Below(m)
    BY <2>1
  <2>3. IsFiniteSet(Below(m)) /\ Cardinality(Below(m)) \in Nat /\ Cardinality(Below(s)) \in Nat
    BY <1>2, <1>4
  <2> HIDE DEF Below
  <2>4. /\ Cardinality(Below(s)) <= Cardinality(Below(m))
        /\ Cardinality(Below(s)) = Cardinality(Below(m)) => Below(s) = Below(m)
    BY <2>1, <2>3, FS_Subset
  <2> QED
    BY <2>2, <2>3, <2>4
<1>8. ASSUME NEW s \in group, NEW m \in group, s <= m, s .. m \subseteq group
      PROVE  placeOf[m] = placeOf[s] + (m - s)
  <2>1. s .. m - 1 \subseteq group /\ s \in Int /\ m \in Int
    BY <1>4, <1>8
  <2> QED
    BY <1>3, <1>4, <1>8, <2>1
<1>9. ASSUME NEW m \in group, m .. n - 1 \subseteq group
      PROVE  placeOf[m] = size - (n - m)
  <2>1. Cardinality(Below(n)) = Cardinality(Below(m)) + (n - m)
    BY <1>3, <1>4, <1>9
  <2> HIDE DEF Below
  <2> QED
    BY <1>1, <1>2, <1>4, <1>5, <2>1
<1>10. ASSUME NEW m \in group, 0 .. m \subseteq group PROVE placeOf[m] = m
  <2>1. 0 .. m - 1 \subseteq group
    BY <1>4, <1>10
  <2>2. Cardinality(Below(m)) = Cardinality(Below(0)) + (m - 0)
    BY <1>3, <1>4, <2>1
  <2>3. Cardinality(Below(0)) = 0
    BY <1>5, FS_EmptySet
  <2> HIDE DEF Below
  <2> QED
    BY <1>4, <2>2, <2>3
<1> HIDE DEF Below
<1>11. \A m \in group : placeOf[m] \in 0 .. size - 1
  BY <1>1, <1>2, <1>4, <1>6
<1> QED
  BY <1>1, <1>4, <1>7, <1>8, <1>9, <1>10, <1>11 DEF Ranked

(* A run of places around a group, of which some come again at its start.  *)
Around(places, size, p, n) ==
  /\ p \in 0 .. size - 1 /\ n \in 1 .. size
  /\ n = size => p = 0
  /\ places = {i \in 0 .. size - 1 : (p <= i /\ i < p + n) \/ i + size < p + n}

LEMMA PlacesAround ==
  ASSUME NEW n \in Nat \ {0}, NEW group \in SUBSET (0 .. n - 1), NEW placeOf,
         placeOf = [m \in group |-> Cardinality({k \in group : k < m})],
         NEW s \in 0 .. n - 1, NEW e \in 0 .. n - 1, NEW nodes \in SUBSET group, NEW width,
         nodes = IF s <= e THEN s .. e ELSE (0 .. e) \cup (s .. n - 1),
         width = IF s <= e THEN e - s + 1 ELSE e + 1 + n - s
  PROVE  \E p \in Nat : Around({placeOf[m] : m \in nodes}, Cardinality(group), p, width)
<1> DEFINE size == Cardinality(group)
           places == {placeOf[m] : m \in nodes}
<1>1. /\ size \in Nat
      /\ \A m \in group : placeOf[m] \in 0 .. size - 1
      /\ \A x, m \in group : x < m => placeOf[x] < placeOf[m]
      /\ \A x \in group, m \in group : x <= m /\ x .. m \subseteq group => placeOf[m] = placeOf[x] + (m - x)
      /\ \A m \in group : m .. n - 1 \subseteq group => placeOf[m] = size - (n - m)
      /\ \A m \in group : 0 .. m \subseteq group => placeOf[m] = m
  <2>1. Ranked(n, group, placeOf)
    BY Ranks
  <2> QED
    BY <2>1 DEF Ranked
<1>2. s \in nodes /\ e \in nodes /\ s \in group /\ e \in group
  OBVIOUS
<1> HIDE DEF size
<1>3. CASE s <= e
  <2> DEFINE p == placeOf[s]
  <2>1. nodes = s .. e /\ width = e - s + 1
    BY <1>3
  <2>2. \A m \in s .. e : m \in group /\ placeOf[m] = p + (m - s)
    <3> TAKE m \in s .. e
    <3>1. m \in group /\ s <= m /\ s .. m \subseteq group
      BY <2>1
    <3> QED
      BY <1>1, <1>2, <3>1
  <2>3. p \in 0 .. size - 1 /\ p + width - 1 <= size - 1 /\ p \in Nat /\ width \in Nat /\ width >= 1
    <3>1. placeOf[e] = p + (e - s) /\ placeOf[e] \in 0 .. size - 1 /\ p \in 0 .. size - 1
      BY <1>1, <1>2, <1>3, <2>2
    <3> QED
      BY <1>1, <1>3, <2>1, <3>1
  <2> HIDE DEF p
  <2>4. places \subseteq p .. p + width - 1
    <3>1. ASSUME NEW m \in s .. e PROVE placeOf[m] \in p .. p + width - 1
      <4>1. placeOf[m] = p + (m - s)
        BY <2>2
      <4> QED
        BY <2>1, <2>3, <4>1
    <3> QED
      BY <2>1, <3>1
  <2>5. p .. p + width - 1 \subseteq places
    <3> SUFFICES ASSUME NEW i \in p .. p + width - 1 PROVE i \in places
      OBVIOUS
    <3> DEFINE m == s + (i - p)
    <3>1. m \in s .. e /\ p + (m - s) = i
      BY <2>1, <2>3
    <3>2. placeOf[m] = i
      BY <2>2, <3>1
    <3> HIDE DEF m
    <3> QED
      BY <2>1, <3>1, <3>2
  <2> HIDE DEF places
  <2>6. p .. p + width - 1 = {i \in 0 .. size - 1 : (p <= i /\ i < p + width) \/ i + size < p + width}
    BY <1>1, <2>3
  <2>7. Around(places, size, p, width)
    <3>1. places = p .. p + width - 1
      BY <2>4, <2>5
    <3>2. width \in 1 .. size /\ (width = size => p = 0)
      BY <1>1, <2>3
    <3> QED
      BY <2>3, <2>6, <3>1, <3>2 DEF Around
  <2> QED
    BY <2>3, <2>7 DEF places, size
<1>4. CASE ~(s <= e)
  <2>1. nodes = (0 .. e) \cup (s .. n - 1) /\ width = e + 1 + n - s /\ e < s
    BY <1>4
  <2>2. \A m \in 0 .. e : m \in group /\ placeOf[m] = m
    <3> TAKE m \in 0 .. e
    <3>1. m \in group /\ 0 .. m \subseteq group
      BY <2>1
    <3> QED
      BY <1>1, <3>1
  <2>3. \A m \in s .. n - 1 : m \in group /\ placeOf[m] = size - (n - m)
    <3> TAKE m \in s .. n - 1
    <3>1. m \in group /\ m .. n - 1 \subseteq group
      BY <2>1
    <3> QED
      BY <1>1, <3>1
  <2> DEFINE t == size - (n - s)
  <2>4. t \in 0 .. size - 1 /\ e < t /\ width = e + 1 + (size - t) /\ t \in Nat /\ width \in Nat
    <3>1. placeOf[s] = t /\ placeOf[e] = e /\ placeOf[e] < placeOf[s] /\ placeOf[s] \in 0 .. size - 1
      BY <1>1, <1>2, <2>1, <2>2, <2>3
    <3> QED
      BY <1>1, <2>1, <3>1
  <2>5. s = t + (n - size)
    BY <1>1
  <2>6. places \subseteq (0 .. e) \cup (t .. size - 1)
    <3>1. ASSUME NEW m \in nodes PROVE placeOf[m] \in (0 .. e) \cup (t .. size - 1)
      <4>1. CASE m \in 0 .. e
        BY <2>2, <4>1
      <4>2. CASE m \in s .. n - 1
        <5>1. placeOf[m] = size - (n - m) /\ size \in Nat
          BY <1>1, <2>3, <4>2
        <5> QED
          BY <4>2, <5>1
      <4> QED
        BY <2>1, <3>1, <4>1, <4>2
    <3> QED
      BY <3>1
  <2> HIDE DEF t
  <2>7. (0 .. e) \cup (t .. size - 1) \subseteq places
    <3>1. ASSUME NEW i \in 0 .. e PROVE i \in places
      <4>1. placeOf[i] = i /\ i \in nodes
        BY <2>1, <2>2, <3>1
      <4> QED
        BY <4>1
    <3>2. ASSUME NEW i \in t .. size - 1 PROVE i \in places
      <4> DEFINE m == i + (n - size)
      <4>1. m \in s .. n - 1 /\ size - (n - m) = i
        BY <1>1, <2>4, <2>5, <3>2
      <4>2. placeOf[m] = i /\ m \in nodes
        BY <2>1, <2>3, <4>1
      <4> HIDE DEF m
      <4> QED
        BY <4>2
    <3> QED
      BY <3>1, <3>2
  <2> HIDE DEF places
  <2>8. places = (0 .. e) \cup (t .. size - 1)
    BY <2>6, <2>7
  <2>9. CASE width = size
    <3>1. places = 0 .. size - 1
      BY <1>1, <2>4, <2>8, <2>9
    <3>2. 0 .. size - 1 = {i \in 0 .. size - 1 : (0 <= i /\ i < 0 + width) \/ i + size < 0 + width}
      BY <1>1, <2>9
    <3>3. Around(places, size, 0, width)
      BY <1>1, <2>4, <2>9, <3>1, <3>2 DEF Around
    <3> QED
      BY <3>3 DEF places, size
  <2>10. CASE width # size
    <3>1. (0 .. e) \cup (t .. size - 1)
            = {i \in 0 .. size - 1 : (t <= i /\ i < t + width) \/ i + size < t + width}
      BY <1>1, <2>4
    <3>2. width \in 1 .. size
      BY <1>1, <2>4
    <3>3. Around(places, size, t, width)
      BY <2>4, <2>8, <2>10, <3>1, <3>2 DEF Around
    <3> QED
      BY <2>4, <3>3 DEF places, size
  <2> QED
    BY <2>9, <2>10
<1> QED
  BY <1>3, <1>4

LEMMA LeastIsFirst ==
  ASSUME NEW S, NEW m \in S, \A i \in S : i \in Int /\ m <= i
  PROVE  FirstOf(S) = m
<1>1. \A i \in S : (\A j \in S : i <= j) => i = m
  <2> TAKE i \in S
  <2> SUFFICES ASSUME i <= m PROVE i = m
    OBVIOUS
  <2>1. i \in Int /\ m \in Int /\ m <= i
    OBVIOUS
  <2> QED
    BY <2>1
<1>2. FirstOf(S) \in S /\ \A j \in S : FirstOf(S) <= j
  BY DEF FirstOf
<1> QED
  BY <1>1, <1>2

(* What getStartAndEndIndexOfTargetGroup makes of it.                      *)
LEMMA SpanAround ==
  ASSUME NEW size \in Nat \ {0}, NEW p \in Nat, NEW n \in Nat, NEW places, Around(places, size, p, n)
  PROVE  /\ Cardinality(places) = n
         /\ TargetSpan(places, size)
              = [start |-> p, end |-> IF p + n > size THEN p + n - size ELSE p + n]
         /\ p + n > size => p + n - size < p
         /\ WrappedPlaces(TargetSpan(places, size)) = {i \in 0 .. size - 1 : i + size < p + n}
<1> DEFINE afterGap == {i \in places : i - 1 \notin places /\ \E j \in places : j < i}
           start == IF afterGap = {} THEN FirstOf(places) ELSE FirstOf(afterGap)
           end == start + Cardinality(places)
<1>1. /\ p \in 0 .. size - 1 /\ n \in 1 .. size /\ (n = size => p = 0)
      /\ places = {i \in 0 .. size - 1 : (p <= i /\ i < p + n) \/ i + size < p + n}
  BY DEF Around
<1>2. TargetSpan(places, size) = [start |-> start, end |-> IF end > size THEN end - size ELSE end]
  BY DEF TargetSpan
<1>3. Cardinality(places) = n /\ start = p
  <2>1. CASE p + n <= size
    <3>1. places = p .. p + n - 1
      BY <1>1, <2>1
    <3>2. IsFiniteSet(p .. p + n - 1) /\ Cardinality(p .. p + n - 1) = n
      <4>1. Cardinality(p .. p + n - 1) = IF p > p + n - 1 THEN 0 ELSE (p + n - 1) - p + 1
        BY <1>1, FS_Interval
      <4> QED
        BY <1>1, <4>1, FS_Interval
    <3>3. afterGap = {}
      BY <1>1, <3>1
    <3>4. FirstOf(places) = p
      <4>1. p \in places /\ \A j \in places : p <= j
        BY <1>1, <3>1
      <4>2. \A i \in places : i \in Int
        BY <3>1
      <4> QED
        BY <4>1, <4>2, LeastIsFirst
    <3> QED
      BY <3>1, <3>2, <3>3, <3>4
  <2>2. CASE p + n > size
    <3>1. places = (0 .. p + n - size - 1) \cup (p .. size - 1) /\ p + n - size - 1 < p - 1 /\ n < size
      BY <1>1, <2>2
    <3>2. Cardinality(places) = n
      <4>1. /\ IsFiniteSet(0 .. p + n - size - 1) /\ Cardinality(0 .. p + n - size - 1) = p + n - size
            /\ IsFiniteSet(p .. size - 1) /\ Cardinality(p .. size - 1) = size - p
        <5>1. Cardinality(p .. size - 1) = IF p > size - 1 THEN 0 ELSE (size - 1) - p + 1
          BY <1>1, FS_Interval
        <5>2. Cardinality(0 .. p + n - size - 1)
                = IF 0 > p + n - size - 1 THEN 0 ELSE (p + n - size - 1) - 0 + 1
          BY <1>1, FS_Interval
        <5> QED
          BY <1>1, <2>2, <5>1, <5>2, FS_Interval
      <4>2. (0 .. p + n - size - 1) \cap (p .. size - 1) = {} /\ Cardinality({}) = 0
        BY <1>1, <3>1, FS_EmptySet
      <4>3. Cardinality(places) = Cardinality(0 .. p + n - size - 1) + Cardinality(p .. size - 1)
                                    - Cardinality({})
        BY <3>1, <4>1, <4>2, FS_Union, SMTT(30)
      <4> QED
        BY <1>1, <4>1, <4>2, <4>3
    <3>3. afterGap = {p}
      <4>1. p \in places /\ p - 1 \notin places /\ 0 \in places /\ 0 < p
        BY <1>1, <2>2, <3>1
      <4>2. \A i \in places : i # p /\ i - 1 \notin places => i = 0
        BY <1>1, <2>2, <3>1
      <4>3. \A j \in places : ~(j < 0)
        BY <3>1
      <4> QED
        BY <4>1, <4>2, <4>3
    <3>4. FirstOf(afterGap) = p
      <4>1. p \in Int /\ p \in {p} /\ \A i \in {p} : i \in Int /\ p <= i
        BY <1>1
      <4>2. FirstOf({p}) = p
        BY <4>1, LeastIsFirst
      <4> HIDE DEF afterGap
      <4> QED
        BY <3>3, <4>2
    <3> QED
      BY <3>2, <3>3, <3>4
  <2> QED
    BY <1>1, <2>1, <2>2
<1> HIDE DEF start
<1>4. TargetSpan(places, size) = [start |-> p, end |-> IF p + n > size THEN p + n - size ELSE p + n]
  BY <1>2, <1>3
<1>5. p + n > size => p + n - size < p
  BY <1>1
<1>6. WrappedPlaces(TargetSpan(places, size)) = {i \in 0 .. size - 1 : i + size < p + n}
  <2> DEFINE span == TargetSpan(places, size)
  <2>1. span.start = p /\ span.end = IF p + n > size THEN p + n - size ELSE p + n
    BY <1>4
  <2> HIDE DEF span
  <2>2. CASE p + n > size
    <3>1. WrappedPlaces(span) = 0 .. p + n - size - 1
      BY <1>5, <2>1, <2>2 DEF WrappedPlaces
    <3>2. 0 .. p + n - size - 1 = {i \in 0 .. size - 1 : i + size < p + n}
      BY <1>1, <1>5, <2>2
    <3> QED
      BY <3>1, <3>2 DEF span
  <2>3. CASE p + n <= size
    <3>1. WrappedPlaces(span) = {}
      BY <1>1, <2>1, <2>3 DEF WrappedPlaces
    <3>2. \A i \in 0 .. size - 1 : ~(i + size < p + n)
      BY <1>1, <2>3
    <3> QED
      BY <3>1, <3>2 DEF span
  <2> QED
    BY <1>1, <2>2, <2>3
<1> QED
  BY <1>3, <1>4, <1>5, <1>6

(* What a queue entry is like: the execution group is a run of places, and *)
(* every account is stored at a run of as many places, those of its        *)
(* consensus group.                                                        *)
Laid(e, n, q) ==
  /\ e.size \in Nat \ {0} /\ e.correspondingGlobalOffset \in Nat /\ n \in 1 .. e.size
  /\ Around(e.executors, e.size, q, n) /\ Cardinality(e.executors) = n
  /\ e.span = [start |-> q, end |-> IF q + n > e.size THEN q + n - e.size ELSE q + n]
  /\ q + n > e.size => q + n - e.size < q
  /\ {i \in 0 .. e.size - 1 : i + e.size < q + n} \subseteq e.wrapped
  /\ \A h \in DOMAIN e.storers : \E p \in Nat : \A j \in p .. p + n - 1 :
       /\ Wrap(j, e.size) \in e.storers[h] \cap (0 .. e.size - 1)
       /\ j >= e.size => Wrap(j, e.size) \in e.wrapped

LEMMA EntryLaid ==
  ASSUME NEW g, g.n \in Nat \ {0}, g.radius \in Nat, g.edge \in Nat,
         NEW homes \in SUBSET (0 .. g.n - 1), NEW exec \in homes, NEW offset \in Nat
  PROVE  \E n, q \in Nat : Laid(QueueEntry(g, homes, exec, offset), n, q)
<1> DEFINE e == QueueEntry(g, homes, exec, offset)
           group == TransactionGroup(g, homes)
           size == Cardinality(group)
           placeOf == [m \in group |-> Cardinality({k \in group : k < m})]
           places(nodes) == {placeOf[m] : m \in nodes}
           executors == places(ConsensusNodes(g, exec))
           wrapped == UNION {WrappedPlaces(TargetSpan(places(ConsensusNodes(g, h)), size)) : h \in homes}
           n == IF g.n <= 2 * g.radius + 1 THEN g.n ELSE 2 * g.radius + 1
<1>1. e = [size |-> size,
           storers |-> [h \in homes |-> places(StorageNodes(g, h))],
           executors |-> executors,
           span |-> TargetSpan(executors, size),
           wrapped |-> wrapped,
           correspondingGlobalOffset |-> offset]
  BY DEF QueueEntry
<1>2. \A h \in homes :
        /\ ConsensusNodes(g, h) \subseteq StorageNodes(g, h)
        /\ StorageNodes(g, h) \subseteq 0 .. g.n - 1
        /\ StorageNodes(g, h) \subseteq group
        /\ \E s, t \in 0 .. g.n - 1 :
             /\ ConsensusNodes(g, h) = IF s <= t THEN s .. t ELSE (0 .. t) \cup (s .. g.n - 1)
             /\ (IF s <= t THEN t - s + 1 ELSE t + 1 + g.n - s) = n
  BY ConsensusRun DEF TransactionGroup
<1>3. group \in SUBSET (0 .. g.n - 1)
  BY <1>2 DEF TransactionGroup
<1> HIDE DEF group, n, e
<1>4. ASSUME NEW h \in homes
      PROVE  \E p \in Nat : Around(places(ConsensusNodes(g, h)), size, p, n)
  <2> DEFINE nodes == ConsensusNodes(g, h)
  <2>1. nodes \in SUBSET group
    BY <1>2
  <2>2. PICK s, t \in 0 .. g.n - 1 :
          /\ nodes = IF s <= t THEN s .. t ELSE (0 .. t) \cup (s .. g.n - 1)
          /\ n = IF s <= t THEN t - s + 1 ELSE t + 1 + g.n - s
    BY <1>2
  <2> HIDE DEF nodes
  <2>3. \E p \in Nat : Around({placeOf[m] : m \in nodes}, Cardinality(group), p, n)
    BY <1>3, <2>1, <2>2, PlacesAround
  <2> QED
    BY <2>3 DEF nodes
<1>5. PICK q \in Nat : Around(executors, size, q, n)
  BY <1>4
<1> HIDE DEF placeOf, places, size
<1>6. size \in Nat \ {0} /\ n \in 1 .. size /\ n \in Nat
  <2>1. size \in Nat
    <3>1. IsFiniteSet(0 .. g.n - 1)
      <4>1. 0 \in Int /\ g.n - 1 \in Int
        OBVIOUS
      <4> QED
        BY <4>1, FS_Interval
    <3> QED
      BY <1>3, <3>1, FS_Subset, FS_CardinalityType DEF size
  <2> QED
    BY <1>5, <2>1 DEF Around
<1> HIDE DEF executors, wrapped
<1>7. /\ Cardinality(executors) = n
      /\ TargetSpan(executors, size)
           = [start |-> q, end |-> IF q + n > size THEN q + n - size ELSE q + n]
      /\ q + n > size => q + n - size < q
      /\ WrappedPlaces(TargetSpan(executors, size)) = {i \in 0 .. size - 1 : i + size < q + n}
  BY <1>5, <1>6, SpanAround
<1>8. {i \in 0 .. size - 1 : i + size < q + n} \subseteq wrapped
  BY <1>7 DEF wrapped, executors
<1>9. ASSUME NEW h \in homes
      PROVE  \E p \in Nat : \A j \in p .. p + n - 1 :
               /\ Wrap(j, size) \in places(StorageNodes(g, h)) \cap (0 .. size - 1)
               /\ j >= size => Wrap(j, size) \in wrapped
  <2> DEFINE ours == places(ConsensusNodes(g, h))
  <2>1. PICK p \in Nat : Around(ours, size, p, n)
    BY <1>4
  <2>2. ours \subseteq places(StorageNodes(g, h))
    BY <1>2 DEF places
  <2>3. WrappedPlaces(TargetSpan(ours, size)) \subseteq wrapped
    BY DEF wrapped
  <2> HIDE DEF ours
  <2>4. WrappedPlaces(TargetSpan(ours, size)) = {i \in 0 .. size - 1 : i + size < p + n}
    BY <1>6, <2>1, SpanAround
  <2>5. ASSUME NEW j \in p .. p + n - 1
        PROVE  /\ Wrap(j, size) \in 0 .. size - 1 /\ Wrap(j, size) \in ours
               /\ j >= size => Wrap(j, size) \in {i \in 0 .. size - 1 : i + size < p + n}
    <3>1. /\ p \in 0 .. size - 1
          /\ ours = {i \in 0 .. size - 1 : (p <= i /\ i < p + n) \/ i + size < p + n}
      BY <2>1 DEF Around
    <3>2. CASE j >= size
      <4>1. Wrap(j, size) = j - size /\ j - size \in 0 .. size - 1 /\ (j - size) + size < p + n
        BY <1>6, <3>1, <3>2 DEF Wrap
      <4> QED
        BY <3>1, <4>1
    <3>3. CASE ~(j >= size)
      <4>1. Wrap(j, size) = j /\ j \in 0 .. size - 1 /\ p <= j /\ j < p + n
        BY <1>6, <3>1, <3>3 DEF Wrap
      <4> QED
        BY <3>1, <3>3, <4>1
    <3> QED
      BY <3>2, <3>3
  <2> QED
    BY <2>2, <2>3, <2>4, <2>5
<1>10. /\ e.size = size /\ e.correspondingGlobalOffset = offset /\ e.executors = executors
       /\ e.span = TargetSpan(executors, size) /\ e.wrapped = wrapped
       /\ DOMAIN e.storers = homes /\ \A h \in homes : e.storers[h] = places(StorageNodes(g, h))
  BY <1>1
<1>11. Laid(e, n, q)
  BY ZenonT(60), <1>5, <1>6, <1>7, <1>8, <1>9, <1>10 DEF Laid
<1> QED
  BY <1>6, <1>11 DEF e

(* A member of the execution group hears of every account.                 *)
LEMMA DataReaches ==
  ASSUME NEW e, NEW n \in Nat, NEW q \in Nat, Laid(e, n, q),
         NEW h \in DOMAIN e.storers, NEW x \in e.executors
  PROVE  \E s \in e.storers[h] : x = s \/ (x \in TellData(e, s) /\ AcceptData(e, x, s))
<1> DEFINE size == e.size
           offset == e.correspondingGlobalOffset
           unwrapped == Again(e.span, x, size)
<1>1. /\ size \in Nat \ {0} /\ offset \in Nat /\ n \in 1 .. size /\ Cardinality(e.executors) = n
      /\ e.span = [start |-> q, end |-> IF q + n > size THEN q + n - size ELSE q + n]
      /\ q + n > size => q + n - size < q
      /\ q \in 0 .. size - 1
      /\ e.executors = {i \in 0 .. size - 1 : (q <= i /\ i < q + n) \/ i + size < q + n}
  BY DEF Laid, Around
<1>2. PICK p \in Nat : \A j \in p .. p + n - 1 :
        /\ Wrap(j, size) \in e.storers[h] \cap (0 .. size - 1)
        /\ j >= size => Wrap(j, size) \in e.wrapped
  BY DEF Laid
<1>3. x \in 0 .. size - 1 /\ unwrapped \in q .. q + n - 1
  BY <1>1 DEF Again
<1> HIDE DEF size, offset
<1>4. PICK j \in p .. p + n - 1 : j % n = (unwrapped + offset) % n
  <2> DEFINE r == (unwrapped + offset) % n
  <2>1. unwrapped + offset \in Int /\ n \in Nat \ {0} /\ p \in Int
    BY <1>1, <1>3
  <2>2. r \in 0 .. n - 1
    BY <2>1
  <2> HIDE DEF r
  <2>3. \E j \in p .. p + n - 1 : j % n = r
    BY <2>1, <2>2, RestInRun
  <2> QED
    BY <2>3 DEF r
<1> DEFINE s == Wrap(j, size)
<1>5. j \in Nat /\ (unwrapped + offset) % n = j % n
  BY <1>4
<1>6. TellFrom(e, j) = {x} /\ AcceptFrom(e, x, j)
  <2> DEFINE span == e.span
  <2>1. span.start = q /\ span.end = IF q + n > size THEN q + n - size ELSE q + n
    BY <1>1
  <2>3. /\ Spans(span, n, size) /\ x \in 0 .. size - 1
        /\ size \in Nat \ {0} /\ n \in 1 .. size /\ offset \in Nat /\ j \in Nat
        /\ Again(span, x, size) \in span.start .. span.start + n - 1
        /\ (Again(span, x, size) + offset) % n = j % n
    BY <1>1, <1>3, <1>5, <2>1 DEF Spans
  <2> HIDE DEF span
  <2>2. /\ CorrespondingNodes(j, span, offset, n, n, size) = {x}
        /\ VerifySender(x, j, span, offset, n, n, size)
    BY <2>3, DataTold
  <2> QED
    BY <1>1, <2>2 DEF TellFrom, AcceptFrom, size, offset, span
<1>7. s \in e.storers[h] /\ s \in 0 .. size - 1 /\ (j >= size => s \in e.wrapped)
  BY <1>2, <1>4
<1>8. j = IF j >= size THEN Unwrapped(e, s) ELSE s
  BY <1>1, <1>5 DEF Unwrapped, Wrap, size
<1> HIDE DEF s
<1>9. x # s => x \in TellData(e, s) /\ AcceptData(e, x, s)
  BY <1>6, <1>7, <1>8 DEF TellData, AcceptData
<1> QED
  BY <1>7, <1>9

(* Every other member hears the result.                                    *)
LEMMA ResultReaches ==
  ASSUME NEW e, NEW n \in Nat, NEW q \in Nat, Laid(e, n, q), NEW x \in 0 .. e.size - 1,
         \/ e.wrapped \cap e.executors = {}
         \/ e.span.start > e.span.end /\ e.wrapped \cap e.executors \subseteq 0 .. e.span.end - 1
  PROVE  \E s \in e.executors : x \in TellFinal(e, s) /\ AcceptFinal(e, x, s)
<1> DEFINE size == e.size
           offset == e.correspondingGlobalOffset
           again == {i \in 0 .. size - 1 : i + size < q + n}
<1>1. /\ size \in Nat \ {0} /\ offset \in Nat /\ n \in 1 .. size /\ Cardinality(e.executors) = n
      /\ e.span = [start |-> q, end |-> IF q + n > size THEN q + n - size ELSE q + n]
      /\ q + n > size => q + n - size < q
      /\ q \in 0 .. size - 1
      /\ e.executors = {i \in 0 .. size - 1 : (q <= i /\ i < q + n) \/ i + size < q + n}
      /\ again \subseteq e.wrapped
  BY DEF Laid, Around
<1>2. again \subseteq e.executors /\ \A i \in e.executors : i \in again \/ (q <= i /\ i < q + n)
  BY <1>1
<1>3. e.wrapped \cap e.executors = again
  <2>1. e.wrapped \cap e.executors \subseteq again
    <3>1. CASE e.wrapped \cap e.executors = {}
      BY <3>1
    <3>2. CASE e.span.start > e.span.end /\ e.wrapped \cap e.executors \subseteq 0 .. e.span.end - 1
      <4>1. q + n > size /\ e.span.end = q + n - size
        BY <1>1, <3>2
      <4>2. 0 .. e.span.end - 1 \subseteq again
        BY <1>1, <4>1
      <4> QED
        BY <3>2, <4>2
    <3> QED
      BY <3>1, <3>2
  <2> QED
    BY <1>1, <1>2, <2>1
<1> HIDE DEF again
<1> DEFINE aim == ((x + offset) % size) % n
<1>4. PICK j \in q .. q + n - 1 : j % n = aim
  <2>1. aim \in 0 .. n - 1 /\ q \in Int /\ n \in Nat \ {0}
    <3> DEFINE v == (x + offset) % size
    <3>1. x + offset \in Int
      BY <1>1
    <3>2. v \in Int
      BY <1>1, <3>1
    <3> HIDE DEF v
    <3>3. v % n \in 0 .. n - 1
      BY <1>1, <3>2
    <3> QED
      BY <1>1, <3>3 DEF v
  <2> HIDE DEF aim
  <2> QED
    BY <2>1, RestInRun
<1> DEFINE s == Wrap(j, size)
<1>5. s \in e.executors /\ SenderIndex(e, s) = j
  <2>1. CASE j >= size
    <3>1. s = j - size /\ s \in again /\ s \in e.executors
      BY <1>1, <1>2, <2>1 DEF again, Wrap
    <3>2. s \in e.wrapped
      BY <1>3, <3>1
    <3> HIDE DEF s
    <3> QED
      BY <1>1, <3>1, <3>2 DEF SenderIndex, Unwrapped
  <2>2. CASE ~(j >= size)
    <3>1. s = j /\ s \in e.executors /\ s \notin again
      BY <1>1, <2>2 DEF again, Wrap
    <3>2. s \notin e.wrapped
      BY <1>3, <3>1
    <3> HIDE DEF s
    <3> QED
      BY <3>1, <3>2 DEF SenderIndex
  <2> QED
    BY <2>1, <2>2
<1>6. /\ x \in CorrespondingNodes(j, WholeGroup(e), offset, size, n, size)
      /\ VerifySender(x, j, WholeGroup(e), offset, size, n, size)
  <2>1. j \in Nat /\ WholeGroup(e) = [start |-> 0, end |-> size] /\ x \in 0 .. size - 1
    BY <1>1 DEF WholeGroup
  <2> HIDE DEF size, offset
  <2> QED
    BY <1>1, <1>4, <2>1, ResultTold
<1> HIDE DEF s
<1>7. x \in TellFinal(e, s) /\ AcceptFinal(e, x, s)
  BY <1>1, <1>5, <1>6 DEF TellFinal, AcceptFinal
<1> QED
  BY <1>5, <1>7

(* The property TellsArrive of the run algorithms: for groups of any size, *)
(* wherever they lie around the circle, those that execute a transaction   *)
(* get the data of all its accounts, and the others the result, as long as *)
(* no executing node has its second place because of another account       *)
(* (getCorrespondingNodes, verifyCorrespondingSender). In a run of as many *)
(* places as the execution group has, every rest of a division by its size *)
(* comes once: one sender for every receiver.                              *)
THEOREM TellingArrives == TellSpec => TellsArrive
<1> DEFINE Shaped == \E n, q \in Nat : Laid(tx, n, q)
<1>1. TellInit => Shaped
  <2> SUFFICES ASSUME TellInit PROVE Shaped
    OBVIOUS
  <2>1. PICK n \in 1 .. MaxActive, s \in Sizes, o \in Offsets :
          \E h, x \in 0 .. n - 1 : tx = QueueEntry(Globals(n, s), {h, x}, x, o)
    BY DEF TellInit
  <2>2. PICK h \in 0 .. n - 1, x \in 0 .. n - 1 : tx = QueueEntry(Globals(n, s), {h, x}, x, o)
    BY <2>1
  <2> DEFINE g == Globals(n, s)
             homes == {h, x}
  <2>3. g.n = n /\ g.n \in Nat \ {0} /\ g.radius \in Nat /\ g.edge \in Nat
    BY ShardAssumption, GlobalsOfSizes
  <2>4. o \in Nat
    BY TellAssumption
  <2> HIDE DEF g
  <2>5. homes \in SUBSET (0 .. g.n - 1) /\ x \in homes
    BY <2>3
  <2> HIDE DEF homes
  <2>6. \E k, q \in Nat : Laid(QueueEntry(g, homes, x, o), k, q)
    BY <2>3, <2>4, <2>5, EntryLaid
  <2> QED
    BY <2>2, <2>6 DEF g, homes
<1>2. Shaped /\ [TellAccounts]_tellVars => Shaped'
  <2>1. [TellAccounts]_tellVars => tx' = tx
    BY DEF TellAccounts, tellVars
  <2>2. tx' = tx /\ Shaped => Shaped'
    OBVIOUS
  <2> QED
    BY <2>1, <2>2
<1>4. ASSUME Shaped, TellAccounts PROVE DataArrives /\ (OwnPlaces => ResultArrives)
  <2>1. PICK n, q \in Nat : Laid(tx, n, q)
    BY <1>4
  <2>2. ASSUME NEW h \in DOMAIN tx.storers, NEW x \in tx.executors PROVE <<h, x>> \in informed'
    <3>1. PICK s \in tx.storers[h] : x = s \/ (x \in TellData(tx, s) /\ AcceptData(tx, x, s))
      BY <2>1, DataReaches
    <3>2. <<h, x>> \in {<<h, y>> : y \in {s} \cup {z \in TellData(tx, s) : AcceptData(tx, z, s)}}
      BY <3>1
    <3> QED
      BY <1>4, <3>2 DEF TellAccounts
  <2>3. ASSUME OwnPlaces PROVE ResultArrives
    <3> SUFFICES ASSUME NEW x \in (0 .. tx.size - 1) \ tx.executors
                 PROVE  \E s \in tx.executors : x \in TellFinal(tx, s) /\ AcceptFinal(tx, x, s)
      BY DEF ResultArrives
    <3> QED
      BY <2>1, <2>3, ResultReaches DEF OwnPlaces
  <2> QED
    BY <2>2, <2>3 DEF DataArrives
<1>5. Shaped /\ [TellAccounts]_tellVars
        => [TellAccounts => DataArrives /\ (OwnPlaces => ResultArrives)]_tellVars
  BY <1>4
<1> HIDE DEF Shaped
<1> QED
  BY <1>1, <1>2, <1>5, PTL DEF TellSpec, TellsArrive
=============================================================================
