----------------------------- MODULE FifoLocks -----------------------------
(***************************************************************************)
(* The locks of the state manager (state-manager/index.ts, fifoLock to     *)
(* clearStaleFifoLocks) and those who use them.  A request for a page of   *)
(* accounts takes the lock accountModification alone.  A transaction that  *)
(* is applied or committed takes the locks of its accounts, under the lock *)
(* atomicWrapper, and then accountModification.  Whoever must wait for a   *)
(* lock polls it.                                                          *)
(*                                                                         *)
(* Every sync tracker that ends frees all locks, whoever holds them; so    *)
(* does a transaction that takes too long to apply.  Who lost a lock this  *)
(* way does not know it, works on, and unlocks it in the end.              *)
(*                                                                         *)
(* One task runs until it has to wait: between two locks that are free     *)
(* nobody else takes a step.                                               *)
(***************************************************************************)
EXTENDS Integers, Sequences, FiniteSets

CONSTANTS
  Process,          \* page requests and transactions, each run once
  Lock,             \* the names of locks
  Wrapper,          \* atomicWrapper
  Plan,             \* Plan[p]: the locks p takes, in order
  Earlier,          \* Earlier[p]: processTransactions starts p after these
  MayTimeOut,       \* transactions that may outlast transactionApplyTimeout
  MaxForced         \* bound: sync trackers that end

ASSUME PlanAssumption ==
  /\ Plan \in [Process -> Seq(Lock)]
  /\ \A p \in Process : Len(Plan[p]) > 0
  /\ \A p \in Process : \A i, j \in 1 .. Len(Plan[p]) : Plan[p][i] = Plan[p][j] => i = j

VARIABLES
  fifo,             \* the fields of every lock that decide who gets it
  ids,              \* ids[p][l]: the number p waits with or owns l by, 0 for none
  pc, at,           \* what p does, and the place in its plan
  held,             \* the locks p took and has not unlocked
  kept,             \* those of them that were not freed under it
  abandoned,        \* transactions processTransactions no longer waits for
  forced

lockVars == <<fifo, ids, pc, at, held, kept, abandoned, forced>>

NewFifo == [queueCounter |-> 0, waitingList |-> <<>>, queueLocked |-> FALSE, lockOwner |-> 1]

LockInit ==
  /\ fifo = [l \in Lock |-> NewFifo]
  /\ ids = [p \in Process |-> [l \in Lock |-> 0]]
  /\ pc = [p \in Process |-> "idle"]
  /\ at = [p \in Process |-> 1]
  /\ held = [p \in Process |-> {}]
  /\ kept = [p \in Process |-> {}]
  /\ abandoned = {}
  /\ forced = 0
-----------------------------------------------------------------------------
(* fifoUnlock: only the owner frees a lock.                                *)
MutantUnlocked(f, id) == [f EXCEPT !.queueLocked = FALSE]
Unlocked(f, id) == [f EXCEPT !.queueLocked = f.queueLocked /\ f.lockOwner # id]

(* The end of fifoLock; a waiter takes the first place off the list,       *)
(* which is its own, or the list is empty.                                 *)
MutantShifted(list) == list
Shifted(list) == IF list = <<>> THEN list ELSE Tail(list)
Taken(f, id) == [f EXCEPT !.queueLocked = TRUE, !.lockOwner = id]

MayTake(f, id) == ~f.queueLocked /\ (f.waitingList # <<>> => f.waitingList[1] = id)

Wanted(p) == Plan[p][at[p]]

(* bulkFifoLockAccounts gives the wrapper up when it has the last account. *)
EndsBulk(p) == at[p] = Len(Plan[p]) /\ Wrapper \in held[p]
AfterBulk(p) ==
  IF EndsBulk(p) THEN [fifo EXCEPT ![Wrapper] = Unlocked(fifo[Wrapper], ids[p][Wrapper])] ELSE fifo
IdsAfterBulk(p) == IF EndsBulk(p) THEN [ids[p] EXCEPT ![Wrapper] = 0] ELSE ids[p]
HeldAfterBulk(p) == IF EndsBulk(p) THEN held[p] \ {Wrapper} ELSE held[p]
KeptAfterBulk(p) == IF EndsBulk(p) THEN kept[p] \ {Wrapper} ELSE kept[p]

Advance(p) ==
  /\ at' = [at EXCEPT ![p] = @ + 1]
  /\ pc' = [pc EXCEPT ![p] = IF at[p] = Len(Plan[p]) THEN "working" ELSE "next"]

NobodyRuns(p) == \A q \in Process \ {p} : pc[q] # "next"

(* fifoLock, when p calls it: the lock is free, or p gets in line.         *)
LockOrWait(p) ==
  /\ pc[p] \in {"idle", "next"}
  /\ NobodyRuns(p)
  /\ \A q \in Earlier[p] : pc[q] = "done" \/ q \in abandoned
  /\ LET l == Wanted(p)
         f == [AfterBulk(p)[l] EXCEPT !.queueCounter = @ + 1]
         id == f.queueCounter
     IN /\ ids' = [ids EXCEPT ![p] = [IdsAfterBulk(p) EXCEPT ![l] = id]]
        /\ IF f.waitingList # <<>> \/ f.queueLocked
           THEN /\ fifo' = [AfterBulk(p) EXCEPT ![l] = [f EXCEPT !.waitingList = Append(@, id)]]
                /\ held' = [held EXCEPT ![p] = HeldAfterBulk(p)]
                /\ kept' = [kept EXCEPT ![p] = KeptAfterBulk(p)]
                /\ pc' = [pc EXCEPT ![p] = "waiting"]
                /\ UNCHANGED at
           ELSE /\ fifo' = [AfterBulk(p) EXCEPT ![l] = Taken(f, id)]
                /\ held' = [held EXCEPT ![p] = HeldAfterBulk(p) \cup {l}]
                /\ kept' = [kept EXCEPT ![p] = KeptAfterBulk(p) \cup {l}]
                /\ Advance(p)
  /\ UNCHANGED <<abandoned, forced>>

(* fifoLock, when p wakes up and finds that it is its turn.                *)
Served(p) ==
  /\ pc[p] = "waiting"
  /\ NobodyRuns(p)
  /\ LET l == Wanted(p)
         f == fifo[l]
     IN /\ MayTake(f, ids[p][l])
        /\ fifo' = [fifo EXCEPT ![l] = Taken([f EXCEPT !.waitingList = Shifted(@)], ids[p][l])]
        /\ held' = [held EXCEPT ![p] = @ \cup {l}]
        /\ kept' = [kept EXCEPT ![p] = @ \cup {l}]
  /\ Advance(p)
  /\ UNCHANGED <<ids, abandoned, forced>>

(* The finally of the page request, of preApplyTransaction and of          *)
(* commitConsensedTransaction (bulkFifoUnlockAccounts).                    *)
UnlockAll(p) ==
  /\ pc[p] = "working"
  /\ NobodyRuns(p)
  /\ fifo' = [l \in Lock |-> IF l \in held[p] THEN Unlocked(fifo[l], ids[p][l]) ELSE fifo[l]]
  /\ ids' = [ids EXCEPT ![p] = [l \in Lock |-> 0]]
  /\ held' = [held EXCEPT ![p] = {}]
  /\ kept' = [kept EXCEPT ![p] = {}]
  /\ pc' = [pc EXCEPT ![p] = "done"]
  /\ UNCHANGED <<at, abandoned, forced>>

(* forceUnlockAllFifoLocks.                                                *)
ForceUnlockAll ==
  /\ \A p \in Process : pc[p] # "next"
  /\ fifo' = [l \in Lock |->
       IF fifo[l].queueLocked THEN [fifo[l] EXCEPT !.queueLocked = FALSE, !.waitingList = <<>>]
       ELSE fifo[l]]
  /\ kept' = [p \in Process |-> {}]
  /\ UNCHANGED <<ids, pc, at, held>>

(* clearSyncData, after every sync tracker.                                *)
ClearSyncData ==
  /\ forced < MaxForced
  /\ forced' = forced + 1
  /\ ForceUnlockAll
  /\ UNCHANGED abandoned

(* processTransactions gives up waiting for preApplyTransaction, which     *)
(* goes on.                                                                *)
ApplyTimeout(p) ==
  /\ p \in MayTimeOut \ abandoned
  /\ pc[p] \in {"waiting", "working"}
  /\ abandoned' = abandoned \cup {p}
  /\ ForceUnlockAll
  /\ UNCHANGED forced

(* clearStaleFifoLocks, for a lock nobody has used for ten minutes.        *)
ClearStale(l) ==
  /\ ~fifo[l].queueLocked
  /\ fifo[l] # NewFifo
  /\ \A p \in Process : ids[p][l] = 0 /\ pc[p] # "next"
  /\ fifo' = [fifo EXCEPT ![l] = NewFifo]
  /\ UNCHANGED <<ids, pc, at, held, kept, abandoned, forced>>

LockNext ==
  \/ \E p \in Process : LockOrWait(p) \/ Served(p) \/ UnlockAll(p) \/ ApplyTimeout(p)
  \/ \E l \in Lock : ClearStale(l)
  \/ ClearSyncData

LockSpec == LockInit /\ [][LockNext]_lockVars

(* Whoever waits polls again, and a page is answered, a transaction        *)
(* applied, in the end.                                                    *)
LockFairness ==
  \A p \in Process : WF_lockVars(LockOrWait(p)) /\ WF_lockVars(Served(p)) /\ WF_lockVars(UnlockAll(p))
-----------------------------------------------------------------------------
(* Two never work under the same lock, except for those that lost it to a  *)
(* forced unlock: who lost it frees it for nobody when it unlocks          *)
(* (fifoLock, fifoUnlock).                                                 *)
Exclusive == \A p, q \in Process : p # q => kept[p] \cap kept[q] = {}

(* Whoever waits for a lock gets it, also when a forced unlock has thrown  *)
(* away the line it stood in (fifoLock, forceUnlockAllFifoLocks).          *)
AllServed == \A p \in Process : pc[p] = "waiting" ~> pc[p] # "waiting"
=============================================================================
