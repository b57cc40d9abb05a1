--------------------------- MODULE MCAccountSync ---------------------------
(***************************************************************************)
(* Small instances of the two sides of a sync.  In one part of the states  *)
(* two page requests and two transactions compete for the locks of a node  *)
(* that answers (FifoLocks); in the other a node that joins fetches three  *)
(* accounts (AccountSync).                                                 *)
(***************************************************************************)
EXTENDS FifoLocks, AccountSync

CONSTANTS page1, page2, tx1, tx2, wrapper, modification, a, b

Processes == {page1, page2, tx1, tx2}
Locks == {wrapper, modification, a, b}
Plans ==
  [p \in Processes |->
     CASE p = tx1 -> <<wrapper, a, b, modification>>
       [] p = tx2 -> <<wrapper, b, a, modification>>
       [] OTHER -> <<modification>>]
OneByOne == [p \in Processes |-> IF p = tx2 THEN {tx1} ELSE {}]
First == {tx1}

Addresses == {1, 2, 3}
Third == {3}
OneRangeOrTwo == {<<{1, 2, 3}>>, <<{1}, {2, 3}>>}
Histories == {<<1, 1, 1>>, <<2, 1, 1>>}

NoSync ==
  /\ now = 0 /\ ts = [x \in Account |-> 0] /\ changes = 0 /\ saved = ts
  /\ trackers = <<>> /\ cur = 1 /\ phase = "apoptosis"
  /\ sources = [length |-> 0, index |-> 0] /\ page = FirstPage
  /\ want = {} /\ got = [x \in Global |-> 0] /\ tries = 0
  /\ globalAccountsSynced = FALSE /\ breakCount = 0
NoLocks ==
  /\ fifo = [l \in Lock |-> NewFifo]
  /\ ids = [p \in Process |-> [l \in Lock |-> 0]]
  /\ pc = [p \in Process |-> "done"]
  /\ at = [p \in Process |-> 1]
  /\ held = [p \in Process |-> {}] /\ kept = held
  /\ abandoned = {} /\ forced = MaxForced

Init ==
  \/ LockInit /\ NoSync
  \/ SyncInit /\ NoLocks /\ ts \in Histories
Next ==
  \/ LockNext /\ UNCHANGED syncVars
  \/ SyncNext /\ UNCHANGED lockVars
Spec == Init /\ [][Next]_<<lockVars, syncVars>> /\ LockFairness /\ SyncFairness
=============================================================================
