CONSTANTS
  n1 = n1
  n2 = n2
  a = a
  b = b
  c = c
  k = k
  NoKey = NoKey
  Node <- OneNode
  Tx <- ThreeTxs
  Rank <- Ranks
  Priority <- Priorities
  SubQueueKey <- Keys
  PerCycle = 2
  SlowAdd <- NoNode
  SlowApply <- OneNode
  MaxCycle = 5
  PairCycles = 3
SPECIFICATION MCSpec
INVARIANTS ListsAgree TypeOK BudgetUsed
PROPERTIES SubQueueInOrder RemovedOnlyApplied
