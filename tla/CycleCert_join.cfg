CONSTANTS
  n1 = n1
  n2 = n2
  n3 = n3
  t1 = t1
  none = none
  Node <- ThreeNodes
  Active <- TwoNodes
  TxChoices <- Txs
  HashXor <- Xor
  Epochs = 2
  Foundation <- OnlyN1
  NerfModulus = 16
  MaxFetchFails = 1
  Lossy = FALSE
  Late <- NoNode
  NoRecord = none
  MaxClock = 9
SPECIFICATION Spec
INVARIANTS CachedCertsMatch TypeOK BestIsMax OneVotePerCycle
PROPERTY ImplementsLedger
