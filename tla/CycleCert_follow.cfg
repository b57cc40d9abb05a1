CONSTANTS
  n1 = n1
  n2 = n2
  n3 = n3
  t1 = t1
  none = none
  Node <- TwoNodes
  Active <- OnlyN1
  TxChoices <- Txs
  HashXor <- Xor
  Epochs = 2
  Foundation <- OnlyN1
  NerfModulus = 16
  MaxFetchFails = 1
  Lossy = TRUE
  Late <- OnlyN2
  NoRecord = none
  MaxClock = 9
SPECIFICATION FairSpec
INVARIANT ChainContiguous
PROPERTY CatchesUpOrLeaves
