CONSTANTS
  n1 = n1
  n2 = n2
  n3 = n3
  n4 = n4
  Node <- Three
  ById <- Order
  Offset <- Hashes
  ReportDelay = 1
  Prune = 1
  Flaky <- OnlyN3
  Mortal <- OnlyN3
  Leaving <- OnlyN2
  Late <- NoNode
  Lossy = FALSE
  ReportIn <- Twice
  MaxCycle = 8
SPECIFICATION Spec
INVARIANTS NoLiveEviction GoneInTime
