CONSTANTS
  n1 = n1
  n2 = n2
  r1 = r1
  r2 = r2
  r3 = r3
  r4 = r4
  r5 = r5
  a = a
  b = b
  t0 = t0
  t1 = t1
  t2 = t2
  t9 = t9
  Node <- TwoNodes
  Remote <- FourRemote
  Account = {a}
  Tx <- OneTx
  Past <- OnlyT0
  Stamp <- Stamps
  Keys <- OnA
  Exec <- AllExecute
  Stores <- AllStore
  Initial <- HoldsT0
  Missed <- OneMissed
  Failing <- None
  Late <- TwoNodes
  nodesPerConsensusGroup = 3
  StuckAge = 2
  MaxClock = 5
  NoProposal = NoProposal
SPECIFICATION Spec
INVARIANT ReceiptsAgree
SYMMETRY Perms
CHECK_DEADLOCK FALSE
