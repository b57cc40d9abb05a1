CONSTANTS
  n1 = n1
  n2 = n2
  r1 = r1
  r2 = r2
  r3 = r3
  r4 = r4
  r5 = r5
  a = a
  b = b
  t0 = t0
  t1 = t1
  t2 = t2
  t9 = t9
  Node <- OneNode
  Remote <- FiveRemote
  Account = {a, b}
  Tx <- TwoTxs
  Past <- T0AndT9
  Stamp <- Stamps
  Keys <- AThenAB
  Exec <- ElsewhereThenHere
  Stores <- AllStore
  Initial <- BMayBeNewer
  Missed <- OneMissed
  Failing <- None
  Late <- OneNode
  nodesPerConsensusGroup = 3
  StuckAge = 2
  MaxClock = 5
  NoProposal = NoProposal
SPECIFICATION FairSpec
INVARIANTS StoredInOrder PassedIsStored
PROPERTIES VotesInOrder Settles
CHECK_DEADLOCK FALSE
