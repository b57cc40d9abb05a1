CONSTANTS
  n1 = n1
  n2 = n2
  n3 = n3
  n4 = n4
  a = a
  b = b
  Node <- ThreeNodes
  Account = {a}
  MaxState = 2
  MaxCycle = 2
  MaxUnaware = 1
  Behind <- Third
  MaxApart = 1
SPECIFICATION FairSpec
INVARIANTS TrieKeepsUp
PROPERTIES  Converges
CHECK_DEADLOCK FALSE
