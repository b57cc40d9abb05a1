CONSTANTS
  Voter = {o1, o2, o3, o4}
  MaxScore = 3
  AddressSpace = 135
  MaxActive = 9
  Groups = {3, 5}
  Edges = {0, 2}
  Offsets = {0, 1, 2, 3, 4, 5}
  MinNodes = 10
  MaxNodes = 11
  Extra = 1
  Forming = 3
  SyncMin = 2
  Delta = 1
  FloorChoices = {FALSE, TRUE}
  Pool = 13
  MaxLost = 7
  MaxVotes = 1
SPECIFICATION Spec
INVARIANTS BestThree StorageAgrees
PROPERTIES GrowthFetched TellsArrive Recovers RotationSafe
