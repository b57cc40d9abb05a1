CONSTANTS
  page1 = page1
  page2 = page2
  tx1 = tx1
  tx2 = tx2
  wrapper = wrapper
  modification = modification
  a = a
  b = b
  Process <- Processes
  Lock <- Locks
  Wrapper = wrapper
  Plan <- Plans
  Earlier <- OneByOne
  MayTimeOut <- First
  MaxForced = 1
  Account <- Addresses
  Global <- Third
  Layouts <- OneRangeOrTwo
  MaxRecords = 2
  Sit = 1
  CommitLag = 1
  MaxSources = 2
  SmallList = 1
  AskRetries = 1
  ListRestarts = 1
  TrackerRestarts = 1
  DataRestarts = 0
  GlobalTries = 2
  MaxTime = 4
  MaxChanges = 1
SPECIFICATION Spec
INVARIANTS Exclusive OldDataSynced
PROPERTIES AllServed SyncEnds
CHECK_DEADLOCK FALSE
