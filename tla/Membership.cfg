CONSTANTS
  v1 = v1
  v2 = v2
  v3 = v3
  Validator <- Two
  Candidate <- Both
  Golden <- Nobody
  StandbyTTL = 4
  MaxScrub = 1
  SyncWait = 1
  MaxStandby = 2
  MaxAdd = 1
  AllowActive = 1
  AskIn <- Often
  Forgetful <- Nobody
  Unjoining <- Second
  Refreshing <- First
  Lossy = FALSE
  MaxCycle = 7
SPECIFICATION Spec
INVARIANTS NobodyOverstays RecordsAgree ListsDisjoint
PROPERTIES LeaversGone OnlySilentDropped
