CONSTANTS
  t1 = t1
  turn = turn
  worker = worker
  Tasks = {t1}
  StartupTasks = {t1}
  Owners = {turn, worker}
  Worker = worker
  Nobody = Nobody
  Params <- OneParams
  LeaseSecs = {1, 2}
  Delays = {0, 1}
  Horizon = 1
  MaxRevision = 6
SPECIFICATION FairSpec
INVARIANTS
  OneLeaseholder
  HolderIsNeverStale
  NeverMuted
PROPERTIES
  KeepsContract
  OrphansReclaimed
  DueIsAnnounced
