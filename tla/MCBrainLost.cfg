CONSTANTS
  t1 = t1
  turn = turn
  worker_owner = worker_owner
  Tasks = {t1}
  StartupTasks = {}
  Owners = {turn, worker_owner}
  Worker = worker_owner
  Nobody = Nobody
  Params <- MCParams
  LeaseSecs = {1}
  Delays = {0}
  Horizon = 0
  MaxRevision = 2
  MaxDeaths = 1
  MaxSignal = 4
SPECIFICATION FairWakeSpec
PROPERTIES
  WokenAfterRestart
