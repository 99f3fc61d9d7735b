CONSTANTS
  t1 = t1
  turn = turn
  worker_owner = worker_owner
  Tasks = {t1}
  StartupTasks = {}
  Owners = {turn, worker_owner}
  Worker = worker_owner
  Nobody = Nobody
  Params <- MCParams
  LeaseSecs = {1}
  Delays = {0}
  Horizon = 0
  MaxRevision = 2
  MaxDeaths = 1
  MaxSignal = 4
  old = old
  new = new
  Widgets = {old, new}
  NoWidget = NoWidget
  Generation <- MCGeneration
  Agents = {"chatgpt", "claude"}
  Anyone = Anyone
  AgentOf <- MCAgentOf
  Channels = {"main"}
  Keys = {"wake", "mail"}
  NoKey = NoKey
  Kinds <- OneChannel
  LeaderSecs = {1}
  ClaimSecs = {1}
  ShownFor = 2
  MaxEvents = 2
  MaxSeq = 3
SPECIFICATION BothSpec
INVARIANTS
  ClaimedEntriesAreSpent
  OneUseOfAKey
PROPERTIES
  WokenUnlessCut
  ClaimsAreExclusive
  NeverAbandoned
