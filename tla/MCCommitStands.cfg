CONSTANTS
  p = p
  q = q
  t1 = t1
  s1 = s1
  s2 = s2
  Absent = Absent
  Paths = {p, q}
  Txs = {t1}
  Servers = {s1, s2}
  ToolServers = {s1, s2}
  Urls = {"u", "v"}
  MaxTunnels = 1
SPECIFICATION HostSpec
CHECK_DEADLOCK FALSE
PROPERTIES
  CommitStands
