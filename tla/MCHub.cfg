CONSTANTS
  chatgpt = chatgpt
  claude = claude
  c1 = c1
  k1 = k1
  Agents = {chatgpt, claude}
  Woken = chatgpt
  Rico = rico
  Everyone = all
  Servers = {"server", "cli"}
  Clients = {c1}
  NoClient = NoClient
  AgentOf <- Owner
  Kinds <- SentKinds
  NoKey = NoKey
  ControlKind <- Order
  ClaimSecs = {1}
  Limits = {1}
  PeekLimit = 1
  MaxMessages = 2
  MaxSeq = 3
  MaxDeaths = 1
SPECIFICATION HubSpec
INVARIANTS
  WakeEndsWithMessage
PROPERTIES
  HandledIsFinal
  UnreadIsWoken
