CONSTANTS
  Installations = {home, phone}
  Services = {}
  Numbers = {n1}
  NoNumber = NoNumber
  Ids = {r1}
  Callers = {c1, c2}
  NoOne = NoOne
  Skew = 1
  Window = 3
  Stall = 1
  Ttls = {1}
  Stamps = {1}
  MaxTokens = 1
  MaxTime = 4
  Names = {"claude", "work"}
  NoName = ""
  Platforms = {"claude", "chatgpt"}
  i1 = i1
  i2 = i2
  Instances = {i1, i2}
  Uuids = {"u1"}
  NoInstance = ""
  Operator = "rico"
  SendsAs <- OperatorSending
  CallsAs <- OperatorCalling
  Pairings <- Paired
  RoomOf <- Rooms
  Canonical <- ShortIds
  Suffixed <- Suffixes
  Listings = {TRUE}
  FirstNumber = 1
  MaxContracts = 3
SPECIFICATION IdentitySpec
SYMMETRY Alike
INVARIANTS
  AcceptedOnce
  ActsAsItself
  ResumesAsItself
  NumberReachesHolder
PROPERTIES
  RevokedStaysOut
