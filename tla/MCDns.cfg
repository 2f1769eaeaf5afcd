SPECIFICATION MCSpec
CONSTANTS
  Subjects = {"group", "stopping", "sharing", "caching", "tcp", "udp",
              "dot", "doh1", "doh2", "doh3", "doq", "by name", "bootstrap", "server"}
  Ops = {o1, o2}
  MemberCount = 3
  Timeout = 3
  RoundRobin = TRUE
  BackoffBase = 1
  BackoffMax = 3
  FailureCap = 3
  MaxTime = 3
  MemberMayCancel = TRUE
  None = None
  MaxRequest = 3
  Wires <- AllWires
  Malformed = {wBad}
  PacketIds <- TransactionIds
  NameOf <- Names
  PolicyOf <- Policies
  Groups = {"office"}
  Responses <- Packets
  NegativeTtl = 3
  U32Max = 3
  Capacity = 1
  MaxClock = 2
  MaxCancels = 2
  MaxClears = 1
  MaxRuntimeStops = 1
  MayStop = TRUE
  OwnerDrains = TRUE
  Exchanges = {e1, e2, e3}
  MaxId = 2
  PreferTcp = TRUE
  MaxGeneration = 1
  MaxStray = 1
  Nothing = Nothing
  Twins = {x1, x2}
  wPlain = wPlain
  wOther = wOther
  wBad = wBad
  wLost = wLost
  TransactionIds = {i1, i2}
SYMMETRY Symmetry
INVARIANTS GroupIsSound RequestsAnswered SharingIsSound CacheIsSound TransportIsSound
           ResolversAreSound
PROPERTY RetriesAreFair
CHECK_DEADLOCK FALSE
