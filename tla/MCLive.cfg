SPECIFICATION MCFairSpec
CONSTANTS
  Subjects = {"mpsc", "watch", "broadcast", "adaptor", "oneshot", "merge",
              "http", "killed", "relay", "handshake", "http1", "body", "http2", "tunnel", "http3",
              "group", "service", "plain", "dot", "doh1", "doh2", "doq", "by name", "bootstrap"}
  Sends = {s1, s2}
  Recvs = {r1}
  Capacity = 1
  Bounded = TRUE
  MaxSenders = 1
  None = None
  Kinds = {"get", "connect", "upgrade", "options", "denied", "bad"}
  MaxRequests = 2
  Handles = {h1, h2}
  DnsOps = {e1, e2}
  MemberMayCancel = FALSE
INVARIANTS NobodyWaitsInVain PromiseKept
PROPERTIES EveryoneReleased EverythingEnds EverythingCompletes QueryAnswered PromisesKept
CHECK_DEADLOCK FALSE
