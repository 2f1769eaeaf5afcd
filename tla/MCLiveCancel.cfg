SPECIFICATION MCFairSpec
CONSTANTS
  Subjects = {"group"}
  Sends = {s1, s2}
  Recvs = {r1}
  Capacity = 1
  Bounded = TRUE
  MaxSenders = 1
  None = None
  Kinds = {"get", "connect", "upgrade", "options", "denied", "bad"}
  MaxRequests = 2
  Handles = {h1, h2}
  DnsOps = {e1}
  MemberMayCancel = TRUE
PROPERTY ExchangeEnds
CHECK_DEADLOCK FALSE
