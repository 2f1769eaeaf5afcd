SPECIFICATION MCSpec
CONSTANTS
  Subjects = {"adaptor"}
  Sends = {s1, s2}
  Recvs = {r1, r2}
  Capacity = 0
  Bounded = TRUE
  MaxSenders = 2
  None = None
  Handles = {h1, h2}
  MaxItems = 2
  Values = {v1, v2}
INVARIANT ThrowsCleanly
CHECK_DEADLOCK FALSE
