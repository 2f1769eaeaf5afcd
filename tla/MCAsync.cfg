SPECIFICATION MCSpec
CONSTANTS
  Subjects = {"mpsc", "unbounded", "watch", "watchOverlap", "broadcast", "broadcastOverlap", "adaptor",
    "oneshot", "stages", "merge", "fan"}
  Sends = {s1, s2}
  Recvs = {r1, r2}
  Capacity = 0
  Bounded = TRUE
  MaxSenders = 2
  None = None
  Handles = {h1, h2}
  MaxItems = 2
  Values = {v1, v2}
SYMMETRY Symmetry
INVARIANTS ExactlyOnce ValuesAccounted PullsAreSound NothingSkipped SettlesCleanly
PROPERTIES NoOvertaking StreamsKeepOrder
CHECK_DEADLOCK FALSE
