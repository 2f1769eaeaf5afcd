SPECIFICATION MCSpec
CONSTANTS
  Subjects = {"http3"}
  MaxExchanges = 4
  Interims = FALSE
  Capacity = 3
  BufferSize = 2
  MaxBytes = 5
  Stops = FALSE
  MaxPulls = 6
INVARIANT SiblingsKeepFlowing
CHECK_DEADLOCK FALSE
