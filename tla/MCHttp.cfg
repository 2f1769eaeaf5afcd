SPECIFICATION MCSpec
CONSTANTS
  Subjects = {"http1", "body", "shared", "single", "tunnel", "abandoned",
              "http3", "http3one", "quic", "datagrams", "handles"}
  MaxExchanges = 4
  Interims = FALSE
  Capacity = 3
  BufferSize = 2
  MaxBytes = 5
  Stops = FALSE
  MaxPulls = 6
INVARIANTS ResponsesAreOwn ExchangesAreSound BodyIsSound StreamsAreSound TunnelIsSound QuicIsSound
PROPERTY SiblingsUntouched
CHECK_DEADLOCK FALSE
