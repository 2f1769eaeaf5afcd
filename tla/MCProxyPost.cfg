SPECIFICATION MCSpec
CONSTANTS
    Subjects = {"http"}
    IdleTimeout = 3
    PollInterval = 2
    MaxChunks = 2
    HasInitial = TRUE
    Sessions = {s1, s2}
    MaxIds = 3
    MaxStarts = 2
    MaxKills = 2
    UserIds <- Strings4
    Domains <- SomeDomains
    Terminator = "0"
    MaxString = 4
    Clients = {c1, c2}
    Dests = {d1, d2}
    MaxPackets = 4
    PerAssociation = TRUE
    RoutesThrow = TRUE
    MaxPaths = 1
    MaxHandles = 3
    Kinds = {"get", "post"}
    MaxRequests = 2
INVARIANT PromiseKept
CHECK_DEADLOCK FALSE
